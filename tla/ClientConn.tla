----------------------------- MODULE ClientConn -----------------------------
(***************************************************************************)
(* The client endpoint: server/clientserver.  Every connection has a read  *)
(* loop, a bounded queue of requests, one dispatching goroutine serving    *)
(* them in order and a cleanup that runs when reading fails.  A request is *)
(* gated (mode, raw channel), routed to the reader holding the tag it      *)
(* names, and performed there under that reader's operation slot, whose    *)
(* own protocol is ReaderSlot's.                                           *)
(*                                                                         *)
(* Cards are lifted and replaced and the operator's switches flipped       *)
(* between any two steps, so what a scan, a card or a switch says is       *)
(* chosen afresh each time it is read; the peer may stall or vanish.       *)
(* Payloads, error texts and the audit log are left out; what a request is *)
(* refused for is not.                                                     *)
(***************************************************************************)
EXTENDS Integers, Sequences, FiniteSets

CONSTANTS
    Conns, Readers, Tags,
    Leases,         \* raw session ids; random, each given once
    Requests,       \* what a client may ask: [kind, uid, device, guess]
    RequestQueue,   \* clientRequestQueue
    MaxAsked,       \* bound: messages the clients send
    None

VARIABLES
    conn,       \* conn[c]: where the connection's read loop and cleanup are
    sock,       \* sock[c]: "open", "stalled" (the peer stopped reading), "closed"
    cancelled,  \* cancelled[c]: the connection's context is done
    queue,      \* queue[c]: the requests channel
    job,        \* job[c]: what the dispatching goroutine is doing
    clients,    \* Server.clients
    leases,     \* leases[c]: clientSession.leases
    toEnd,      \* toEnd[c]: leases the cleanup took and has yet to end
    slot,       \* slot[r]: the reader's operation slot: Free, an operation, a lease
    owner,      \* owner[l]: the connection a lease was given to
    asked       \* what MaxAsked bounds

connVars == <<conn, sock, cancelled, clients, asked>>
workVars == <<queue, job, leases, toEnd, slot, owner>>
vars == <<connVars, workVars>>

Free == [what |-> "free"]
Idle == [step |-> "idle"]
Unnamed == "unnamed"     \* a card is present whose UID could not be read
Scans == [Readers -> Tags \cup {None, Unnamed}]     \* what TagOn may answer

Kinds == {"write", "lock", "ntag424Write", "ntag424Read", "capabilities",
          "transceive", "sequence", "begin", "end", "unknown", "malformed"}
Mutating == {"write", "lock", "ntag424Write"}
Raw == {"transceive", "sequence", "begin"}

ASSUME NamesOK ==
    /\ None \notin Readers /\ None \notin Tags /\ None \notin Leases
    /\ Unnamed \notin Tags /\ Unnamed # None

ASSUME RequestsOK ==
    Requests \subseteq [kind : Kinds, uid : Tags \cup {None}, device : Readers \cup {None}, guess : BOOLEAN]

(* A request as it is queued: one of Requests, naming a session or none.   *)
Asked == [kind : Kinds, uid : Tags \cup {None}, device : Readers \cup {None},
          guess : BOOLEAN, lease : Leases \cup {None}]

Operation(r) == slot[r].what = "operation"
Held(l) == \E r \in Readers : slot[r].what = "lease" /\ slot[r].lease = l

(* An operation in a slot: whose it is, the tag its request named, the UID *)
(* its route holds the reader to, and the tag it found.                    *)
Operations == [what : {"operation"}, by : Conns, kind : Kinds,
               named : Tags \cup {None}, uid : Tags \cup {None}, seen : Tags \cup {None}]

TypeOK ==
    /\ conn \in [Conns -> {"away", "serving", "refusing", "leaving", "waiting",
                           "removing", "releasing", "gone"}]
    /\ sock \in [Conns -> {"open", "stalled", "closed"}]
    /\ cancelled \in [Conns -> BOOLEAN]
    /\ \A c \in Conns : Len(queue[c]) <= RequestQueue /\ queue[c] \in Seq(Asked)
    /\ \A c \in Conns : job[c].step \in {"idle", "reply"} \/ job[c].req \in Asked
    /\ clients \in SUBSET Conns
    /\ leases \in [Conns -> SUBSET Leases] /\ toEnd \in [Conns -> SUBSET Leases]
    /\ \A r \in Readers : \/ slot[r] \in {Free} \cup Operations
                          \/ slot[r].what = "lease" /\ slot[r].lease \in Leases
    /\ owner \in [Leases -> Conns \cup {None}]

Init ==
    /\ conn = [c \in Conns |-> "away"] /\ sock = [c \in Conns |-> "open"]
    /\ cancelled = [c \in Conns |-> FALSE] /\ clients = {}
    /\ queue = [c \in Conns |-> <<>>] /\ job = [c \in Conns |-> Idle]
    /\ leases = [c \in Conns |-> {}] /\ toEnd = [c \in Conns |-> {}]
    /\ slot = [r \in Readers |-> Free] /\ owner = [l \in Leases |-> None]
    /\ asked = 0

-----------------------------------------------------------------------------
(* The connection: its read loop, and its cleanup.                         *)

At(c, phase) == conn' = [conn EXCEPT ![c] = phase]

Connect(c) ==
    /\ conn[c] = "away"
    /\ At(c, "serving")
    /\ clients' = clients \cup {c}
    /\ UNCHANGED <<sock, cancelled, asked, workVars>>

(* A message is read: queued, or refused BUSY when the queue is full.      *)
Read(c, req) ==
    /\ conn[c] = "serving" /\ sock[c] # "closed" /\ asked < MaxAsked
    /\ asked' = asked + 1
    /\ IF Len(queue[c]) < RequestQueue
         THEN queue' = [queue EXCEPT ![c] = Append(@, req)] /\ UNCHANGED conn
         ELSE At(c, "refusing") /\ UNCHANGED queue
    /\ UNCHANGED <<sock, cancelled, clients, job, leases, toEnd, slot, owner>>

(* A session is named by an id the server gave out.                        *)
Ask(c) ==
    \E req \in Requests, l \in Leases \cup {None} :
        /\ l # None => owner[l] # None
        /\ req.kind = "end" => l # None
        /\ l # None => req.kind \in {"end", "transceive", "sequence"}
        /\ Read(c, [kind |-> req.kind, uid |-> req.uid, device |-> req.device,
                    guess |-> req.guess, lease |-> l])

(* The refusal is written by the read loop, which a peer that stopped      *)
(* reading holds up.                                                       *)
Refuse(c) ==
    /\ conn[c] = "refusing" /\ sock[c] # "stalled"
    /\ At(c, "serving")
    /\ UNCHANGED <<sock, cancelled, clients, asked, workVars>>

Peer(c) ==
    /\ conn[c] # "away" /\ sock[c] # "closed"
    /\ \E s \in {"open", "stalled", "closed"} \ {sock[c]} : sock' = [sock EXCEPT ![c] = s]
    /\ UNCHANGED <<conn, cancelled, clients, asked, workVars>>

(* An operator disconnects the client: cancel, then close the socket.  The *)
(* map is left to the cleanup.                                             *)
Disconnect(c) ==
    /\ c \in clients
    /\ cancelled' = [cancelled EXCEPT ![c] = TRUE]
    /\ sock' = [sock EXCEPT ![c] = "closed"]
    /\ UNCHANGED <<conn, clients, asked, workVars>>

(* Mutant: after a disconnect the error is taken for the context's.        *)
ReadFailsAlone(c) ==
    /\ conn[c] = "serving" /\ sock[c] = "closed" /\ ~cancelled[c]
    /\ At(c, "leaving")
    /\ UNCHANGED <<sock, cancelled, clients, asked, workVars>>

ReadFails(c) ==
    /\ conn[c] = "serving" /\ sock[c] = "closed"
    /\ At(c, "leaving")
    /\ UNCHANGED <<sock, cancelled, clients, asked, workVars>>

(* The first deferred function: cancel(); close(requests).                 *)
CancelAndClose(c) ==
    /\ conn[c] = "leaving"
    /\ At(c, "waiting")
    /\ cancelled' = [cancelled EXCEPT ![c] = TRUE]
    /\ UNCHANGED <<sock, clients, asked, workVars>>

(* Mutant: the cleanup does not wait for the dispatching goroutine.        *)
DrainedAtOnce(c) ==
    /\ conn[c] = "waiting"
    /\ At(c, "removing")
    /\ UNCHANGED <<sock, cancelled, clients, asked, workVars>>

(* dispatching.Wait(): every request already queued is dispatched first.   *)
Drained(c) ==
    /\ conn[c] = "waiting" /\ queue[c] = <<>> /\ job[c] = Idle
    /\ At(c, "removing")
    /\ UNCHANGED <<sock, cancelled, clients, asked, workVars>>

(* The second deferred function takes the leases with the map entry.       *)
Remove(c) ==
    /\ conn[c] = "removing"
    /\ At(c, "releasing")
    /\ clients' = clients \ {c}
    /\ toEnd' = [toEnd EXCEPT ![c] = leases[c]]
    /\ leases' = [leases EXCEPT ![c] = {}]
    /\ UNCHANGED <<sock, cancelled, asked, queue, job, slot, owner>>

(* EndRawSession: the reader that runs the lease gives its slot back; an   *)
(* id no reader knows is an error nobody is waiting for.                   *)
Released(l) ==
    slot' = [r \in Readers |->
                IF slot[r].what = "lease" /\ slot[r].lease = l THEN Free ELSE slot[r]]

EndLease(c) ==
    /\ conn[c] = "releasing"
    /\ \E l \in toEnd[c] :
         /\ Released(l)
         /\ toEnd' = [toEnd EXCEPT ![c] = @ \ {l}]
    /\ UNCHANGED <<connVars, queue, job, leases, owner>>

CleanedUp(c) ==
    /\ conn[c] = "releasing" /\ toEnd[c] = {}
    /\ At(c, "gone")
    /\ UNCHANGED <<sock, cancelled, clients, asked, workVars>>

-----------------------------------------------------------------------------
(* Dispatching: one request at a time, from gate to reply.                 *)

Step(c, step) == job' = [job EXCEPT ![c].step = step]
Answer(c) == job' = [job EXCEPT ![c] = [step |-> "reply"]]

(* rawChannelGate, and the mode alone for what is not raw.  Ending a       *)
(* session and reporting capabilities are never refused.                   *)
Gated(req, writable, channel) ==
    \/ req.kind \in Mutating \cup Raw /\ ~writable
    \/ req.kind \in Raw /\ ~channel

(* Where a request goes once it has been read and gated.                   *)
FirstStep(req, writable, channel) ==
    IF req.kind \in {"unknown", "malformed"} \/ Gated(req, writable, channel) THEN "reply"
    ELSE IF req.kind = "end" THEN "forget"
    ELSE IF req.lease # None THEN "exchange"
    ELSE "resolve"

Dispatch(c) ==
    /\ job[c] = Idle /\ queue[c] # <<>>
    /\ queue' = [queue EXCEPT ![c] = Tail(@)]
    /\ \E writable, channel \in BOOLEAN :
         job' = [job EXCEPT ![c] = [step |-> FirstStep(Head(queue[c]), writable, channel),
                                    req |-> Head(queue[c])]]
    /\ UNCHANGED <<connVars, leases, toEnd, slot, owner>>

(* What a reader answers for, from its last scan; a guess prefers a tag    *)
(* that can be named.                                                      *)
Named(s) == IF s = Unnamed THEN None ELSE s

GuessedReaders(scan) ==
    LET named == {r \in Readers : scan[r] \in Tags}
    IN  IF named # {} THEN named ELSE {r \in Readers : scan[r] # None}

(* Mutant: a named device is held to what the scan says is on it.          *)
RoutesAsScanned(req, scan) ==
    IF req.device # None
      THEN {[reader |-> r, uid |-> Named(scan[r])] : r \in
              {r \in {req.device} : scan[r] # None
                  /\ (req.uid = None \/ scan[r] \in {Unnamed, req.uid})}}
    ELSE IF req.uid # None
      THEN {[reader |-> r, uid |-> req.uid] : r \in {r \in Readers : scan[r] = req.uid}}
    ELSE IF req.guess
      THEN {[reader |-> r, uid |-> Named(scan[r])] : r \in GuessedReaders(scan)}
    ELSE {}

(* The routes resolveRoute may return; none is a refusal: NO_CARD,         *)
(* TAG_MISMATCH or TAG_NOT_NAMED.  A request's own uid is what the reader  *)
(* is held to, whether or not its scan could name the tag.                 *)
Routes(req, scan) ==
    IF req.device # None
      THEN {[reader |-> r, uid |-> IF req.uid # None THEN req.uid ELSE Named(scan[r])] : r \in
              {r \in {req.device} : scan[r] # None
                  /\ (req.uid = None \/ scan[r] \in {Unnamed, req.uid})}}
    ELSE IF req.uid # None
      THEN {[reader |-> r, uid |-> req.uid] : r \in {r \in Readers : scan[r] = req.uid}}
    ELSE IF req.guess
      THEN {[reader |-> r, uid |-> Named(scan[r])] : r \in GuessedReaders(scan)}
    ELSE {}

Resolve(c) ==
    /\ job[c].step = "resolve"
    /\ \E scan \in Scans :
         \/ Routes(job[c].req, scan) = {} /\ Answer(c)
         \/ \E rt \in Routes(job[c].req, scan) :
              job' = [job EXCEPT ![c] = [step |-> "acquire", req |-> @.req, route |-> rt]]
    /\ UNCHANGED <<connVars, queue, leases, toEnd, slot, owner>>

(* acquireSlot: a free slot is taken whatever the context says.            *)
Acquire(c) ==
    /\ job[c].step = "acquire"
    /\ LET req == job[c].req
           rt == job[c].route
       IN  /\ slot[rt.reader] = Free
           /\ slot' = [slot EXCEPT ![rt.reader] =
                [what |-> "operation", by |-> c, kind |-> req.kind,
                 named |-> req.uid, uid |-> rt.uid, seen |-> None]]
    /\ Step(c, "awaiting")
    /\ UNCHANGED <<connVars, queue, leases, toEnd, owner>>

(* The wait for a slot that is taken, or for an answer, is given up: the   *)
(* operation goes on.  A session is opened without such a wait.            *)
Abandonable(c) ==
    LET r == job[c].route.reader
    IN  \/ job[c].step = "acquire" /\ slot[r] # Free
        \/ job[c].step = "awaiting" /\ job[c].req.kind # "begin"

GiveUp(c) ==
    /\ Abandonable(c)
    /\ Answer(c)
    /\ UNCHANGED <<connVars, queue, leases, toEnd, slot, owner>>

Cancelled(c) == cancelled[c] /\ GiveUp(c)
TimesOut(c) == ~cancelled[c] /\ GiveUp(c)

(* soleTag under the slot: the one tag there is, and the one the route     *)
(* names.                                                                  *)
Touch(r) ==
    /\ Operation(r) /\ slot[r].seen = None
    /\ \E t \in Tags : /\ slot[r].uid \in {None, t}
                      /\ slot' = [slot EXCEPT ![r].seen = t]
    /\ UNCHANGED <<connVars, queue, job, leases, toEnd, owner>>

Awaited(r) == LET c == slot[r].by
              IN  job[c].step = "awaiting" /\ job[c].route.reader = r

(* The operation ends, done, failed or refused for the card it found: the  *)
(* slot is given back, and who still waits is answered.                    *)
Finish(r) ==
    /\ Operation(r)
    /\ slot' = [slot EXCEPT ![r] = Free]
    /\ IF Awaited(r) THEN Answer(slot[r].by) ELSE UNCHANGED job
    /\ UNCHANGED <<connVars, queue, leases, toEnd, owner>>

(* openLease: the slot passes from the operation to the lease.             *)
Begin(r, l) ==
    /\ Operation(r) /\ slot[r].kind = "begin" /\ slot[r].seen # None
    /\ owner[l] = None
    /\ owner' = [owner EXCEPT ![l] = slot[r].by]
    /\ slot' = [slot EXCEPT ![r] = [what |-> "lease", lease |-> l,
                                    named |-> @.named, seen |-> @.seen]]
    /\ job' = [job EXCEPT ![slot[r].by] = [step |-> "record", req |-> @.req, lease |-> l]]
    /\ UNCHANGED <<connVars, queue, leases, toEnd>>

(* The session is given to the client while it is connected.               *)
Record(c) ==
    /\ job[c].step = "record"
    /\ leases' = IF c \in clients THEN [leases EXCEPT ![c] = @ \cup {job[c].lease}] ELSE leases
    /\ Answer(c)
    /\ UNCHANGED <<connVars, queue, toEnd, slot, owner>>

(* An exchange or a sequence inside a session is refused as expired unless *)
(* a reader holds the lease by its id ...                                  *)
Exchange(c) ==
    /\ job[c].step = "exchange"
    /\ IF Held(job[c].req.lease) THEN Step(c, "turn") ELSE Answer(c)
    /\ UNCHANGED <<connVars, queue, leases, toEnd, slot, owner>>

(* ... then waits for the session's exchanges before it (l.exec), whatever *)
(* its context says, and looks again ...                                   *)
Exchanging(l) == \E c \in Conns : job[c].step = "transfer" /\ job[c].req.lease = l

Turn(c) ==
    /\ job[c].step = "turn" /\ ~Exchanging(job[c].req.lease)
    /\ IF Held(job[c].req.lease) /\ ~cancelled[c] THEN Step(c, "transfer") ELSE Answer(c)
    /\ UNCHANGED <<connVars, queue, leases, toEnd, slot, owner>>

(* ... and exchanges, until the card answers; nothing cuts that short.  A  *)
(* card that has left ends the session.                                    *)
TransferEnds(c) ==
    /\ job[c].step = "transfer"
    /\ Released(job[c].req.lease) \/ UNCHANGED slot
    /\ Answer(c)
    /\ UNCHANGED <<connVars, queue, leases, toEnd, owner>>

(* handleRawSessionEnd: forgotten under the lock, then ended.              *)
Forget(c) ==
    /\ job[c].step = "forget"
    /\ leases' = [leases EXCEPT ![c] = @ \ {job[c].req.lease}]
    /\ Step(c, "end")
    /\ UNCHANGED <<connVars, queue, toEnd, slot, owner>>

End(c) ==
    /\ job[c].step = "end"
    /\ Released(job[c].req.lease)
    /\ Answer(c)
    /\ UNCHANGED <<connVars, queue, leases, toEnd, owner>>

(* A peer that stopped reading holds the reply up.                         *)
Reply(c) ==
    /\ job[c].step = "reply" /\ sock[c] # "stalled"
    /\ job' = [job EXCEPT ![c] = Idle]
    /\ UNCHANGED <<connVars, queue, leases, toEnd, slot, owner>>

-----------------------------------------------------------------------------
(* A lease's time to live runs out, which an exchange keeps from being     *)
(* looked at.                                                              *)

Expire(l) ==
    /\ Held(l) /\ ~Exchanging(l)
    /\ Released(l)
    /\ UNCHANGED <<connVars, queue, job, leases, toEnd, owner>>

(* The goroutine of the connection, without what it waits for others to do.*)
Loop(c) ==
    \/ Refuse(c) \/ ReadFails(c) \/ CancelAndClose(c) \/ Drained(c)
    \/ Remove(c) \/ EndLease(c) \/ CleanedUp(c)

(* The dispatching goroutine, without the timeouts and the transfers.      *)
Serve(c) ==
    \/ Dispatch(c) \/ Resolve(c) \/ Acquire(c) \/ Cancelled(c)
    \/ Record(c) \/ Exchange(c) \/ Turn(c) \/ Forget(c) \/ End(c) \/ Reply(c)

Operate(r) == Touch(r) \/ Finish(r) \/ \E l \in Leases : Begin(r, l)

Next ==
    \/ \E c \in Conns : \/ Connect(c) \/ Ask(c) \/ Peer(c) \/ Disconnect(c)
                        \/ Loop(c) \/ Serve(c) \/ TimesOut(c) \/ TransferEnds(c)
    \/ \E r \in Readers : Operate(r)
    \/ \E l \in Leases : Expire(l)

Spec == Init /\ [][Next]_vars

(* Goroutines that can run do.  No timeout is relied on, nor the end of an *)
(* operation, an exchange or a lease.                                      *)
Fairness == \A c \in Conns : WF_vars(Loop(c)) /\ WF_vars(Serve(c))

FairSpec == Spec /\ Fairness

-----------------------------------------------------------------------------
(* Properties.                                                             *)

(* A raw session's lease that holds a reader is always one somebody will   *)
(* end: its client's session lists it, the cleanup has taken it, or the    *)
(* request that opened or ends it is still being served.  A client that    *)
(* leaves while its session is being opened, or with requests queued,      *)
(* leaves no reader leased (server.go, handleRawSessionBegin and the       *)
(* deferred cleanup).                                                      *)
LeaseAccounted ==
    \A l \in Leases : Held(l) =>
        \E c \in Conns :
            \/ l \in leases[c] /\ c \in clients
            \/ l \in toEnd[c] /\ conn[c] = "releasing"
            \/ job[c].step = "record" /\ job[c].lease = l /\ c \in clients
            \/ job[c].step = "end" /\ job[c].req.lease = l

(* Whatever is moved between the scan a route was picked from and the      *)
(* operation, a request that names a tag touches that tag or none          *)
(* (tagresolve.go, resolveRoute: "the tag it named is what the source is   *)
(* held to").                                                              *)
NamedTagOnly ==
    \A r \in Readers :
        slot[r].what # "free" /\ slot[r].seen # None => slot[r].named \in {None, slot[r].seen}

(* Transfers that are waited for without a context or a timeout: those of  *)
(* an exchange in a session, and those that open one.                      *)
Transferring ==
    \/ \E c \in Conns : job[c].step = "transfer"
    \/ \E r \in Readers : Operation(r) /\ slot[r].kind = "begin"

(* Unless such a transfer is stuck for good, a connection whose socket     *)
(* closed is cleaned up, whatever its requests were doing and without any  *)
(* timeout: cancelling before waiting is what lets an operation in flight  *)
(* return.                                                                 *)
LeaverForgotten ==
    []<>~Transferring => \A c \in Conns : sock[c] = "closed" ~> conn[c] = "gone"

(* An end request that is next ends the session, whatever the switches     *)
(* say by then: "Ending is never refused by the gates, so a lease can      *)
(* always be let go" (tagops.go).                                          *)
EndHeeded ==
    \A c \in Conns, l \in Leases :
        (job[c] = Idle /\ queue[c] # <<>> /\ Head(queue[c]).kind = "end"
            /\ Head(queue[c]).lease = l) ~> ~Held(l)

(* Both ways a client lets a reader go come to their end: it leaves, or it *)
(* asks (server.go, the deferred cleanup; handleRawSessionEnd). *)
LetsGo == LeaverForgotten /\ EndHeeded

=============================================================================
