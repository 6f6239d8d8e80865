---------------------------- MODULE ClientProofs ----------------------------
(* What the client endpoint guarantees for every number of connections,    *)
(* readers, tags and sessions, and every queue of requests.                *)
EXTENDS ClientConn, SequenceTheorems, TLAPS

-----------------------------------------------------------------------------
(* Types.                                                                  *)

Places == {"away", "serving", "refusing", "leaving", "waiting", "removing", "releasing", "gone"}
Route == [reader : Readers, uid : Tags \cup {None}]

Plain == [step : {"reply", "forget", "exchange", "turn", "transfer", "resolve", "end"}, req : Asked]
Routed == [step : {"acquire", "awaiting"}, req : Asked, route : Route]
Opened == [step : {"record"}, req : Asked, lease : Leases]
Jobs == {Idle} \cup [step : {"reply"}] \cup Plain \cup Routed \cup Opened

LeaseSlots == [what : {"lease"}, lease : Leases, named : Tags \cup {None}, seen : Tags \cup {None}]
Slots == {Free} \cup Operations \cup LeaseSlots

ConnTypes ==
    /\ conn \in [Conns -> Places] /\ clients \subseteq Conns
    /\ queue \in [Conns -> Seq(Asked)]
    /\ job \in [Conns -> Jobs]
    /\ leases \in [Conns -> SUBSET Leases] /\ toEnd \in [Conns -> SUBSET Leases]
    /\ slot \in [Readers -> Slots]

(* Requests are served while the cleanup has not got past waiting for      *)
(* them, and until it has removed the client the client is there.          *)
Serving == {"serving", "refusing", "leaving", "waiting"}

ServeInv(c) ==
    /\ c \in clients <=> conn[c] \in Serving \cup {"removing"}
    /\ job[c].step # "idle" \/ queue[c] # <<>> => conn[c] \in Serving
    /\ job[c].step = "acquire" /\ job[c].req.uid # None => job[c].route.uid = job[c].req.uid

(* Nobody gives up waiting for a session to open, so that who gets the     *)
(* lease is there to record it; and a tag named is the tag held to.        *)
SlotInv(r) ==
    /\ Operation(r) /\ slot[r].kind = "begin" =>
          /\ job[slot[r].by].step = "awaiting" /\ job[slot[r].by].req.kind = "begin"
          /\ job[slot[r].by].route.reader = r
    /\ Operation(r) /\ slot[r].named # None => slot[r].uid = slot[r].named
    /\ slot[r].what # "free" /\ slot[r].seen # None => slot[r].named \in {None, slot[r].seen}

(* Who will end lease l.                                                   *)
Ends(c, l) ==
    \/ l \in leases[c] /\ c \in clients
    \/ l \in toEnd[c] /\ conn[c] = "releasing"
    \/ job[c].step = "record" /\ job[c].lease = l /\ c \in clients
    \/ job[c].step = "end" /\ job[c].req.lease = l

ConnInv ==
    /\ ConnTypes
    /\ \A c \in Conns : ServeInv(c)
    /\ \A r \in Readers : SlotInv(r)
    /\ \A l \in Leases : Held(l) => \E c \in Conns : Ends(c, l)

LEMMA JobForms ==
    ASSUME NEW j \in Jobs
    PROVE  /\ j.step = "idle" <=> j = Idle
           /\ j.step \in {"forget", "exchange", "turn", "transfer", "resolve", "end"} => j \in Plain
           /\ j.step \in {"acquire", "awaiting"} => j \in Routed
           /\ j.step = "record" => j \in Opened
BY DEF Jobs, Idle, Plain, Routed, Opened

LEMMA SlotForms ==
    ASSUME NEW s \in Slots
    PROVE  /\ s.what = "free" <=> s = Free
           /\ s.what = "operation" => s \in Operations
           /\ s.what = "lease" => s \in LeaseSlots
           /\ s.what \in {"free", "operation", "lease"}
BY DEF Slots, Free, Operations, LeaseSlots

LEMMA JobUpdate ==
    ASSUME job \in [Conns -> Jobs], NEW c \in Conns, NEW y \in Jobs, job' = [job EXCEPT ![c] = y]
    PROVE  /\ job' \in [Conns -> Jobs] /\ job'[c] = y
           /\ \A d \in Conns : d # c => job'[d] = job[d]
OBVIOUS

LEMMA SlotUpdate ==
    ASSUME slot \in [Readers -> Slots], NEW r \in Readers, NEW y \in Slots, slot' = [slot EXCEPT ![r] = y]
    PROVE  /\ slot' \in [Readers -> Slots] /\ slot'[r] = y
           /\ \A q \in Readers : q # r => slot'[q] = slot[q]
OBVIOUS

LEMMA ReplyIsAJob == [step |-> "reply"] \in Jobs /\ [step |-> "reply"].step = "reply"
BY DEF Jobs

(* A lease ended is held by no reader, and no other is touched.            *)
LEMMA ReleasedForms ==
    ASSUME slot \in [Readers -> Slots], NEW l, Released(l)
    PROVE  /\ slot' \in [Readers -> Slots]
           /\ \A r \in Readers : slot'[r] = slot[r] \/ slot'[r] = Free
           /\ \A m : Held(m)' => Held(m) /\ m # l
<1>1. \A r \in Readers : slot'[r] = IF slot[r].what = "lease" /\ slot[r].lease = l THEN Free ELSE slot[r]
  BY DEF Released
<1>2. Free \in Slots /\ Free.what = "free"
  BY DEF Slots, Free
<1>3. slot' \in [Readers -> Slots]
  BY <1>1, <1>2 DEF Released
<1>4. ASSUME NEW m, Held(m)' PROVE Held(m) /\ m # l
  BY <1>1, <1>2, <1>4 DEF Held
<1> QED BY <1>1, <1>3, <1>4

-----------------------------------------------------------------------------
(* A step of the connection alone: the clients keep their places or take   *)
(* the next, and requests and slots stay.                                  *)

LEMMA ConnStart == Init => ConnInv
<1> SUFFICES ASSUME Init PROVE ConnInv
  OBVIOUS
<1>1. Idle \in Jobs /\ Idle.step = "idle" /\ Free \in Slots /\ Free.what = "free"
  BY DEF Jobs, Idle, Slots, Free
<1>2. ConnTypes
  BY <1>1 DEF Init, ConnTypes, Places
<1>3. ASSUME NEW c \in Conns PROVE ServeInv(c)
  BY <1>1, <1>3 DEF Init, ServeInv, Serving
<1>4. ASSUME NEW r \in Readers PROVE SlotInv(r)
  BY <1>1, <1>4 DEF Init, SlotInv, Operation
<1>5. ASSUME NEW l \in Leases PROVE ~Held(l)
  BY <1>1 DEF Init, Held
<1> QED BY <1>2, <1>3, <1>4, <1>5 DEF ConnInv

LEMMA LoopStep ==
    ASSUME ConnInv, NEW c \in Conns,
           Connect(c) \/ Ask(c) \/ Peer(c) \/ Disconnect(c) \/ Loop(c)
    PROVE  ConnInv'
<1>a. /\ ConnTypes /\ \A d \in Conns : ServeInv(d)
      /\ \A r \in Readers : SlotInv(r)
      /\ \A l \in Leases : Held(l) => \E d \in Conns : Ends(d, l)
  BY DEF ConnInv
<1>b. conn \in [Conns -> Places] /\ queue \in [Conns -> Seq(Asked)]
  BY <1>a DEF ConnTypes
<1> USE DEF workVars, connVars, At
<1>1. CASE Peer(c) \/ Disconnect(c)
  <2>1. UNCHANGED <<conn, clients, workVars>>
    BY <1>1 DEF Peer, Disconnect
  <2> QED BY <1>a, <2>1 DEF ConnInv, ConnTypes, ServeInv, SlotInv, Operation, Held, Ends
<1>2. CASE Ask(c)
  <2>1. PICK req \in Requests, l \in Leases \cup {None} :
            Read(c, [kind |-> req.kind, uid |-> req.uid, device |-> req.device,
                     guess |-> req.guess, lease |-> l])
    BY <1>2 DEF Ask
  <2> DEFINE q == [kind |-> req.kind, uid |-> req.uid, device |-> req.device,
                   guess |-> req.guess, lease |-> l]
  <2>2. q \in Asked
    BY RequestsOK DEF Asked
  <2> HIDE DEF q
  <2>3. /\ conn[c] = "serving" /\ UNCHANGED <<clients, job, leases, toEnd, slot>>
        /\ \/ queue' = [queue EXCEPT ![c] = Append(queue[c], q)] /\ UNCHANGED conn
           \/ conn' = [conn EXCEPT ![c] = "refusing"] /\ UNCHANGED queue
    BY <2>1 DEF Read, q
  <2>4. /\ queue' \in [Conns -> Seq(Asked)] /\ \A d \in Conns : d # c => queue'[d] = queue[d]
        /\ conn' \in [Conns -> Places] /\ \A d \in Conns : d # c => conn'[d] = conn[d]
        /\ conn'[c] \in {"serving", "refusing"}
    <3>1. Append(queue[c], q) \in Seq(Asked)
      BY <1>b, <2>2, AppendProperties
    <3> QED BY <1>b, <2>3, <3>1 DEF Places
  <2>5. ASSUME NEW d \in Conns PROVE ServeInv(d)'
    BY <1>a, <2>3, <2>4 DEF ServeInv, Serving
  <2>6. ASSUME NEW l1 \in Leases, Held(l1)' PROVE \E d \in Conns : Ends(d, l1)'
    BY <1>a, <2>3, <2>4, <2>6 DEF Ends, Held
  <2>7. ASSUME NEW r \in Readers PROVE SlotInv(r)'
    BY <1>a, <2>3 DEF SlotInv, Operation
  <2>8. ConnTypes'
    BY <1>a, <2>3, <2>4 DEF ConnTypes
  <2> QED BY <2>5, <2>6, <2>7, <2>8 DEF ConnInv
<1>3. CASE EndLease(c)
  <2>1. PICK l \in toEnd[c] : Released(l) /\ toEnd' = [toEnd EXCEPT ![c] = @ \ {l}]
    BY <1>3 DEF EndLease
  <2>2. /\ conn[c] = "releasing" /\ UNCHANGED <<connVars, queue, job, leases, owner>>
        /\ slot \in [Readers -> Slots]
    BY <1>3, <1>a DEF EndLease, ConnTypes
  <2>3. /\ slot' \in [Readers -> Slots]
        /\ \A r \in Readers : slot'[r] = slot[r] \/ slot'[r] = Free
        /\ \A m : Held(m)' => Held(m) /\ m # l
    BY <2>1, <2>2, ReleasedForms
  <2>4. ConnTypes'
    BY <1>a, <2>1, <2>2, <2>3 DEF ConnTypes
  <2>5. ASSUME NEW d \in Conns PROVE ServeInv(d)'
    BY <1>a, <2>2 DEF ServeInv
  <2>6. ASSUME NEW r \in Readers PROVE SlotInv(r)'
    BY <1>a, <2>2, <2>3 DEF SlotInv, Operation, Free
  <2>7. ASSUME NEW m \in Leases, Held(m)' PROVE \E d \in Conns : Ends(d, m)'
    <3>1. PICK d \in Conns : Ends(d, m)
      BY <1>a, <2>3, <2>7
    <3>2. m \in toEnd[d] => m \in toEnd'[d]
      BY <1>a, <2>1, <2>3, <2>7 DEF ConnTypes
    <3> QED BY <2>2, <3>1, <3>2 DEF Ends
  <2> QED BY <2>4, <2>5, <2>6, <2>7 DEF ConnInv
<1>4. CASE Remove(c)
  <2>1. /\ conn[c] = "removing" /\ conn' = [conn EXCEPT ![c] = "releasing"]
        /\ clients' = clients \ {c} /\ UNCHANGED <<queue, job, slot>>
        /\ toEnd' = [toEnd EXCEPT ![c] = leases[c]] /\ leases' = [leases EXCEPT ![c] = {}]
    BY <1>4 DEF Remove
  <2>2. ConnTypes'
    BY <1>a, <2>1 DEF ConnTypes, Places
  <2>3. ASSUME NEW d \in Conns PROVE ServeInv(d)'
    BY <1>a, <1>b, <2>1 DEF ServeInv, Serving
  <2>4. ASSUME NEW r \in Readers PROVE SlotInv(r)'
    BY <1>a, <2>1 DEF SlotInv, Operation
  <2>5. ASSUME NEW m \in Leases, Held(m)' PROVE \E d \in Conns : Ends(d, m)'
    <3>1. PICK d \in Conns : Ends(d, m)
      BY <1>a, <2>1, <2>5 DEF Held
    <3>2. CASE d # c
      <4>1. Ends(d, m)'
        BY <1>a, <2>1, <3>1, <3>2 DEF Ends, ConnTypes
      <4> QED BY <4>1
    <3>3. CASE d = c
      <4>1. job[c].step = "idle"
        BY <1>a, <2>1 DEF ServeInv, Serving
      <4>2. m \in leases[c]
        BY <2>1, <3>1, <3>3, <4>1 DEF Ends
      <4>3. m \in toEnd'[c] /\ conn'[c] = "releasing"
        BY <1>a, <1>b, <2>1, <4>2 DEF ConnTypes
      <4> QED BY <4>3 DEF Ends
    <3> QED BY <3>2, <3>3
  <2> QED BY <2>2, <2>3, <2>4, <2>5 DEF ConnInv
<1>5. CASE Connect(c) \/ Refuse(c) \/ ReadFails(c) \/ CancelAndClose(c) \/ Drained(c) \/ CleanedUp(c)
  <2>1. /\ UNCHANGED workVars /\ clients \subseteq clients' /\ clients' \subseteq clients \cup {c}
        /\ conn' \in [Conns -> Places] /\ \A d \in Conns : d # c => conn'[d] = conn[d]
        /\ conn[c] = "releasing" => toEnd[c] = {}
    BY <1>5, <1>b DEF Connect, Refuse, ReadFails, CancelAndClose, Drained, CleanedUp, Places
  <2>2. ConnTypes'
    BY <1>a, <2>1 DEF ConnTypes
  <2>3. ASSUME NEW d \in Conns PROVE ServeInv(d)'
    <3>1. CASE d # c
      BY <1>a, <2>1, <3>1 DEF ServeInv
    <3>2. CASE d = c
      <4>1. CASE Connect(c)
        BY <1>a, <1>b, <3>2, <4>1 DEF Connect, ServeInv, Serving
      <4>2. CASE Drained(c)
        BY <1>a, <1>b, <3>2, <4>2 DEF Drained, ServeInv, Serving, Idle
      <4>3. CASE Refuse(c) \/ ReadFails(c) \/ CancelAndClose(c) \/ CleanedUp(c)
        BY <1>a, <1>b, <3>2, <4>3 DEF Refuse, ReadFails, CancelAndClose, CleanedUp, ServeInv, Serving
      <4> QED BY <1>5, <4>1, <4>2, <4>3
    <3> QED BY <3>1, <3>2
  <2>4. ASSUME NEW r \in Readers PROVE SlotInv(r)'
    BY <1>a, <2>1 DEF SlotInv, Operation
  <2>5. ASSUME NEW m \in Leases, Held(m)' PROVE \E d \in Conns : Ends(d, m)'
    <3>1. PICK d \in Conns : Ends(d, m)
      BY <1>a, <2>1, <2>5 DEF Held
    <3>2. Ends(d, m)'
      BY <2>1, <3>1 DEF Ends
    <3> QED BY <3>2
  <2> QED BY <2>2, <2>3, <2>4, <2>5 DEF ConnInv
<1> QED BY <1>1, <1>2, <1>3, <1>4, <1>5 DEF Loop

-----------------------------------------------------------------------------
(* A step of the dispatching goroutine.                                    *)

LEMMA JobMove ==
    ASSUME ConnInv, NEW c \in Conns, NEW y \in Jobs,
           job' = [job EXCEPT ![c] = y],
           UNCHANGED <<conn, clients, leases, toEnd, slot>>,
           queue' \in [Conns -> Seq(Asked)], \A d \in Conns : d # c => queue'[d] = queue[d],
           conn[c] \in Serving, job[c].step \notin {"record", "end"},
           ~(job[c].step = "awaiting" /\ job[c].req.kind = "begin"),
           y.step = "acquire" /\ y.req.uid # None => y.route.uid = y.req.uid
    PROVE  ConnInv'
<1>a. /\ ConnTypes /\ \A d \in Conns : ServeInv(d)
      /\ \A r \in Readers : SlotInv(r)
      /\ \A l \in Leases : Held(l) => \E d \in Conns : Ends(d, l)
  BY DEF ConnInv
<1>1. /\ job' \in [Conns -> Jobs] /\ job'[c] = y
      /\ \A d \in Conns : d # c => job'[d] = job[d]
  BY <1>a, JobUpdate DEF ConnTypes
<1>2. ConnTypes'
  BY <1>a, <1>1 DEF ConnTypes
<1>3. ASSUME NEW d \in Conns PROVE ServeInv(d)'
  BY <1>a, <1>1 DEF ServeInv
<1>4. ASSUME NEW r \in Readers PROVE SlotInv(r)'
  <2>1. SlotInv(r) /\ slot'[r] = slot[r]
    BY <1>a
  <2>2. Operation(r) /\ slot[r].kind = "begin" => job'[slot[r].by] = job[slot[r].by]
    <3> SUFFICES ASSUME Operation(r), slot[r].kind = "begin" PROVE job'[slot[r].by] = job[slot[r].by]
      OBVIOUS
    <3>1. slot[r].by \in Conns
      BY <1>a, SlotForms DEF ConnTypes, Operation, Operations
    <3>2. slot[r].by # c
      BY <2>1 DEF SlotInv
    <3> QED BY <1>1, <3>1, <3>2
  <2> QED BY <2>1, <2>2 DEF SlotInv, Operation
<1>5. ASSUME NEW m \in Leases, Held(m)' PROVE \E d \in Conns : Ends(d, m)'
  <2>1. PICK d \in Conns : Ends(d, m)
    BY <1>a, <1>5 DEF Held
  <2>2. Ends(d, m)'
    BY <1>1, <2>1 DEF Ends
  <2> QED BY <2>2
<1> QED BY <1>2, <1>3, <1>4, <1>5 DEF ConnInv

(* A route of a request that names a tag holds the reader to that tag.     *)
LEMMA RouteForms ==
    ASSUME NEW q \in Asked, NEW scan \in Scans, NEW rt \in Routes(q, scan)
    PROVE  rt \in Route /\ (q.uid # None => rt.uid = q.uid)
<1>1. /\ q.uid \in Tags \cup {None} /\ q.device \in Readers \cup {None}
      /\ \A r \in Readers : Named(scan[r]) \in Tags \cup {None}
  BY DEF Asked, Scans, Named
<1>2. CASE q.device # None
  <2>1. PICK r \in {r \in {q.device} : scan[r] # None /\ (q.uid = None \/ scan[r] \in {Unnamed, q.uid})} :
            rt = [reader |-> r, uid |-> IF q.uid # None THEN q.uid ELSE Named(scan[r])]
    BY <1>2 DEF Routes
  <2> QED BY <1>1, <1>2, <2>1 DEF Route
<1>3. CASE q.device = None /\ q.uid # None
  <2>1. PICK r \in {r \in Readers : scan[r] = q.uid} : rt = [reader |-> r, uid |-> q.uid]
    BY <1>3 DEF Routes
  <2> QED BY <1>1, <2>1 DEF Route
<1>4. CASE q.device = None /\ q.uid = None
  <2>1. PICK r \in GuessedReaders(scan) : rt = [reader |-> r, uid |-> Named(scan[r])]
    BY <1>4 DEF Routes
  <2>2. r \in Readers
    BY <2>1 DEF GuessedReaders
  <2> QED BY <1>1, <1>4, <2>1, <2>2 DEF Route
<1> QED BY <1>2, <1>3, <1>4

LEMMA ServeStep ==
    ASSUME ConnInv, NEW c \in Conns, Serve(c) \/ TimesOut(c) \/ TransferEnds(c)
    PROVE  ConnInv'
<1>a. /\ ConnTypes /\ \A d \in Conns : ServeInv(d)
      /\ \A r \in Readers : SlotInv(r)
      /\ \A l \in Leases : Held(l) => \E d \in Conns : Ends(d, l)
  BY DEF ConnInv
<1>b. /\ job \in [Conns -> Jobs] /\ job[c] \in Jobs /\ queue \in [Conns -> Seq(Asked)]
      /\ slot \in [Readers -> Slots] /\ leases \in [Conns -> SUBSET Leases]
  BY <1>a DEF ConnTypes
<1>c. job[c].step # "idle" => conn[c] \in Serving /\ c \in clients
  BY <1>a DEF ServeInv
<1> USE DEF connVars
<1>1. CASE Dispatch(c)
  <2>1. PICK writable \in BOOLEAN, channel \in BOOLEAN :
            job' = [job EXCEPT ![c] = [step |-> FirstStep(Head(queue[c]), writable, channel),
                                       req |-> Head(queue[c])]]
    BY <1>1 DEF Dispatch
  <2> DEFINE y == [step |-> FirstStep(Head(queue[c]), writable, channel), req |-> Head(queue[c])]
  <2>2. queue[c] \in Seq(Asked) /\ queue[c] # << >>
    BY <1>1, <1>b DEF Dispatch
  <2>3. Head(queue[c]) \in Asked /\ Tail(queue[c]) \in Seq(Asked)
    BY <2>2, HeadTailProperties
  <2>4. y \in Plain /\ y.step \in {"reply", "forget", "exchange", "resolve"}
    BY <2>3 DEF FirstStep, Plain
  <2>5. y \in Jobs /\ job' = [job EXCEPT ![c] = y] /\ y.step # "acquire"
    BY <2>1, <2>4 DEF Jobs
  <2> HIDE DEF y
  <2>6. conn[c] \in Serving /\ job[c].step = "idle"
    BY <1>1, <1>a, <2>2 DEF Dispatch, ServeInv, Idle
  <2>7. queue' \in [Conns -> Seq(Asked)] /\ \A d \in Conns : d # c => queue'[d] = queue[d]
    BY <1>1, <1>b, <2>3 DEF Dispatch
  <2>8. UNCHANGED <<conn, clients, leases, toEnd, slot>>
    BY <1>1 DEF Dispatch
  <2> QED BY <2>5, <2>6, <2>7, <2>8, JobMove
<1>2. CASE Resolve(c)
  <2>1. /\ job[c].step = "resolve" /\ UNCHANGED <<conn, clients, leases, toEnd, slot, queue>>
        /\ job[c] \in Plain /\ job[c].req \in Asked
    BY <1>2, <1>b, JobForms DEF Resolve, Plain
  <2>2. CASE Answer(c)
    BY <1>b, <1>c, <2>1, <2>2, ReplyIsAJob, JobMove DEF Answer
  <2>3. ASSUME NEW scan \in Scans, NEW rt \in Routes(job[c].req, scan),
               job' = [job EXCEPT ![c] = [step |-> "acquire", req |-> @.req, route |-> rt]]
        PROVE  ConnInv'
    <3> DEFINE y == [step |-> "acquire", req |-> job[c].req, route |-> rt]
    <3>1. rt \in Route /\ (job[c].req.uid # None => rt.uid = job[c].req.uid)
      BY <2>1, <2>3, RouteForms
    <3>2. y \in Jobs /\ job' = [job EXCEPT ![c] = y] /\ (y.req.uid # None => y.route.uid = y.req.uid)
      BY <2>1, <2>3, <3>1 DEF Jobs, Routed
    <3> HIDE DEF y
    <3> QED BY <1>b, <1>c, <2>1, <3>2, JobMove
  <2> QED BY <1>2, <2>2, <2>3 DEF Resolve
<1>3. CASE Cancelled(c) \/ TimesOut(c)
  <2>1. /\ UNCHANGED <<conn, clients, leases, toEnd, slot, queue>> /\ Answer(c)
        /\ job[c].step \in {"acquire", "awaiting"}
        /\ ~(job[c].step = "awaiting" /\ job[c].req.kind = "begin")
    BY <1>3 DEF Cancelled, TimesOut, GiveUp, Abandonable
  <2> QED BY <1>b, <1>c, <2>1, ReplyIsAJob, JobMove DEF Answer
<1>4. CASE Reply(c)
  <2>1. Idle \in Jobs /\ Idle.step = "idle"
    BY DEF Jobs, Idle
  <2>2. /\ UNCHANGED <<conn, clients, leases, toEnd, slot, queue>> /\ job[c].step = "reply"
        /\ job' = [job EXCEPT ![c] = Idle]
    BY <1>4 DEF Reply
  <2> QED BY <1>b, <1>c, <2>1, <2>2, JobMove
<1>5. CASE Acquire(c)
  <2> DEFINE req == job[c].req
             rt == job[c].route
             y == [job[c] EXCEPT !.step = "awaiting"]
             s == [what |-> "operation", by |-> c, kind |-> req.kind,
                   named |-> req.uid, uid |-> rt.uid, seen |-> None]
  <2>1. /\ job[c].step = "acquire" /\ slot[rt.reader] = Free
        /\ slot' = [slot EXCEPT ![rt.reader] = s] /\ job' = [job EXCEPT ![c] = y]
        /\ UNCHANGED <<conn, clients, queue, leases, toEnd>>
    <3>1. job' = [job EXCEPT ![c].step = "awaiting"]
      BY <1>5 DEF Acquire, Step
    <3> QED BY <1>5, <3>1 DEF Acquire
  <2>2. job[c] \in Routed /\ req \in Asked /\ rt \in Route /\ (req.uid # None => rt.uid = req.uid)
    BY <1>a, <1>b, <2>1, JobForms DEF Routed, ServeInv
  <2>3. y \in Routed /\ y.step = "awaiting" /\ y.req = req /\ y.route = rt /\ y \in Jobs
    BY <2>2 DEF Routed, Jobs
  <2>4. s \in Slots /\ s.what = "operation" /\ s.by = c /\ s.kind = req.kind /\ s.named = req.uid
        /\ s.uid = rt.uid /\ s.seen = None /\ rt.reader \in Readers
    BY <2>2 DEF Slots, Operations, Asked, Route
  <2> HIDE DEF y, s
  <2>5. /\ job' \in [Conns -> Jobs] /\ job'[c] = y /\ \A d \in Conns : d # c => job'[d] = job[d]
    BY <1>b, <2>1, <2>3, JobUpdate
  <2>6. /\ slot' \in [Readers -> Slots] /\ slot'[rt.reader] = s
        /\ \A q \in Readers : q # rt.reader => slot'[q] = slot[q]
    BY <1>b, <2>1, <2>4, SlotUpdate
  <2> HIDE DEF req, rt
  <2>7. ConnTypes'
    BY <1>a, <2>1, <2>5, <2>6 DEF ConnTypes
  <2>8. ASSUME NEW d \in Conns PROVE ServeInv(d)'
    BY <1>a, <1>c, <2>1, <2>3, <2>5 DEF ServeInv
  <2>9. ASSUME NEW r \in Readers PROVE SlotInv(r)'
    <3>1. CASE r = rt.reader
      BY <2>2, <2>3, <2>4, <2>5, <2>6, <3>1 DEF SlotInv, Operation
    <3>2. CASE r # rt.reader
      <4>1. SlotInv(r) /\ slot'[r] = slot[r]
        BY <1>a, <2>6, <3>2
      <4>2. Operation(r) /\ slot[r].kind = "begin" => slot[r].by \in Conns /\ slot[r].by # c
        BY <1>b, <2>1, <4>1, SlotForms DEF Operation, Operations, SlotInv
      <4> QED BY <2>5, <4>1, <4>2 DEF SlotInv, Operation
    <3> QED BY <3>1, <3>2
  <2>10. ASSUME NEW m \in Leases, Held(m)' PROVE \E d \in Conns : Ends(d, m)'
    <3>1. Held(m)
      BY <2>4, <2>6, <2>10 DEF Held
    <3>2. PICK d \in Conns : Ends(d, m)
      BY <1>a, <3>1
    <3>3. Ends(d, m)'
      BY <2>1, <2>3, <2>5, <3>2 DEF Ends
    <3> QED BY <3>3
  <2> QED BY <2>7, <2>8, <2>9, <2>10 DEF ConnInv
<1>6. CASE Record(c)
  <2> DEFINE y == [step |-> "reply"]
  <2>1. /\ job[c].step = "record" /\ UNCHANGED <<conn, clients, toEnd, slot, queue>>
        /\ job' = [job EXCEPT ![c] = y] /\ y \in Jobs /\ y.step = "reply"
        /\ leases' = [leases EXCEPT ![c] = leases[c] \cup {job[c].lease}]
        /\ job[c].lease \in Leases
    BY <1>6, <1>b, <1>c, ReplyIsAJob, JobForms DEF Record, Answer, Opened
  <2> HIDE DEF y
  <2>2. /\ job' \in [Conns -> Jobs] /\ job'[c] = y /\ \A d \in Conns : d # c => job'[d] = job[d]
    BY <1>b, <2>1, JobUpdate
  <2>3. leases' \in [Conns -> SUBSET Leases] /\ leases'[c] = leases[c] \cup {job[c].lease}
        /\ \A d \in Conns : d # c => leases'[d] = leases[d]
    BY <1>b, <2>1
  <2>4. ConnTypes'
    BY <1>a, <2>1, <2>2, <2>3 DEF ConnTypes
  <2>5. ASSUME NEW d \in Conns PROVE ServeInv(d)'
    BY <1>a, <1>c, <2>1, <2>2 DEF ServeInv
  <2>6. ASSUME NEW r \in Readers PROVE SlotInv(r)'
    <3>1. SlotInv(r) /\ slot'[r] = slot[r]
      BY <1>a, <2>1
    <3>2. Operation(r) /\ slot[r].kind = "begin" => slot[r].by \in Conns /\ slot[r].by # c
      BY <1>b, <2>1, <3>1, SlotForms DEF Operation, Operations, SlotInv
    <3> QED BY <2>2, <3>1, <3>2 DEF SlotInv, Operation
  <2>7. ASSUME NEW m \in Leases, Held(m)' PROVE \E d \in Conns : Ends(d, m)'
    <3>1. PICK d \in Conns : Ends(d, m)
      BY <1>a, <2>1, <2>7 DEF Held
    <3>2. Ends(d, m)'
      BY <1>c, <2>1, <2>2, <2>3, <3>1 DEF Ends
    <3> QED BY <3>2
  <2> QED BY <2>4, <2>5, <2>6, <2>7 DEF ConnInv
<1>7. CASE Forget(c)
  <2> DEFINE y == [job[c] EXCEPT !.step = "end"]
  <2>1. job[c].step = "forget" /\ job[c] \in Plain /\ UNCHANGED <<conn, clients, toEnd, slot, queue>>
    BY <1>7, <1>b, JobForms DEF Forget
  <2>2. job' = [job EXCEPT ![c] = y]
    BY <1>7 DEF Forget, Step
  <2>3. y \in Jobs /\ y.step = "end" /\ y.req = job[c].req
    BY <2>1 DEF Plain, Jobs
  <2> HIDE DEF y
  <2>4. /\ job' \in [Conns -> Jobs] /\ job'[c] = y /\ \A d \in Conns : d # c => job'[d] = job[d]
    BY <1>b, <2>2, <2>3, JobUpdate
  <2>5. leases' \in [Conns -> SUBSET Leases] /\ leases'[c] = leases[c] \ {job[c].req.lease}
        /\ \A d \in Conns : d # c => leases'[d] = leases[d]
    BY <1>7, <1>b DEF Forget
  <2>6. ConnTypes'
    BY <1>a, <2>1, <2>4, <2>5 DEF ConnTypes
  <2>7. ASSUME NEW d \in Conns PROVE ServeInv(d)'
    BY <1>a, <1>c, <2>1, <2>3, <2>4 DEF ServeInv
  <2>8. ASSUME NEW r \in Readers PROVE SlotInv(r)'
    <3>1. SlotInv(r) /\ slot'[r] = slot[r]
      BY <1>a, <2>1
    <3>2. Operation(r) /\ slot[r].kind = "begin" => slot[r].by \in Conns /\ slot[r].by # c
      BY <1>b, <2>1, <3>1, SlotForms DEF Operation, Operations, SlotInv
    <3> QED BY <2>4, <3>1, <3>2 DEF SlotInv, Operation
  <2>9. ASSUME NEW m \in Leases, Held(m)' PROVE \E d \in Conns : Ends(d, m)'
    <3>1. PICK d \in Conns : Ends(d, m)
      BY <1>a, <2>1, <2>9 DEF Held
    <3>2. CASE d = c /\ m = job[c].req.lease
      <4>1. Ends(c, m)'
        BY <2>3, <2>4, <3>2 DEF Ends
      <4> QED BY <4>1
    <3>3. CASE ~(d = c /\ m = job[c].req.lease)
      <4>1. Ends(d, m)'
        BY <2>1, <2>4, <2>5, <3>1, <3>3 DEF Ends
      <4> QED BY <4>1
    <3> QED BY <3>2, <3>3
  <2> QED BY <2>6, <2>7, <2>8, <2>9 DEF ConnInv
<1>8. CASE End(c) \/ TransferEnds(c)
  <2> DEFINE y == [step |-> "reply"]
             l == job[c].req.lease
  <2>1. /\ UNCHANGED <<conn, clients, toEnd, leases, queue>>
        /\ job' = [job EXCEPT ![c] = y] /\ y \in Jobs /\ y.step = "reply"
        /\ \/ job[c].step \in {"end", "transfer"} /\ Released(l)
           \/ job[c].step = "transfer" /\ slot' = slot
    BY <1>8, ReplyIsAJob DEF End, TransferEnds, Answer
  <2> HIDE DEF y, l
  <2>2. /\ job' \in [Conns -> Jobs] /\ job'[c] = y /\ \A d \in Conns : d # c => job'[d] = job[d]
    BY <1>b, <2>1, JobUpdate
  <2>3. /\ slot' \in [Readers -> Slots]
        /\ \A r \in Readers : slot'[r] = slot[r] \/ slot'[r] = Free
        /\ \A m : Held(m)' => Held(m) /\ (job[c].step = "end" => m # l)
    <3>1. CASE Released(l)
      BY <1>b, <3>1, ReleasedForms
    <3>2. CASE job[c].step = "transfer" /\ slot' = slot
      BY <1>b, <3>2 DEF Held
    <3> QED BY <2>1, <3>1, <3>2
  <2>4. ConnTypes'
    BY <1>a, <2>1, <2>2, <2>3 DEF ConnTypes
  <2>5. ASSUME NEW d \in Conns PROVE ServeInv(d)'
    BY <1>a, <1>c, <2>1, <2>2 DEF ServeInv
  <2>6. ASSUME NEW r \in Readers PROVE SlotInv(r)'
    <3>1. CASE slot'[r] = Free
      BY <3>1 DEF SlotInv, Operation, Free
    <3>2. CASE slot'[r] = slot[r]
      <4>1. SlotInv(r)
        BY <1>a
      <4>2. Operation(r) /\ slot[r].kind = "begin" => slot[r].by \in Conns /\ slot[r].by # c
        BY <1>b, <2>1, <4>1, SlotForms DEF Operation, Operations, SlotInv
      <4> QED BY <2>2, <3>2, <4>1, <4>2 DEF SlotInv, Operation
    <3> QED BY <2>3, <3>1, <3>2
  <2>7. ASSUME NEW m \in Leases, Held(m)' PROVE \E d \in Conns : Ends(d, m)'
    <3>1. PICK d \in Conns : Ends(d, m)
      BY <1>a, <2>3, <2>7
    <3>2. Ends(d, m)'
      BY <2>1, <2>2, <2>3, <2>7, <3>1 DEF Ends, l
    <3> QED BY <3>2
  <2> QED BY <2>4, <2>5, <2>6, <2>7 DEF ConnInv
<1>9. CASE Exchange(c) \/ Turn(c)
  <2>1. /\ UNCHANGED <<conn, clients, leases, toEnd, slot, queue>>
        /\ job[c].step \in {"exchange", "turn"}
    BY <1>9 DEF Exchange, Turn
  <2>2. CASE Answer(c)
    BY <1>b, <1>c, <2>1, <2>2, ReplyIsAJob, JobMove DEF Answer
  <2>3. ASSUME NEW next \in {"turn", "transfer"}, Step(c, next) PROVE ConnInv'
    <3> DEFINE y == [job[c] EXCEPT !.step = next]
    <3>1. job[c] \in Plain
      BY <1>b, <2>1, JobForms
    <3>2. y \in Jobs /\ y.step = next
      BY <3>1 DEF Plain, Jobs
    <3>3. job' = [job EXCEPT ![c] = y]
      BY <2>3 DEF Step
    <3> HIDE DEF y
    <3> QED BY <1>b, <1>c, <2>1, <3>2, <3>3, JobMove
  <2> QED BY <1>9, <2>2, <2>3 DEF Exchange, Turn
<1> QED BY <1>1, <1>2, <1>3, <1>4, <1>5, <1>6, <1>7, <1>8, <1>9 DEF Serve

-----------------------------------------------------------------------------
(* A step of an operation in a reader's slot, or of a lease's clock.       *)

LEMMA OperateStep ==
    ASSUME ConnInv, NEW r \in Readers, Operate(r)
    PROVE  ConnInv'
<1>a. /\ ConnTypes /\ \A d \in Conns : ServeInv(d)
      /\ \A q \in Readers : SlotInv(q)
      /\ \A l \in Leases : Held(l) => \E d \in Conns : Ends(d, l)
  BY DEF ConnInv
<1>b. /\ job \in [Conns -> Jobs] /\ slot \in [Readers -> Slots]
      /\ slot[r].what = "operation" /\ slot[r] \in Operations /\ slot[r].by \in Conns
  BY <1>a, SlotForms DEF ConnTypes, Operate, Touch, Finish, Begin, Operation, Operations
<1> USE DEF connVars
<1>1. CASE Touch(r)
  <2>1. PICK t \in Tags : slot[r].uid \in {None, t} /\ slot' = [slot EXCEPT ![r].seen = t]
    BY <1>1 DEF Touch
  <2> DEFINE s == [slot[r] EXCEPT !.seen = t]
  <2>2. /\ s \in Slots /\ s.what = "operation" /\ s.by = slot[r].by /\ s.kind = slot[r].kind
        /\ s.named = slot[r].named /\ s.uid = slot[r].uid /\ s.seen = t
    BY <1>b DEF Slots, Operations
  <2>3. slot' = [slot EXCEPT ![r] = s]
    BY <2>1
  <2> HIDE DEF s
  <2>4. /\ slot' \in [Readers -> Slots] /\ slot'[r] = s
        /\ \A q \in Readers : q # r => slot'[q] = slot[q]
    BY <1>b, <2>2, <2>3, SlotUpdate
  <2>5. UNCHANGED <<conn, clients, queue, job, leases, toEnd>>
    BY <1>1 DEF Touch
  <2>6. ConnTypes' /\ \A d \in Conns : ServeInv(d)'
    BY <1>a, <2>4, <2>5 DEF ConnTypes, ServeInv
  <2>7. ASSUME NEW q \in Readers PROVE SlotInv(q)'
    <3>1. CASE q = r
      BY <1>a, <1>b, <2>1, <2>2, <2>4, <2>5, <3>1 DEF SlotInv, Operation
    <3>2. CASE q # r
      BY <1>a, <2>4, <2>5, <3>2 DEF SlotInv, Operation
    <3> QED BY <3>1, <3>2
  <2>8. ASSUME NEW m \in Leases, Held(m)' PROVE \E d \in Conns : Ends(d, m)'
    <3>1. Held(m)
      BY <2>2, <2>4, <2>8 DEF Held
    <3> QED BY <1>a, <2>5, <3>1 DEF Ends
  <2> QED BY <2>6, <2>7, <2>8 DEF ConnInv
<1>2. CASE Finish(r)
  <2> DEFINE c == slot[r].by
             y == [step |-> "reply"]
  <2>1. /\ slot' = [slot EXCEPT ![r] = Free] /\ UNCHANGED <<conn, clients, queue, leases, toEnd>>
        /\ \/ job[c].step = "awaiting" /\ job[c].route.reader = r /\ job' = [job EXCEPT ![c] = y]
           \/ ~(job[c].step = "awaiting" /\ job[c].route.reader = r) /\ job' = job
    BY <1>2 DEF Finish, Awaited, Answer
  <2>2. Free \in Slots /\ Free.what = "free" /\ c \in Conns
    BY <1>b DEF Slots, Free
  <2>3. /\ slot' \in [Readers -> Slots] /\ slot'[r] = Free
        /\ \A q \in Readers : q # r => slot'[q] = slot[q]
    BY <1>b, <2>1, <2>2, SlotUpdate
  <2>4. /\ job' \in [Conns -> Jobs] /\ \A d \in Conns : d # c => job'[d] = job[d]
        /\ \/ job'[c] = job[c]
           \/ job[c].step = "awaiting" /\ job[c].route.reader = r /\ job'[c] = y
    BY <1>b, <2>1, <2>2, ReplyIsAJob, JobUpdate
  <2>5. y.step = "reply"
    OBVIOUS
  <2> HIDE DEF c, y
  <2>6. ConnTypes'
    BY <1>a, <2>1, <2>3, <2>4 DEF ConnTypes
  <2>7. ASSUME NEW d \in Conns PROVE ServeInv(d)'
    BY <1>a, <2>1, <2>4, <2>5 DEF ServeInv
  <2>8. ASSUME NEW q \in Readers PROVE SlotInv(q)'
    <3>1. CASE q = r
      BY <2>2, <2>3, <3>1 DEF SlotInv, Operation
    <3>2. CASE q # r
      <4>1. SlotInv(q) /\ slot'[q] = slot[q]
        BY <1>a, <2>3, <3>2
      <4>2. Operation(q) /\ slot[q].kind = "begin" => slot[q].by \in Conns /\ job'[slot[q].by] = job[slot[q].by]
        BY <1>b, <2>4, <3>2, <4>1, SlotForms DEF Operation, Operations, SlotInv
      <4> QED BY <4>1, <4>2 DEF SlotInv, Operation
    <3> QED BY <3>1, <3>2
  <2>9. ASSUME NEW m \in Leases, Held(m)' PROVE \E d \in Conns : Ends(d, m)'
    <3>1. Held(m)
      BY <2>2, <2>3, <2>9 DEF Held
    <3>2. PICK d \in Conns : Ends(d, m)
      BY <1>a, <3>1
    <3>3. Ends(d, m)'
      BY <2>1, <2>4, <2>5, <3>2 DEF Ends
    <3> QED BY <3>3
  <2> QED BY <2>6, <2>7, <2>8, <2>9 DEF ConnInv
<1>3. ASSUME NEW l \in Leases, Begin(r, l) PROVE ConnInv'
  <2> DEFINE c == slot[r].by
             s == [what |-> "lease", lease |-> l, named |-> slot[r].named, seen |-> slot[r].seen]
             y == [step |-> "record", req |-> job[c].req, lease |-> l]
  <2>1. /\ slot' = [slot EXCEPT ![r] = s] /\ job' = [job EXCEPT ![c] = y]
        /\ UNCHANGED <<conn, clients, queue, leases, toEnd>> /\ slot[r].kind = "begin"
        /\ c \in Conns
    BY <1>3, <1>b DEF Begin
  <2>2. s \in Slots /\ s.what = "lease" /\ s.lease = l /\ s.named = slot[r].named /\ s.seen = slot[r].seen
    BY <1>b DEF Slots, Operations, LeaseSlots
  <2>3. job[c].step = "awaiting" /\ job[c].route.reader = r /\ job[c] \in Routed
    BY <1>a, <1>b, <2>1, JobForms DEF SlotInv, Operation
  <2>4. y \in Jobs /\ y.step = "record" /\ y.lease = l
    BY <2>3 DEF Routed, Jobs, Opened
  <2> HIDE DEF s, y
  <2>5. /\ slot' \in [Readers -> Slots] /\ slot'[r] = s
        /\ \A q \in Readers : q # r => slot'[q] = slot[q]
    BY <1>b, <2>1, <2>2, SlotUpdate
  <2>6. /\ job' \in [Conns -> Jobs] /\ job'[c] = y /\ \A d \in Conns : d # c => job'[d] = job[d]
    BY <1>b, <2>1, <2>4, JobUpdate
  <2> HIDE DEF c
  <2>7. c \in clients
    BY <1>a, <2>1, <2>3 DEF ServeInv
  <2>8. ConnTypes'
    BY <1>a, <2>1, <2>5, <2>6 DEF ConnTypes
  <2>9. ASSUME NEW d \in Conns PROVE ServeInv(d)'
    BY <1>a, <2>1, <2>3, <2>4, <2>6 DEF ServeInv
  <2>10. ASSUME NEW q \in Readers PROVE SlotInv(q)'
    <3>1. CASE q = r
      BY <1>a, <1>b, <2>2, <2>5, <3>1 DEF SlotInv, Operation
    <3>2. CASE q # r
      <4>1. SlotInv(q) /\ slot'[q] = slot[q]
        BY <1>a, <2>5, <3>2
      <4>2. Operation(q) /\ slot[q].kind = "begin" => slot[q].by \in Conns /\ job'[slot[q].by] = job[slot[q].by]
        BY <1>b, <2>3, <2>6, <3>2, <4>1, SlotForms DEF Operation, Operations, SlotInv
      <4> QED BY <4>1, <4>2 DEF SlotInv, Operation
    <3> QED BY <3>1, <3>2
  <2>11. ASSUME NEW m \in Leases, Held(m)' PROVE \E d \in Conns : Ends(d, m)'
    <3>1. CASE m = l
      <4>1. PICK d \in Conns : d = c
        BY <2>1
      <4>2. Ends(d, m)'
        BY <2>1, <2>4, <2>6, <2>7, <3>1, <4>1 DEF Ends
      <4> QED BY <4>2
    <3>2. CASE m # l
      <4>1. Held(m)
        BY <2>2, <2>5, <2>11, <3>2 DEF Held
      <4>2. PICK d \in Conns : Ends(d, m)
        BY <1>a, <4>1
      <4>3. Ends(d, m)'
        BY <2>1, <2>3, <2>6, <4>2 DEF Ends
      <4> QED BY <4>3
    <3> QED BY <3>1, <3>2
  <2> QED BY <2>8, <2>9, <2>10, <2>11 DEF ConnInv
<1> QED BY <1>1, <1>2, <1>3 DEF Operate

LEMMA ExpireStep ==
    ASSUME ConnInv, NEW l \in Leases, Expire(l) \/ UNCHANGED vars
    PROVE  ConnInv'
<1>a. /\ ConnTypes /\ \A d \in Conns : ServeInv(d)
      /\ \A r \in Readers : SlotInv(r)
      /\ \A m \in Leases : Held(m) => \E d \in Conns : Ends(d, m)
  BY DEF ConnInv
<1> USE DEF connVars, workVars
<1>1. /\ UNCHANGED <<conn, clients, queue, job, leases, toEnd>>
      /\ slot' \in [Readers -> Slots]
      /\ \A r \in Readers : slot'[r] = slot[r] \/ slot'[r] = Free
      /\ \A m : Held(m)' => Held(m)
  <2>1. CASE Expire(l)
    BY <1>a, <2>1, ReleasedForms DEF Expire, ConnTypes
  <2>2. CASE UNCHANGED vars
    BY <1>a, <2>2 DEF vars, ConnTypes, Held
  <2> QED BY <2>1, <2>2
<1>2. ConnTypes' /\ \A d \in Conns : ServeInv(d)'
  BY <1>a, <1>1 DEF ConnTypes, ServeInv
<1>3. ASSUME NEW r \in Readers PROVE SlotInv(r)'
  BY <1>a, <1>1 DEF SlotInv, Operation, Free
<1>4. ASSUME NEW m \in Leases, Held(m)' PROVE \E d \in Conns : Ends(d, m)'
  BY <1>a, <1>1, <1>4 DEF Ends
<1> QED BY <1>2, <1>3, <1>4 DEF ConnInv

LEMMA ConnStep == ConnInv /\ [Next]_vars => ConnInv'
<1>1. ASSUME ConnInv, UNCHANGED vars PROVE ConnInv'
  BY <1>1 DEF ConnInv, ConnTypes, ServeInv, SlotInv, Operation, Held, Ends, vars, connVars, workVars
<1> QED BY <1>1, LoopStep, ServeStep, OperateStep, ExpireStep DEF Next

(* Every raw session that holds a reader has somebody who will end it: its *)
(* client, the cleanup of the client that left, or the request in hand     *)
(* (clientserver/server.go:199-230, tagops.go:239-330).                    *)
THEOREM LeaseHasItsEnder == Spec => []LeaseAccounted
<1>1. ConnInv => LeaseAccounted
  BY DEF ConnInv, LeaseAccounted, Ends
<1> QED BY ConnStart, ConnStep, <1>1, PTL DEF Spec

(* A request that names a tag touches that tag or none, whatever is moved  *)
(* between the scan it was routed by and the operation                     *)
(* (clientserver/tagresolve.go, resolveRoute; reader.go, soleTag).         *)
THEOREM NamedTagIsHeldTo == Spec => []NamedTagOnly
<1>1. ConnInv => NamedTagOnly
  BY DEF ConnInv, SlotInv, NamedTagOnly
<1> QED BY ConnStart, ConnStep, <1>1, PTL DEF Spec

=============================================================================
