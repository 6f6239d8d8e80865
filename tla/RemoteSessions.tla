--------------------------- MODULE RemoteSessions ---------------------------
(***************************************************************************)
(* The device bridge, nfc/remotenfc: phones register over a WebSocket,     *)
(* report the tags they hold and answer requests.  A phone that comes back *)
(* replaces its own session, so several connections may be alive under one *)
(* identity, each with a goroutine (serveSession) at a different point of  *)
(* its life.                                                               *)
(*                                                                         *)
(* A step is one critical section of m.mu, sessionsMu, pendingMu, activeMu *)
(* or a device's own mutex, with the call to a socket that follows it.  A  *)
(* connection, the goroutine that serves it and the Device it registers    *)
(* have one name: a connection registers once.                             *)
(***************************************************************************)
EXTENDS FiniteSets

CONSTANTS
    Conns,      \* connections, each of them served once
    Ids,        \* the identities devices are admitted under
    Requests,   \* request IDs: every call of request() has a fresh one
    Tags,       \* tags a device can hold
    Failed,     \* the result failPendingRequests sends
    None

ASSUME NoneApart == None \notin Conns \cup Ids \cup Requests \cup Tags
ASSUME FailedApart == Failed \notin Conns \cup {None}
ASSUME KindsApart ==
    /\ Conns \cap Ids = {}
    /\ Requests \cap Tags = {}

VARIABLES
    at,         \* at[c]: where c's goroutine is
    id,         \* id[c]: the identity c asked to register
    link,       \* link[c]: "up", "lost" (the peer is gone), "closed" (by us)
    sessions,   \* m.sessions: identity -> connection
    bound,      \* m.sessionConn: connection -> identity
    devices,    \* m.devices: identity -> the Device that connection made
    registerMu, \* who holds it, or None
    hand,       \* hand[c]: the request it answers, or the tag its frame names
    aim,        \* aim[c]: the Device it looked up, or the fallback it chose
    tag,        \* tag[c]: the tag c's Device holds
    latest,     \* m.activeLatest
    req,        \* req[r]: where the caller of request is
    to,         \* to[r]: the device it asked for
    via,        \* via[r]: the session SendToDevice found
    pending,    \* pending[r]: the owner in m.pending, None for no entry
    inbox,      \* inbox[r]: what respCh holds
    got,        \* got[r]: what request returned
    stale,      \* the identities the sweep has still to drop
    dropping,   \* the one it found no session of, or None
    closing     \* Close: "no", "sessions" or "done"

tagVars == <<hand, aim, tag, latest>>
callVars == <<req, to, via, pending, inbox, got>>
mapVars == <<sessions, bound, devices>>
adminVars == <<stale, dropping, closing>>
vars == <<at, id, link, mapVars, registerMu, tagVars, callVars, adminVars>>

Registering == {"register", "device", "session", "greet", "ungreet", "confirm"}
Handling == {"scan", "record", "latest", "publish", "answer",
             "removed", "compare", "clear", "choose", "fallback", "retract"}
Leaving == {"end", "sweep", "unregister",
            "forget", "comparing", "clearing", "choosing", "falling"}
Results == Conns \cup {Failed, None}

(* The teardown is past failPendingRequests.                               *)
Swept == {"forget", "comparing", "clearing", "choosing", "falling", "unregister",
          "ended"}

TypeOK ==
    /\ at \in [Conns -> {"new", "serving", "gone", "ended"}
                           \cup Registering \cup Handling \cup Leaving]
    /\ id \in [Conns -> Ids \cup {None}]
    /\ link \in [Conns -> {"up", "lost", "closed"}]
    /\ sessions \in [Ids -> Conns \cup {None}]
    /\ bound \in [Conns -> Ids \cup {None}]
    /\ devices \in [Ids -> Conns \cup {None}]
    /\ registerMu \in Conns \cup {None}
    /\ hand \in [Conns -> Requests \cup Tags \cup {None}]
    /\ aim \in [Conns -> Conns \cup Ids \cup {None}]
    /\ tag \in [Conns -> Tags \cup {None}]
    /\ latest \in Ids \cup {None}
    /\ req \in [Requests -> {"idle", "send", "write", "wait", "leave", "done"}]
    /\ to \in [Requests -> Ids \cup {None}]
    /\ via \in [Requests -> Conns \cup {None}]
    /\ pending \in [Requests -> Ids \cup {None}]
    /\ inbox \in [Requests -> Results]
    /\ got \in [Requests -> Results]
    /\ stale \subseteq Ids
    /\ dropping \in Ids \cup {None}
    /\ closing \in {"no", "sessions", "done"}
    /\ \A c \in Conns :
          /\ at[c] \notin {"new", "gone"} => id[c] \in Ids
          /\ at[c] = "answer" => hand[c] \in Requests
          /\ at[c] \in {"scan", "record"} => hand[c] \in Tags
          /\ at[c] \in {"record", "compare", "comparing", "clear", "clearing"} =>
                aim[c] \in Conns
          /\ at[c] \in {"fallback", "falling"} => aim[c] \in Ids \cup {None}
    /\ \A r \in Requests : req[r] # "idle" => to[r] \in Ids

Init ==
    /\ at = [c \in Conns |-> "new"]
    /\ id = [c \in Conns |-> None]
    /\ link = [c \in Conns |-> "up"]
    /\ sessions = [i \in Ids |-> None]
    /\ bound = [c \in Conns |-> None]
    /\ devices = [i \in Ids |-> None]
    /\ registerMu = None
    /\ hand = [c \in Conns |-> None]
    /\ aim = [c \in Conns |-> None]
    /\ tag = [c \in Conns |-> None]
    /\ latest = None
    /\ req = [r \in Requests |-> "idle"]
    /\ to = [r \in Requests |-> None]
    /\ via = [r \in Requests |-> None]
    /\ pending = [r \in Requests |-> None]
    /\ inbox = [r \in Requests |-> None]
    /\ got = [r \in Requests |-> None]
    /\ stale = {}
    /\ dropping = None
    /\ closing = "no"

Goto(c, step) == at' = [at EXCEPT ![c] = step]

Shut(S) == link' = [c \in Conns |-> IF c \in S THEN "closed" ELSE link[c]]

-----------------------------------------------------------------------------
(* Registration: awaitRegistration, registerSession, sendRegistration.     *)

(* The first frame.  One that registers nothing ends the connection.       *)
Hello(c) ==
    /\ at[c] = "new"
    /\ \/ \E i \in Ids : id' = [id EXCEPT ![c] = i] /\ Goto(c, "register") /\ UNCHANGED link
       \/ Goto(c, "gone") /\ Shut({c}) /\ UNCHANGED id
    /\ UNCHANGED <<mapVars, registerMu, tagVars, callVars, adminVars>>

(* Mutant: no lock across the replacement and the installation.            *)
ReplaceUnlocked(c) ==
    LET old == sessions[id[c]]
    IN /\ at[c] = "register"
       /\ sessions' = [sessions EXCEPT ![id[c]] = None]
       /\ bound' = [d \in Conns |-> IF d = old THEN None ELSE bound[d]]
       /\ Shut({old})
       /\ Goto(c, "device")
       /\ UNCHANGED <<id, devices, registerMu, tagVars, callVars, adminVars>>

(* registerMu is taken, and the session this one replaces dropped: only    *)
(* its owner can drop it between the look and the removal.                 *)
Replace(c) ==
    LET old == sessions[id[c]]
    IN /\ at[c] = "register"
       /\ registerMu = None
       /\ registerMu' = c
       /\ sessions' = [sessions EXCEPT ![id[c]] = None]
       /\ bound' = [d \in Conns |-> IF d = old THEN None ELSE bound[d]]
       /\ Shut({old})
       /\ Goto(c, "device")
       /\ UNCHANGED <<id, devices, tagVars, callVars, adminVars>>

InstallDevice(c) ==
    /\ at[c] = "device"
    /\ devices' = [devices EXCEPT ![id[c]] = c]
    /\ Goto(c, "session")
    /\ UNCHANGED <<id, link, sessions, bound, registerMu, tagVars, callVars, adminVars>>

AddSession(c) ==
    /\ at[c] = "session"
    /\ sessions' = [sessions EXCEPT ![id[c]] = c]
    /\ bound' = [bound EXCEPT ![c] = id[c]]
    /\ registerMu' = None
    /\ Goto(c, "greet")
    /\ UNCHANGED <<id, link, devices, tagVars, callVars, adminVars>>

Greet(c) ==
    /\ at[c] = "greet"
    /\ link[c] # "closed"
    /\ Goto(c, "confirm")
    /\ UNCHANGED <<id, link, mapVars, registerMu, tagVars, callVars, adminVars>>

(* removeSessionFor: the reverse entry goes, the session only if it is     *)
(* still this connection's.                                                *)
Owns(c) == sessions[id[c]] = c

RemoveSessionFor(c) ==
    /\ bound' = [bound EXCEPT ![c] = None]
    /\ sessions' = IF Owns(c) THEN [sessions EXCEPT ![id[c]] = None] ELSE sessions

(* Mutant: the connection is dropped and its registration left.            *)
GreetFailsLeaving(c) ==
    /\ at[c] = "greet"
    /\ link[c] # "up"
    /\ RemoveSessionFor(c)
    /\ Goto(c, "gone")
    /\ Shut({c})
    /\ UNCHANGED <<id, devices, registerMu, tagVars, callVars, adminVars>>

GreetFails(c) ==
    /\ at[c] = "greet"
    /\ link[c] # "up"
    /\ RemoveSessionFor(c)
    /\ Goto(c, IF Owns(c) THEN "ungreet" ELSE "gone")
    /\ Shut({c})
    /\ UNCHANGED <<id, devices, registerMu, tagVars, callVars, adminVars>>

(* UnregisterDevice, by name and outside registerMu.                       *)
Unregister(c) ==
    /\ at[c] \in {"ungreet", "unregister"}
    /\ devices' = [devices EXCEPT ![id[c]] = None]
    /\ Goto(c, IF at[c] = "ungreet" THEN "gone" ELSE "ended")
    /\ UNCHANGED <<id, link, sessions, bound, registerMu, tagVars, callVars, adminVars>>

(* deviceIDForConn: a connection replaced meanwhile is not served.         *)
Confirm(c) ==
    /\ at[c] = "confirm"
    /\ IF bound[c] = None
       THEN Goto(c, "gone") /\ Shut({c})
       ELSE Goto(c, "serving") /\ UNCHANGED link
    /\ UNCHANGED <<id, mapVars, registerMu, tagVars, callVars, adminVars>>

-----------------------------------------------------------------------------
(* The frames of a registered device.  One may still be read from a        *)
(* connection that is lost or closed: it was buffered.                     *)

(* handleTagScanned, to SendTagData's look at m.devices.                   *)
Scan(c, t) ==
    /\ at[c] = "serving"
    /\ devices[id[c]] # None
    /\ hand' = [hand EXCEPT ![c] = t]
    /\ Goto(c, "scan")
    /\ UNCHANGED <<id, link, mapVars, registerMu, aim, tag, latest, callVars, adminVars>>

(* setActiveTag looks the device up again, by name.                        *)
LookAgain(c) ==
    LET d == devices[id[c]]
    IN /\ at[c] = "scan"
       /\ aim' = [aim EXCEPT ![c] = d]
       /\ Goto(c, IF d = None THEN "publish" ELSE "record")
       /\ UNCHANGED <<id, link, mapVars, registerMu, hand, tag, latest, callVars, adminVars>>

SetTag(c) ==
    /\ at[c] = "record"
    /\ tag' = [tag EXCEPT ![aim[c]] = hand[c]]
    /\ aim' = [aim EXCEPT ![c] = None]
    /\ Goto(c, "latest")
    /\ UNCHANGED <<id, link, mapVars, registerMu, hand, latest, callVars, adminVars>>

SetLatest(c) ==
    /\ at[c] = "latest"
    /\ latest' = id[c]
    /\ Goto(c, "publish")
    /\ UNCHANGED <<id, link, mapVars, registerMu, hand, aim, tag, callVars, adminVars>>

(* publish returns: the scan is queued, or dropped and reported.           *)
Publish(c) ==
    /\ at[c] \in {"publish", "retract"}
    /\ hand' = [hand EXCEPT ![c] = None]
    /\ Goto(c, "serving")
    /\ UNCHANGED <<id, link, mapVars, registerMu, aim, tag, latest, callVars, adminVars>>

(* handleTagRemoved; the frame may name no tag.                            *)
Removed(c, t) ==
    /\ at[c] = "serving"
    /\ hand' = [hand EXCEPT ![c] = t]
    /\ Goto(c, "removed")
    /\ UNCHANGED <<id, link, mapVars, registerMu, aim, tag, latest, callVars, adminVars>>

(* clearActiveTag, for a removal and for a session that ends.  AfterClear  *)
(* is where its caller goes on.                                            *)
AfterClear(c) == IF at[c] \in Leaving THEN "unregister" ELSE "retract"
During(c, removal, end) == IF at[c] \in Leaving THEN end ELSE removal

ClearLook(c) ==
    LET d == devices[id[c]]
    IN /\ at[c] \in {"removed", "forget"}
       /\ aim' = [aim EXCEPT ![c] = d]
       /\ Goto(c, IF d = None THEN AfterClear(c) ELSE During(c, "compare", "comparing"))
       /\ UNCHANGED <<id, link, mapVars, registerMu, hand, tag, latest, callVars, adminVars>>

CompareTag(c) ==
    LET held == tag[aim[c]]
    IN /\ at[c] \in {"compare", "comparing"}
       /\ IF held = None \/ hand[c] \notin {None, held}
          THEN aim' = [aim EXCEPT ![c] = None] /\ Goto(c, AfterClear(c))
          ELSE Goto(c, During(c, "clear", "clearing")) /\ UNCHANGED aim
       /\ UNCHANGED <<id, link, mapVars, registerMu, hand, tag, latest, callVars, adminVars>>

ClearTag(c) ==
    /\ at[c] \in {"clear", "clearing"}
    /\ tag' = [tag EXCEPT ![aim[c]] = None]
    /\ aim' = [aim EXCEPT ![c] = None]
    /\ Goto(c, During(c, "choose", "choosing"))
    /\ UNCHANGED <<id, link, mapVars, registerMu, hand, latest, callVars, adminVars>>

(* anyDeviceHoldingTag, in whatever order the map gives.                   *)
Holders == {i \in Ids : devices[i] # None /\ tag[devices[i]] # None}

ChooseFallback(c) ==
    LET others == Holders \ {id[c]}
    IN /\ at[c] \in {"choose", "choosing"}
       /\ \E i \in IF others = {} THEN {None} ELSE others :
             aim' = [aim EXCEPT ![c] = i]
       /\ Goto(c, During(c, "fallback", "falling"))
       /\ UNCHANGED <<id, link, mapVars, registerMu, hand, tag, latest, callVars, adminVars>>

ClearLatest(c) ==
    /\ at[c] \in {"fallback", "falling"}
    /\ latest' = IF latest = id[c] THEN aim[c] ELSE latest
    /\ aim' = [aim EXCEPT ![c] = None]
    /\ Goto(c, AfterClear(c))
    /\ UNCHANGED <<id, link, mapVars, registerMu, hand, tag, callVars, adminVars>>

-----------------------------------------------------------------------------
(* Requests: request and handleDeviceResponse.                             *)

Call(r, i) ==
    /\ req[r] = "idle"
    /\ req' = [req EXCEPT ![r] = "send"]
    /\ to' = [to EXCEPT ![r] = i]
    /\ pending' = [pending EXCEPT ![r] = i]
    /\ UNCHANGED <<at, id, link, mapVars, registerMu, tagVars, via, inbox, got, adminVars>>

(* SendToDevice looks the session up.                                      *)
LookUp(r) ==
    LET c == sessions[to[r]]
    IN /\ req[r] = "send"
       /\ via' = [via EXCEPT ![r] = c]
       /\ req' = [req EXCEPT ![r] = IF c = None THEN "leave" ELSE "write"]
       /\ UNCHANGED <<at, id, link, mapVars, registerMu, tagVars, to, pending, inbox, got, adminVars>>

(* WriteJSON: a lost peer may go unnoticed, a closed connection does not.  *)
Write(r) ==
    /\ req[r] = "write"
    /\ \/ link[via[r]] # "closed" /\ req' = [req EXCEPT ![r] = "wait"]
       \/ link[via[r]] # "up" /\ req' = [req EXCEPT ![r] = "leave"]
    /\ UNCHANGED <<at, id, link, mapVars, registerMu, tagVars, to, via, pending, inbox, got, adminVars>>

Receive(r) ==
    /\ req[r] = "wait"
    /\ inbox[r] # None
    /\ got' = [got EXCEPT ![r] = inbox[r]]
    /\ inbox' = [inbox EXCEPT ![r] = None]
    /\ req' = [req EXCEPT ![r] = "leave"]
    /\ UNCHANGED <<at, id, link, mapVars, registerMu, tagVars, to, via, pending, adminVars>>

(* The caller's context, or the timeout.                                   *)
TimeOut(r) ==
    /\ req[r] = "wait"
    /\ req' = [req EXCEPT ![r] = "leave"]
    /\ UNCHANGED <<at, id, link, mapVars, registerMu, tagVars, to, via, pending, inbox, got, adminVars>>

(* The deferred delete.                                                    *)
Leave(r) ==
    /\ req[r] = "leave"
    /\ req' = [req EXCEPT ![r] = "done"]
    /\ pending' = [pending EXCEPT ![r] = None]
    /\ UNCHANGED <<at, id, link, mapVars, registerMu, tagVars, to, via, inbox, got, adminVars>>

(* Mutant: deleted first, checked after.                                   *)
TakePendingFirst(c, r) ==
    /\ at[c] = "serving"
    /\ pending[r] # None
    /\ pending' = [pending EXCEPT ![r] = None]
    /\ IF pending[r] = id[c]
       THEN hand' = [hand EXCEPT ![c] = r] /\ Goto(c, "answer")
       ELSE UNCHANGED <<hand, at>>
    /\ UNCHANGED <<id, link, mapVars, registerMu, aim, tag, latest, req, to, via, inbox, got, adminVars>>

(* A response that names r, which a device may send more than once and for *)
(* a request that is not its own: the entry goes to its owner only.        *)
TakePending(c, r) ==
    /\ at[c] = "serving"
    /\ pending[r] = id[c]
    /\ pending' = [pending EXCEPT ![r] = None]
    /\ hand' = [hand EXCEPT ![c] = r]
    /\ Goto(c, "answer")
    /\ UNCHANGED <<id, link, mapVars, registerMu, aim, tag, latest, req, to, via, inbox, got, adminVars>>

(* respCh has room for one result; a second send would block.              *)
Deliver(c) ==
    /\ at[c] = "answer"
    /\ inbox[hand[c]] = None
    /\ inbox' = [inbox EXCEPT ![hand[c]] = c]
    /\ hand' = [hand EXCEPT ![c] = None]
    /\ Goto(c, "serving")
    /\ UNCHANGED <<id, link, mapVars, registerMu, aim, tag, latest, req, to, via, pending, got, adminVars>>

-----------------------------------------------------------------------------
(* The end of a session.                                                   *)

(* The peer goes away.                                                     *)
LoseLink(c) ==
    /\ link[c] = "up"
    /\ link' = [link EXCEPT ![c] = "lost"]
    /\ UNCHANGED <<at, id, mapVars, registerMu, tagVars, callVars, adminVars>>

(* The read fails, or the device said goodbye; the connection is closed.   *)
ReadEnds(c) ==
    /\ at[c] = "serving"
    /\ Goto(c, "end")
    /\ Shut({c})
    /\ UNCHANGED <<id, mapVars, registerMu, tagVars, callVars, adminVars>>

(* endSession: a session that was replaced is not this connection's to end.*)
EndSession(c) ==
    /\ at[c] = "end"
    /\ RemoveSessionFor(c)
    /\ Goto(c, IF Owns(c) THEN "sweep" ELSE "gone")
    /\ UNCHANGED <<id, link, devices, registerMu, tagVars, callVars, adminVars>>

(* failPendingRequests, which sends under pendingMu.                       *)
Waiters(i) == {r \in Requests : pending[r] = i}

FailPending(c) ==
    /\ at[c] = "sweep"
    /\ \A r \in Waiters(id[c]) : inbox[r] = None
    /\ inbox' = [r \in Requests |-> IF r \in Waiters(id[c]) THEN Failed ELSE inbox[r]]
    /\ pending' = [r \in Requests |-> IF r \in Waiters(id[c]) THEN None ELSE pending[r]]
    /\ Goto(c, "forget")
    /\ UNCHANGED <<id, link, mapVars, registerMu, tagVars, req, to, via, got, adminVars>>

(* DisconnectDevice closes the socket, and its goroutine does the rest.    *)
Disconnect(i) ==
    /\ sessions[i] # None
    /\ link[sessions[i]] # "closed"
    /\ Shut({sessions[i]})
    /\ UNCHANGED <<at, id, mapVars, registerMu, tagVars, callVars, adminVars>>

(* cleanupInactiveDevices lists the silent devices; one that registers     *)
(* just now is not.                                                        *)
FindSilent ==
    /\ closing = "no"
    /\ stale = {} /\ dropping = None
    /\ stale' \in SUBSET {i \in Ids : devices[i] # None /\ at[devices[i]] # "session"}
    /\ stale' # {}
    /\ UNCHANGED <<at, id, link, mapVars, registerMu, tagVars, callVars, dropping, closing>>

(* And drops them by name: the session if it has one, or the registration. *)
DropSilent(i) ==
    /\ i \in stale /\ dropping = None
    /\ stale' = stale \ {i}
    /\ IF sessions[i] # None
       THEN Shut({sessions[i]}) /\ UNCHANGED dropping
       ELSE dropping' = i /\ UNCHANGED link
    /\ UNCHANGED <<at, id, mapVars, registerMu, tagVars, callVars, closing>>

UnregisterSilent ==
    /\ dropping # None
    /\ devices' = [devices EXCEPT ![dropping] = None]
    /\ dropping' = None
    /\ UNCHANGED <<at, id, link, sessions, bound, registerMu, tagVars, callVars, stale, closing>>

(* Close: every session's socket, then every device.                       *)
CloseSessions ==
    /\ closing = "no"
    /\ closing' = "sessions"
    /\ Shut({sessions[i] : i \in Ids})
    /\ UNCHANGED <<at, id, mapVars, registerMu, tagVars, callVars, stale, dropping>>

CloseDevices ==
    /\ closing = "sessions"
    /\ closing' = "done"
    /\ devices' = [i \in Ids |-> None]
    /\ UNCHANGED <<at, id, link, sessions, bound, registerMu, tagVars, callVars, stale, dropping>>

-----------------------------------------------------------------------------
Register(c) ==
    \/ Hello(c) \/ Replace(c) \/ InstallDevice(c) \/ AddSession(c)
    \/ Greet(c) \/ GreetFails(c) \/ Confirm(c)

Handle(c) ==
    \/ LookAgain(c) \/ SetTag(c) \/ SetLatest(c) \/ Publish(c)
    \/ ClearLook(c) \/ CompareTag(c) \/ ClearTag(c) \/ ChooseFallback(c) \/ ClearLatest(c)
    \/ Deliver(c)

Frame(c) ==
    \/ \E t \in Tags : Scan(c, t)
    \/ \E t \in Tags \cup {None} : Removed(c, t)
    \/ \E r \in Requests : TakePending(c, r)

End(c) == EndSession(c) \/ FailPending(c) \/ Unregister(c)

Request(r) ==
    \/ \E i \in Ids : Call(r, i)
    \/ LookUp(r) \/ Write(r) \/ Receive(r) \/ TimeOut(r) \/ Leave(r)

Next ==
    \/ \E c \in Conns : Register(c) \/ Frame(c) \/ Handle(c) \/ LoseLink(c) \/ ReadEnds(c) \/ End(c)
    \/ \E r \in Requests : Request(r)
    \/ \E i \in Ids : Disconnect(i) \/ DropSilent(i)
    \/ FindSilent \/ UnregisterSilent \/ CloseSessions \/ CloseDevices

Spec == Init /\ [][Next]_vars

-----------------------------------------------------------------------------
(* Safety.                                                                 *)

(* server.go:259-260: the two maps name the same sessions, and a           *)
(* connection that is served and alive is its identity's session: none is  *)
(* left that no operation can reach.                                       *)
NoOrphan ==
    /\ \A i \in Ids, c \in Conns : sessions[i] = c <=> bound[c] = i
    /\ \A c \in Conns :
          at[c] \in {"serving", "confirm"} /\ link[c] # "closed" => Owns(c)

Carries(c, r) == at[c] = "answer" /\ hand[c] = r

(* requests.go:308-311: a caller that waits has its entry, its answer, or  *)
(* a goroutine on its way with it.  No other device can take it.           *)
NoneForgotten ==
    \A r \in Requests :
        req[r] \in {"send", "write", "wait"} =>
            \/ pending[r] = to[r]
            \/ inbox[r] # None
            \/ \E c \in Conns : Carries(c, r)

(* The answer a caller is given is its own device's.                       *)
OwnAnswer ==
    \A r \in Requests, c \in Conns :
        c \in {inbox[r], got[r]} => id[c] = to[r]

(* respCh holds one result and none of its senders ever waits for room:    *)
(* the sweep, which sends under pendingMu, would stop every request.       *)
SendsNeverBlock ==
    \A r \in Requests :
        /\ pending[r] # None => inbox[r] = None
        /\ \A c \in Conns :
              Carries(c, r) =>
                  /\ pending[r] = None /\ inbox[r] = None
                  /\ \A d \in Conns \ {c} : ~Carries(d, r)

(* requests.go:333-334: past the sweep nobody waits on the session that    *)
(* ended.  Whoever found that session had its entry made before.           *)
SweepIsComplete ==
    \A r \in Requests :
        req[r] \in {"write", "wait"} /\ at[via[r]] \in Swept =>
            pending[r] = None

(* Nobody waits in vain for a phone: a request is its device's to answer   *)
(* until it is answered or swept, it is answered by that device alone, and *)
(* whoever answers or sweeps it finds room (requests.go).                  *)
NobodyStranded == NoneForgotten /\ OwnAnswer /\ SendsNeverBlock /\ SweepIsComplete

-----------------------------------------------------------------------------
(* Liveness.  Goroutines go on; a socket that is closed or lost runs out   *)
(* of buffered frames, so its read fails some time.                        *)

FairSpec ==
    /\ Spec
    /\ \A c \in Conns :
          /\ WF_vars(Register(c) \/ Handle(c) \/ End(c))
          /\ SF_vars(link[c] # "up" /\ ReadEnds(c))
    /\ \A r \in Requests :
          WF_vars(LookUp(r) \/ Write(r) \/ Receive(r) \/ TimeOut(r) \/ Leave(r))

(* A registration does not outlive its connection: it goes, or the device  *)
(* that came back makes its own.                                           *)
Stale(i) == devices[i] # None /\ link[devices[i]] # "up"

Unregistered == \A i \in Ids : Stale(i) ~> ~Stale(i)

=============================================================================
