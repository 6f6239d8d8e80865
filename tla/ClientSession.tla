--------------------------- MODULE ClientSession ---------------------------
(***************************************************************************)
(* The client library's session: client/src/session/client.ts.  One        *)
(* NFCClient holds one WebSocket at a time, reconnects it with a timer,    *)
(* keeps the requests that wait for an answer and the tag it was last told *)
(* of, which is the one a request without a target is aimed at.            *)
(*                                                                         *)
(* The code is one JavaScript thread, so each handler, timer and call of   *)
(* the program is one step; what comes in between two of them is the       *)
(* order the sockets' events, the timers and the program happen in.  A     *)
(* socket that connect() or disconnect() put aside still lives, and its    *)
(* events still come.  Delays, event handlers, payloads and how the        *)
(* promise of connect() settles, which changes nothing, are left out.      *)
(***************************************************************************)
EXTENDS Integers, Sequences, FiniteSets

CONSTANTS
    MaxAttempts,    \* maxReconnectAttempts
    MaxSockets,     \* bound: the sockets the client opens
    Questions,      \* bound: the requests the program sends
    Devices,        \* the readers tags are reported from
    Local,          \* the agent's own, reported without a deviceID
    UIDs,
    Nobody          \* no tag

VARIABLES
    sockets,        \* sockets[s]: readyState of the s-th socket
    ws,             \* NFCClient.ws, 0 for null
    connected, intentionalDisconnect, reconnectAttempts,
    timers,         \* reconnect timers that have yet to fire
    pendingRequests,\* pendingRequests[q]: the socket q was sent on, 0 when none waits
    aim,            \* aim[q]: where q was aimed, Nobody before it is sent
    lost,           \* the requests the agent never got
    tag,            \* NFCClient.tag
    field,          \* history: field[d], what the client was last told of reader d
    lastFrom,       \* history: the reader the last scan was reported from
    failures        \* history: closes of the client's socket since it last opened

sessionVars == <<sockets, ws, connected, intentionalDisconnect, reconnectAttempts,
                 timers, pendingRequests, aim, lost, tag, field, lastFrom,
                 failures>>

InField(d, u) == [device |-> d, uid |-> u]
HeldTags == {InField(d, u) : d \in Devices, u \in UIDs}

ASSUME SessionAssumption == Local \in Devices /\ Nobody \notin HeldTags /\ MaxAttempts \in Nat

Anywhere == [device |-> Nobody, uid |-> Nobody]     \* a request that names no tag

SessionTypeOK ==
    /\ sockets \in Seq({"connecting", "open", "closing", "closed"})
    /\ Len(sockets) <= MaxSockets
    /\ ws \in 0..Len(sockets)
    /\ connected \in BOOLEAN /\ intentionalDisconnect \in BOOLEAN
    /\ reconnectAttempts \in 0..MaxAttempts
    /\ timers \in Nat /\ failures \in Nat
    /\ pendingRequests \in [Questions -> 0..Len(sockets)]
    /\ aim \in [Questions -> HeldTags \cup {Nobody, Anywhere}]
    /\ lost \subseteq Questions
    /\ tag \in HeldTags \cup {Nobody}
    /\ field \in [Devices -> UIDs \cup {Nobody}]
    /\ lastFrom \in Devices

SessionInit ==
    /\ sockets = <<>> /\ ws = 0
    /\ connected = FALSE /\ intentionalDisconnect = FALSE
    /\ reconnectAttempts = 0 /\ timers = 0
    /\ pendingRequests = [q \in Questions |-> 0]
    /\ aim = [q \in Questions |-> Nobody]
    /\ lost = {}
    /\ tag = Nobody
    /\ field = [d \in Devices |-> Nobody] /\ lastFrom = Local
    /\ failures = 0

(***************************************************************************)
(* connect: the new socket takes the client's place for it, whatever the   *)
(* old one was.                                                            *)
(***************************************************************************)
NewSocket ==
    /\ Len(sockets) < MaxSockets
    /\ intentionalDisconnect' = FALSE
    /\ sockets' = Append(sockets, "connecting")
    /\ ws' = Len(sockets) + 1
    /\ UNCHANGED <<connected, reconnectAttempts, pendingRequests, aim, lost,
                   tag, field, lastFrom, failures>>

Connect == NewSocket /\ UNCHANGED timers

(* The timer of attemptReconnect; nothing cancels it.                      *)
Reconnect == timers > 0 /\ NewSocket /\ timers' = timers - 1

NoneWaits == [q \in Questions |-> 0]    \* failPending

(* disconnect: a socket still connecting is let go as it is.               *)
Disconnect ==
    /\ intentionalDisconnect' = TRUE
    /\ sockets' = IF connected /\ ws # 0 /\ sockets[ws] \in {"connecting", "open"}
                  THEN [sockets EXCEPT ![ws] = "closing"]
                  ELSE sockets
    /\ connected' = FALSE
    /\ ws' = 0
    /\ pendingRequests' = NoneWaits
    /\ UNCHANGED <<reconnectAttempts, timers, aim, lost, tag, field, lastFrom, failures>>

(***************************************************************************)
(* The sockets' events.  A handler of a socket that is not the client's    *)
(* returns at once.                                                        *)
(***************************************************************************)
Opened(s) ==
    /\ sockets[s] = "connecting"
    /\ sockets' = [sockets EXCEPT ![s] = "open"]
    /\ IF s = ws
       THEN connected' = TRUE /\ reconnectAttempts' = 0 /\ failures' = 0
       ELSE UNCHANGED <<connected, reconnectAttempts, failures>>
    /\ UNCHANGED <<ws, intentionalDisconnect, timers, pendingRequests, aim,
                   lost, tag, field, lastFrom>>

(* attemptReconnect, when the drop was not asked for.                      *)
AttemptReconnect ==
    IF ~intentionalDisconnect /\ reconnectAttempts < MaxAttempts
    THEN reconnectAttempts' = reconnectAttempts + 1 /\ timers' = timers + 1
    ELSE UNCHANGED <<reconnectAttempts, timers>>

(* The peer closes, the connection breaks, or it never opened.             *)
Closing(s) ==
    /\ sockets[s] = "open"
    /\ sockets' = [sockets EXCEPT ![s] = "closing"]
    /\ UNCHANGED <<ws, connected, intentionalDisconnect, reconnectAttempts, timers,
                   pendingRequests, aim, lost, tag, field, lastFrom, failures>>

(* Mutant: the requests in flight are left to their timeouts. *)
ClosedQuietly(s) ==
    /\ sockets[s] # "closed"
    /\ sockets' = [sockets EXCEPT ![s] = "closed"]
    /\ IF s = ws
       THEN /\ connected' = FALSE
            /\ failures' = IF failures > MaxAttempts THEN failures ELSE failures + 1
            /\ AttemptReconnect
       ELSE UNCHANGED <<connected, failures, reconnectAttempts, timers>>
    /\ UNCHANGED <<ws, intentionalDisconnect, pendingRequests, aim, lost, tag, field, lastFrom>>

Closed(s) ==
    /\ sockets[s] # "closed"
    /\ sockets' = [sockets EXCEPT ![s] = "closed"]
    /\ IF s = ws
       THEN /\ connected' = FALSE
            /\ pendingRequests' = NoneWaits
            /\ failures' = IF failures > MaxAttempts THEN failures ELSE failures + 1
            /\ AttemptReconnect
       ELSE UNCHANGED <<connected, pendingRequests, failures, reconnectAttempts, timers>>
    /\ UNCHANGED <<ws, intentionalDisconnect, aim, lost, tag, field, lastFrom>>

(***************************************************************************)
(* sendRequest.  A socket that is connecting throws and leaves the entry   *)
(* to its timeout; one that is closing drops what it is given.             *)
(***************************************************************************)
Target(named) ==    \* aimed: the caller's target, else the tag in the field
    IF named # Nobody THEN named ELSE IF tag = Nobody THEN Anywhere ELSE tag

SendRequest(q, named) ==
    /\ aim[q] = Nobody
    /\ connected /\ ws # 0
    /\ aim' = [aim EXCEPT ![q] = Target(named)]
    /\ pendingRequests' = [pendingRequests EXCEPT ![q] = ws]
    /\ lost' = IF sockets[ws] = "open" THEN lost ELSE lost \cup {q}
    /\ UNCHANGED <<sockets, ws, connected, intentionalDisconnect, reconnectAttempts,
                   timers, tag, field, lastFrom, failures>>

(* The thirty seconds are over.                                            *)
RequestTimeout(q) ==
    /\ pendingRequests[q] # 0
    /\ pendingRequests' = [pendingRequests EXCEPT ![q] = 0]
    /\ UNCHANGED <<sockets, ws, connected, intentionalDisconnect, reconnectAttempts,
                   timers, aim, lost, tag, field, lastFrom, failures>>

(***************************************************************************)
(* handleMessage, for a message on the client's socket.  An answer nobody  *)
(* waits for any more changes nothing.                                     *)
(***************************************************************************)
Answer(q) ==
    /\ ws # 0 /\ sockets[ws] = "open"
    /\ pendingRequests[q] = ws /\ q \notin lost
    /\ pendingRequests' = [pendingRequests EXCEPT ![q] = 0]
    /\ UNCHANGED <<sockets, ws, connected, intentionalDisconnect, reconnectAttempts,
                   timers, aim, lost, tag, field, lastFrom, failures>>

TagData(d, u) ==
    /\ tag' = IF u # Nobody THEN InField(d, u)
              ELSE IF tag # Nobody /\ tag.device = d THEN Nobody ELSE tag
    /\ lastFrom' = IF u # Nobody THEN d ELSE lastFrom
    /\ field' = [field EXCEPT ![d] = u]

(* Mutant: the status takes any tag away. *)
NoCardAnywhere ==
    /\ tag' = Nobody
    /\ field' = [field EXCEPT ![Local] = Nobody]
    /\ UNCHANGED lastFrom

(* deviceStatus speaks of the agent's own reader.                          *)
NoCard ==
    /\ tag' = IF tag # Nobody /\ tag.device = Local THEN Nobody ELSE tag
    /\ field' = [field EXCEPT ![Local] = Nobody]
    /\ UNCHANGED lastFrom

Told ==
    /\ ws # 0 /\ sockets[ws] = "open"
    /\ \/ \E d \in Devices, u \in UIDs \cup {Nobody} : TagData(d, u)
       \/ NoCard
    /\ UNCHANGED <<sockets, ws, connected, intentionalDisconnect, reconnectAttempts,
                   timers, pendingRequests, aim, lost, failures>>

SessionNext ==
    \/ Connect \/ Disconnect \/ Reconnect \/ Told
    \/ \E s \in 1..Len(sockets) : Opened(s) \/ Closing(s) \/ Closed(s)
    \/ \E q \in Questions :
           \/ \E named \in HeldTags \cup {Nobody} : SendRequest(q, named)
           \/ RequestTimeout(q) \/ Answer(q)

SessionSpec == SessionInit /\ [][SessionNext]_sessionVars

(***************************************************************************)
(* Properties                                                              *)
(***************************************************************************)

(* A request in flight on the client's socket is failed with the socket,   *)
(* not by its own timeout thirty seconds later, and disconnect leaves none *)
(* (onclose and failPending); only one whose socket connect() replaced     *)
(* waits for it.                                                           *)
NoneOnTheDead ==
    \A q \in Questions : pendingRequests[q] # 0 =>
        /\ pendingRequests[q] <= ws
        /\ pendingRequests[q] = ws => sockets[ws] # "closed"

(* A client whose socket closed without its asking has a timer that will   *)
(* open another, until MaxAttempts of them in a row failed: an opening     *)
(* gives it all of its attempts again (onclose, onopen, attemptReconnect). *)
KeepsTrying ==
    ws # 0 /\ sockets[ws] = "closed" => timers > 0 \/ failures > MaxAttempts

(* What a drop of the connection leaves behind is failed, and tried again  *)
(* (client.ts, connect: onclose).                                          *)
DropIsHandled == NoneOnTheDead /\ KeepsTrying

(* The tag a request is aimed at is the last one reported, until the       *)
(* reader it was reported from is said to hold none: neither another       *)
(* reader's removal nor the status of the agent's own reader takes a       *)
(* phone's tag away, and none survives its own (handleMessage, aimed).     *)
TagAsReported ==
    tag = IF field[lastFrom] = Nobody THEN Nobody ELSE InField(lastFrom, field[lastFrom])

=============================================================================
