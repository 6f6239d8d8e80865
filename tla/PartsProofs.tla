---------------------------- MODULE PartsProofs -----------------------------
(* What the parts that only calls and messages tie to the rest guarantee:  *)
(* the two JavaScript libraries for every number of sockets, requests,     *)
(* readers and attempts, the sequences a phone is sent for every number of *)
(* callers, and the server's record of taps for every counter.             *)
EXTENDS ClientSession, DeviceClient, RemoteTagSession, Sun, SequenceTheorems, WellFoundedInduction, TLAPS

(* A function on the first n numbers is a sequence.                        *)
LEMMA FunctionIsSeq ==
    ASSUME NEW W, NEW n \in Nat, NEW r \in [1 .. n -> W]
    PROVE  r \in Seq(W) /\ Len(r) = n
BY SeqDef, LenProperties

-----------------------------------------------------------------------------
(* The client library's session.                                           *)

States == {"connecting", "open", "closing", "closed"}

(* The tag held is the last reader's, as it was last reported.             *)
HeldInv ==
    /\ field \in [Devices -> UIDs \cup {Nobody}] /\ lastFrom \in Devices
    /\ TagAsReported

(* A tag's device is the reader it was reported from.                      *)
LEMMA InFieldForms ==
    \A d \in Devices, u \in UIDs : InField(d, u) # Nobody /\ InField(d, u).device = d
BY SessionAssumption DEF InField, HeldTags

(* It holds at first, when every field is empty.                           *)
LEMMA HeldStart == SessionInit => HeldInv
BY SessionAssumption DEF SessionInit, HeldInv, TagAsReported

(* Every message and every drop keeps it.                                  *)
LEMMA HeldStep == HeldInv /\ [SessionNext]_sessionVars => HeldInv'
<1> SUFFICES ASSUME HeldInv, [SessionNext]_sessionVars PROVE HeldInv'
  OBVIOUS
<1>1. ASSUME NEW d \in Devices, NEW u \in UIDs \cup {Nobody}, TagData(d, u) PROVE HeldInv'
  <2>1. /\ field' \in [Devices -> UIDs \cup {Nobody}] /\ field'[d] = u
        /\ \A e \in Devices : e # d => field'[e] = field[e]
    BY <1>1 DEF TagData, HeldInv
  <2>2. CASE u # Nobody
    BY <1>1, <2>1, <2>2 DEF TagData, HeldInv, TagAsReported
  <2>3. CASE u = Nobody
    <3>1. lastFrom' = lastFrom /\ lastFrom \in Devices
      BY <1>1, <2>3 DEF TagData, HeldInv
    <3>2. CASE field[lastFrom] = Nobody
      BY <1>1, <2>1, <2>3, <3>1, <3>2 DEF TagData, HeldInv, TagAsReported
    <3>3. CASE field[lastFrom] # Nobody
      <4>1. tag = InField(lastFrom, field[lastFrom]) /\ tag # Nobody /\ tag.device = lastFrom
        BY <3>1, <3>3, InFieldForms DEF HeldInv, TagAsReported
      <4> QED BY <1>1, <2>1, <2>3, <3>1, <3>3, <4>1 DEF TagData, HeldInv, TagAsReported
    <3> QED BY <3>2, <3>3
  <2> QED BY <2>2, <2>3
<1>2. CASE NoCard
  <2>1. /\ field' \in [Devices -> UIDs \cup {Nobody}] /\ field'[Local] = Nobody
        /\ \A e \in Devices : e # Local => field'[e] = field[e]
        /\ lastFrom' = lastFrom /\ lastFrom \in Devices
    BY <1>2, SessionAssumption DEF NoCard, HeldInv
  <2>2. CASE field[lastFrom] = Nobody
    BY <1>2, <2>1, <2>2 DEF NoCard, HeldInv, TagAsReported
  <2>3. CASE field[lastFrom] # Nobody
    <3>1. tag = InField(lastFrom, field[lastFrom]) /\ tag # Nobody /\ tag.device = lastFrom
      BY <2>1, <2>3, InFieldForms DEF HeldInv, TagAsReported
    <3> QED BY <1>2, <2>1, <2>3, <3>1 DEF NoCard, HeldInv, TagAsReported
  <2> QED BY <2>2, <2>3
<1>3. CASE UNCHANGED <<tag, field, lastFrom>>
  BY <1>3 DEF HeldInv, TagAsReported
<1> QED BY <1>1, <1>2, <1>3 DEF SessionNext, Connect, Reconnect, NewSocket, Disconnect, Told, Opened,
            Closing, Closed, SendRequest, RequestTimeout, Answer, sessionVars

(* The tag a request without a target goes to is the last one reported,    *)
(* for as long as its reader is not said to be empty (client.ts, aimed and *)
(* handleMessage).                                                         *)
THEOREM AimIsLastReported == SessionSpec => []TagAsReported
<1>1. HeldInv => TagAsReported
  BY DEF HeldInv
<1> QED BY HeldStart, HeldStep, <1>1, PTL DEF SessionSpec

(* A client that has a socket did not mean to disconnect, has counted no   *)
(* more attempts than there were closes, and takes itself for connected    *)
(* only on a socket that has not closed.                                   *)
SocketTypes ==
    /\ sockets \in Seq(States) /\ ws \in 0 .. Len(sockets)
    /\ reconnectAttempts \in Nat /\ timers \in Nat /\ failures \in Nat
    /\ pendingRequests \in [Questions -> Nat]
    /\ reconnectAttempts <= failures

FlagInv ==
    /\ intentionalDisconnect \in BOOLEAN /\ connected \in BOOLEAN
    /\ ws # 0 => ~intentionalDisconnect
    /\ connected /\ ws # 0 => sockets[ws] # "closed"

SocketInv == SocketTypes /\ FlagInv /\ NoneOnTheDead /\ KeepsTrying

(* A client that never connected.                                          *)
LEMMA SocketStart == SessionInit => SocketInv
<1> SUFFICES ASSUME SessionInit PROVE SocketInv
  OBVIOUS
<1>1. sockets \in Seq(States) /\ Len(sockets) = 0 /\ ws = 0
  BY EmptySeq DEF SessionInit
<1>2. SocketTypes
  BY <1>1 DEF SessionInit, SocketTypes
<1>3. FlagInv
  BY <1>1 DEF SessionInit, FlagInv
<1>4. NoneOnTheDead /\ KeepsTrying
  BY <1>1 DEF SessionInit, NoneOnTheDead, KeepsTrying
<1> QED BY <1>2, <1>3, <1>4 DEF SocketInv

(* A socket changes its state.                                             *)
LEMMA SocketUpdate ==
    ASSUME NEW q \in Seq(States), NEW s \in 1 .. Len(q), NEW v \in States
    PROVE  /\ [q EXCEPT ![s] = v] \in Seq(States) /\ Len([q EXCEPT ![s] = v]) = Len(q)
           /\ [q EXCEPT ![s] = v][s] = v
           /\ \A i \in 1 .. Len(q) : i # s => [q EXCEPT ![s] = v][i] = q[i]
BY ExceptSeq, LenProperties

(* Every event of a socket, a timer or a caller keeps it.                  *)
LEMMA SocketStep == SocketInv /\ [SessionNext]_sessionVars => SocketInv'
<1> SUFFICES ASSUME SocketInv, [SessionNext]_sessionVars PROVE SocketInv'
  OBVIOUS
<1>a. /\ sockets \in Seq(States) /\ ws \in 0 .. Len(sockets) /\ Len(sockets) \in Nat
      /\ pendingRequests \in [Questions -> Nat] /\ SocketTypes /\ FlagInv /\ NoneOnTheDead /\ KeepsTrying
  BY LenProperties DEF SocketInv, SocketTypes
<1>1. CASE Connect \/ Reconnect
  <2>1. /\ NewSocket /\ timers' \in Nat
    BY <1>1, <1>a DEF Connect, Reconnect, SocketTypes
  <2>2. /\ sockets' \in Seq(States) /\ Len(sockets') = Len(sockets) + 1 /\ ws' = Len(sockets) + 1
        /\ sockets'[ws'] = "connecting"
    BY <1>a, <2>1, AppendProperties DEF NewSocket, States
  <2>3. SocketTypes'
    BY <1>a, <2>1, <2>2 DEF NewSocket, SocketTypes
  <2>4. FlagInv'
    BY <1>a, <2>1, <2>2 DEF NewSocket, FlagInv
  <2>5. NoneOnTheDead'
    BY <1>a, <2>1, <2>2 DEF NewSocket, NoneOnTheDead
  <2>6. KeepsTrying'
    BY <2>2 DEF KeepsTrying
  <2> QED BY <2>3, <2>4, <2>5, <2>6 DEF SocketInv
<1>2. CASE Disconnect
  <2>1. sockets' \in Seq(States) /\ Len(sockets') = Len(sockets)
    BY <1>2, <1>a, SocketUpdate DEF Disconnect, States
  <2>2. SocketTypes'
    BY <1>2, <1>a, <2>1 DEF Disconnect, NoneWaits, SocketTypes
  <2>3. FlagInv'
    BY <1>2 DEF Disconnect, FlagInv
  <2>4. NoneOnTheDead' /\ KeepsTrying'
    BY <1>2 DEF Disconnect, NoneWaits, NoneOnTheDead, KeepsTrying
  <2> QED BY <2>2, <2>3, <2>4 DEF SocketInv
<1>3. ASSUME NEW s \in 1 .. Len(sockets), Opened(s) \/ Closing(s) PROVE SocketInv'
  <2>1. PICK v \in {"open", "closing"} : sockets' = [sockets EXCEPT ![s] = v]
    BY <1>3 DEF Opened, Closing
  <2>2. /\ sockets' \in Seq(States) /\ Len(sockets') = Len(sockets) /\ sockets'[s] = v
        /\ \A i \in 1 .. Len(sockets) : i # s => sockets'[i] = sockets[i]
    BY <1>a, <2>1, SocketUpdate DEF States
  <2>3. ws # 0 /\ sockets'[ws] = "closed" => sockets[ws] = "closed" /\ s # ws
    BY <1>a, <2>1, <2>2
  <2>4. UNCHANGED <<ws, intentionalDisconnect, timers, pendingRequests>>
    BY <1>3 DEF Opened, Closing
  <2>5. \/ s = ws /\ connected' = TRUE /\ reconnectAttempts' = 0 /\ failures' = 0
        \/ UNCHANGED <<connected, reconnectAttempts, failures>>
    BY <1>3 DEF Opened, Closing
  <2>6. NoneOnTheDead'
    BY <1>a, <2>2, <2>3, <2>4 DEF NoneOnTheDead
  <2>7. KeepsTrying'
    BY <1>a, <2>2, <2>3, <2>4, <2>5 DEF KeepsTrying
  <2>8. SocketTypes'
    BY <1>a, <2>2, <2>4, <2>5 DEF SocketTypes
  <2>9. FlagInv'
    <3>1. CASE s = ws /\ connected' = TRUE
      BY <1>a, <2>3, <2>4, <3>1 DEF FlagInv
    <3>2. CASE connected' = connected
      <4>1. connected' => connected
        BY <3>2, Zenon
      <4>2. connected' \in BOOLEAN
        BY <1>a, <3>2, Zenon DEF FlagInv
      <4> QED BY <1>a, <2>3, <2>4, <4>1, <4>2 DEF FlagInv
    <3> QED BY <2>5, <3>1, <3>2
  <2> QED BY <2>6, <2>7, <2>8, <2>9 DEF SocketInv
<1>4. ASSUME NEW s \in 1 .. Len(sockets), Closed(s) PROVE SocketInv'
  <2>2. /\ sockets' \in Seq(States) /\ Len(sockets') = Len(sockets) /\ sockets'[s] = "closed"
        /\ \A i \in 1 .. Len(sockets) : i # s => sockets'[i] = sockets[i]
    BY <1>a, <1>4, SocketUpdate DEF Closed, States
  <2>3. UNCHANGED <<ws, intentionalDisconnect>>
    BY <1>4 DEF Closed
  <2>4. CASE s = ws
    <3>1. /\ connected' = FALSE /\ pendingRequests' = NoneWaits /\ ~intentionalDisconnect
          /\ failures' = IF failures > MaxAttempts THEN failures ELSE failures + 1
          /\ AttemptReconnect
      BY <1>a, <1>4, <2>4 DEF Closed, FlagInv
    <3>2. /\ reconnectAttempts' \in Nat /\ timers' \in Nat /\ failures' \in Nat
          /\ reconnectAttempts' <= failures' /\ (timers' > 0 \/ failures' > MaxAttempts)
      BY <1>a, <3>1, SessionAssumption DEF AttemptReconnect, SocketTypes
    <3>3. SocketTypes'
      BY <1>a, <2>2, <2>3, <3>1, <3>2 DEF SocketTypes, NoneWaits
    <3>4. FlagInv'
      BY <1>a, <2>3, <3>1 DEF FlagInv
    <3>5. NoneOnTheDead' /\ KeepsTrying'
      BY <3>1, <3>2 DEF NoneOnTheDead, KeepsTrying, NoneWaits
    <3> QED BY <3>3, <3>4, <3>5 DEF SocketInv
  <2>5. CASE s # ws
    <3>1. UNCHANGED <<connected, pendingRequests, failures, reconnectAttempts, timers>>
      BY <1>4, <2>5 DEF Closed
    <3>2. ws # 0 => sockets'[ws] = sockets[ws]
      BY <1>a, <2>2, <2>5
    <3>3. SocketTypes'
      BY <1>a, <2>2, <2>3, <3>1 DEF SocketTypes
    <3>4. FlagInv'
      BY <1>a, <2>3, <3>1, <3>2 DEF FlagInv
    <3>5. NoneOnTheDead' /\ KeepsTrying'
      BY <1>a, <2>3, <3>1, <3>2 DEF NoneOnTheDead, KeepsTrying
    <3> QED BY <3>3, <3>4, <3>5 DEF SocketInv
  <2> QED BY <2>4, <2>5
<1>5. ASSUME NEW q \in Questions, NEW named, SendRequest(q, named) PROVE SocketInv'
  <2>1. /\ ws # 0 /\ sockets[ws] # "closed" /\ pendingRequests' = [pendingRequests EXCEPT ![q] = ws]
        /\ UNCHANGED <<sockets, ws, connected, intentionalDisconnect, reconnectAttempts, timers, failures>>
    BY <1>a, <1>5 DEF SendRequest, FlagInv
  <2>2. SocketTypes' /\ FlagInv' /\ KeepsTrying'
    BY <1>a, <2>1 DEF SocketTypes, FlagInv, KeepsTrying
  <2>3. NoneOnTheDead'
    BY <1>a, <2>1 DEF NoneOnTheDead
  <2> QED BY <2>2, <2>3 DEF SocketInv
<1>6. ASSUME NEW q \in Questions, RequestTimeout(q) \/ Answer(q) PROVE SocketInv'
  <2>1. /\ pendingRequests' = [pendingRequests EXCEPT ![q] = 0]
        /\ UNCHANGED <<sockets, ws, connected, intentionalDisconnect, reconnectAttempts, timers, failures>>
    BY <1>6 DEF RequestTimeout, Answer
  <2>2. SocketTypes' /\ FlagInv' /\ KeepsTrying'
    BY <1>a, <2>1 DEF SocketTypes, FlagInv, KeepsTrying
  <2>3. NoneOnTheDead'
    BY <1>a, <2>1 DEF NoneOnTheDead
  <2> QED BY <2>2, <2>3 DEF SocketInv
<1>7. CASE Told \/ UNCHANGED sessionVars
  BY <1>7 DEF Told, sessionVars, SocketInv, SocketTypes, FlagInv, NoneOnTheDead, KeepsTrying
<1> QED BY <1>1, <1>2, <1>3, <1>4, <1>5, <1>6, <1>7 DEF SessionNext

(* What a drop leaves in flight fails with it, and the client tries again  *)
(* until its attempts are spent (client.ts, onclose, failPending and       *)
(* attemptReconnect).                                                      *)
THEOREM DropsAreHandled == SessionSpec => []DropIsHandled
<1>1. SocketInv => DropIsHandled
  BY DEF SocketInv, DropIsHandled
<1> QED BY SocketStart, SocketStep, <1>1, PTL DEF SessionSpec

-----------------------------------------------------------------------------
(* The phone's library.                                                    *)

(* No more attempts are counted than there were closes.                    *)
LinkInv ==
    /\ links \in Seq(Link) /\ tries \in Nat /\ retries \in Nat /\ drops \in Nat
    /\ tries <= drops
    /\ PhoneKeepsTrying

(* A phone that never connected.                                           *)
LEMMA LinkStart == DeviceInit => LinkInv
<1> SUFFICES ASSUME DeviceInit PROVE LinkInv
  OBVIOUS
<1>1. links \in Seq(Link) /\ links = << >>
  BY EmptySeq DEF DeviceInit
<1> QED BY <1>1 DEF DeviceInit, LinkInv, PhoneKeepsTrying

(* Every event of a socket or a timer keeps it.                            *)
LEMMA LinkStep == LinkInv /\ [DeviceNext]_deviceVars => LinkInv'
<1> SUFFICES ASSUME LinkInv, [DeviceNext]_deviceVars PROVE LinkInv'
  OBVIOUS
<1> DEFINE n == Len(links)
<1>a. /\ links \in Seq(Link) /\ n \in Nat /\ tries \in Nat /\ retries \in Nat /\ drops \in Nat
      /\ tries <= drops /\ PhoneKeepsTrying
      /\ links = << >> <=> n = 0
  BY LenProperties, EmptySeq DEF LinkInv
<1>b. links \in [1 .. n -> Link]
  BY <1>a, LenProperties
<1>1. CASE ConnectDevice \/ RetryDue
  <2>1. NewLink
    BY <1>1 DEF ConnectDevice, RetryDue
  <2>2. retries' \in Nat
    BY <1>1, <1>a DEF ConnectDevice, RetryDue
  <2>3. PICK v1 \in BOOLEAN :
            links' = Append(links, [state |-> "connecting", v1 |-> v1, hello |-> "none"])
    BY <2>1 DEF NewLink
  <2> DEFINE y == [state |-> "connecting", v1 |-> v1, hello |-> "none"]
  <2>4. y \in Link /\ y.state = "connecting" /\ links' = Append(links, y)
    BY <2>3 DEF Link
  <2> HIDE DEF y
  <2>5. links' \in Seq(Link) /\ Len(links') = n + 1 /\ links'[n + 1] = y
    BY <1>a, <2>4, AppendProperties
  <2>6. n + 1 \in 1 .. Len(links') /\ links'[n + 1].state # "closed"
    BY <1>a, <2>4, <2>5
  <2>7. PhoneKeepsTrying'
    BY <2>6 DEF PhoneKeepsTrying
  <2> QED BY <1>a, <2>1, <2>2, <2>5, <2>7 DEF NewLink, LinkInv
<1>2. CASE DisconnectDevice
  <2>1. links' \in [1 .. n -> Link]
    BY <1>2, <1>b DEF DisconnectDevice, Link
  <2>2. links' \in Seq(Link)
    BY <1>a, <2>1, FunctionIsSeq
  <2> QED BY <1>2, <1>a, <2>2 DEF DisconnectDevice, LinkInv, PhoneKeepsTrying
<1>3. ASSUME NEW s \in 1 .. n, LinkOpened(s) PROVE LinkInv'
  <2> DEFINE o == [links EXCEPT ![s].state = "open"]
  <2>1. o \in [1 .. n -> Link] /\ o[s].state = "open"
    BY <1>b DEF Link
  <2>2. links' = o \/ links' = [o EXCEPT ![link].hello = "asked"]
    BY <1>3 DEF LinkOpened
  <2> HIDE DEF o
  <2>3. links' \in [1 .. n -> Link] /\ links'[s].state = "open"
    BY <2>1, <2>2 DEF Link
  <2>4. links' \in Seq(Link) /\ Len(links') = n
    BY <1>a, <2>3, FunctionIsSeq
  <2>5. s \in 1 .. Len(links') /\ links'[s].state # "closed"
    BY <2>3, <2>4
  <2>6. PhoneKeepsTrying'
    BY <2>5 DEF PhoneKeepsTrying
  <2> QED BY <1>3, <1>a, <2>4, <2>6 DEF LinkOpened, LinkInv
<1>4. ASSUME NEW s \in 1 .. n, LinkClosing(s) PROVE LinkInv'
  <2>1. links' \in [1 .. n -> Link] /\ links'[s].state = "closing"
    BY <1>4, <1>b DEF LinkClosing, Link
  <2>2. links' \in Seq(Link) /\ Len(links') = n
    BY <1>a, <2>1, FunctionIsSeq
  <2>3. s \in 1 .. Len(links') /\ links'[s].state # "closed"
    BY <2>1, <2>2
  <2>4. PhoneKeepsTrying'
    BY <2>3 DEF PhoneKeepsTrying
  <2> QED BY <1>4, <1>a, <2>2, <2>4 DEF LinkClosing, LinkInv
<1>5. ASSUME NEW s \in 1 .. n, LinkClosed(s) PROVE LinkInv'
  <2>1. links' \in [1 .. n -> Link]
    BY <1>5, <1>b DEF LinkClosed, Link
  <2>2. links' \in Seq(Link)
    BY <1>a, <2>1, FunctionIsSeq
  <2>3. /\ tries' \in Nat /\ retries' \in Nat /\ drops' \in Nat /\ tries' <= drops'
        /\ ~leaving => retries' > 0 \/ drops' > MaxTries
    BY <1>5, <1>a, TriesOK DEF LinkClosed
  <2>4. PhoneKeepsTrying'
    BY <1>5, <2>3 DEF LinkClosed, PhoneKeepsTrying
  <2> QED BY <2>2, <2>3, <2>4 DEF LinkInv
<1>6. ASSUME NEW s \in 1 .. n, HelloAnswered(s) PROVE LinkInv'
  <2>1. links' \in [1 .. n -> Link] /\ \A i \in 1 .. n : links'[i].state = links[i].state
    BY <1>6, <1>b DEF HelloAnswered, Link
  <2>2. links' \in Seq(Link) /\ Len(links') = n
    BY <1>a, <2>1, FunctionIsSeq
  <2>3. links # << >> /\ UNCHANGED <<leaving, tries, retries, drops>>
    BY <1>6, <1>a DEF HelloAnswered
  <2>4. (\A i \in 1 .. Len(links') : links'[i].state = "closed") =>
            \A i \in 1 .. Len(links) : links[i].state = "closed"
    BY <2>1, <2>2
  <2>5. PhoneKeepsTrying'
    BY <1>a, <2>3, <2>4 DEF PhoneKeepsTrying
  <2> QED BY <1>a, <2>2, <2>3, <2>5 DEF LinkInv
<1>7. ASSUME NEW s, HelloTimeout(s) PROVE LinkInv'
  BY <1>7 DEF HelloTimeout, LinkInv, PhoneKeepsTrying
<1>8. CASE UNCHANGED deviceVars
  BY <1>8 DEF deviceVars, LinkInv, PhoneKeepsTrying
<1> QED BY <1>1, <1>2, <1>3, <1>4, <1>5, <1>6, <1>7, <1>8 DEF DeviceNext

(* A phone that has lost its last socket and did not mean to leave has a   *)
(* timer that opens another, until its attempts are spent                  *)
(* (nfc-device-client.js, onclose and _attemptReconnect).                  *)
THEOREM PhoneTriesAgain == DeviceSpec => []PhoneKeepsTrying
<1>1. LinkInv => PhoneKeepsTrying
  BY DEF LinkInv
<1> QED BY LinkStart, LinkStep, <1>1, PTL DEF DeviceSpec

-----------------------------------------------------------------------------
(* The sequences a phone is sent.                                          *)

(* Who sends has the slot of the Device it found, and a step in flight is  *)
(* one of those it has left.                                               *)
SlotInv ==
    /\ opSlot \in [Devs -> Sequences \cup {None}]
    /\ dev \in [Sequences -> Devs \cup {None}] /\ device \in [Ids -> Devs]
    /\ res \in [Sequences -> Ids \cup {None}] /\ latest \in Ids
    /\ at \in [Sequences -> {"new", "found", "waiting", "holding", "running", "done"}]
    /\ flight \in [Sequences \cup Singles -> Ids \cup {None}]
    /\ target \in [Sequences -> Ids \cup {None}] /\ asked \in [Sequences -> Ids \cup {None}]
    /\ left \in [Sequences -> Int]
    /\ \A s \in Sequences :
          /\ at[s] \in {"found"} => res[s] \in Ids
          /\ at[s] \in {"waiting", "holding", "running"} => dev[s] \in Devs
          /\ at[s] \in {"holding", "running"} => opSlot[dev[s]] = s
          /\ flight[s] # None => at[s] = "running" /\ left[s] # 0

(* No sequence has begun.                                                  *)
LEMMA SlotStart == Init => SlotInv
BY DEF Init, SlotInv

(* Every step of a sequence, and every registration, keeps it.             *)
LEMMA SlotStep == SlotInv /\ [Next]_vars => SlotInv'
<1> SUFFICES ASSUME SlotInv, [Next]_vars PROVE SlotInv'
  OBVIOUS
<1> USE DEF SlotInv, Goto
<1>1. ASSUME NEW i \in Ids, Scanned(i) \/ (\E d \in Devs : Reregister(i, d)) PROVE SlotInv'
  BY <1>1 DEF Scanned, Reregister
<1>2. ASSUME NEW s \in Sequences, NEW i \in Ids \cup {None}, Find(s, i) PROVE SlotInv'
  <2>1. Resolve(i) \in Ids
    BY DEF Resolve
  <2> QED BY <1>2, <2>1 DEF Find
<1>3. ASSUME NEW s \in Sequences, GetDevice(s) PROVE SlotInv'
  BY <1>3 DEF GetDevice
<1>4. ASSUME NEW s \in Sequences, TakeSlot(s) PROVE SlotInv'
  BY <1>4, NoneApart DEF TakeSlot
<1>5. ASSUME NEW s \in Sequences, GiveUp(s) PROVE SlotInv'
  BY <1>5 DEF GiveUp
<1>6. ASSUME NEW s \in Sequences, Begin(s) PROVE SlotInv'
  <2>1. Resolve(asked[s]) \in Ids
    BY DEF Resolve
  <2>2. PICK n \in 1 .. MaxSteps : left' = [left EXCEPT ![s] = n]
    BY <1>6 DEF Begin
  <2>3. n \in Int /\ n # 0
    BY <2>2
  <2> QED BY <1>6, <2>1, <2>2, <2>3 DEF Begin
<1>7. ASSUME NEW s \in Sequences, SendStep(s) PROVE SlotInv'
  BY <1>7 DEF SendStep
<1>8. ASSUME NEW s \in Sequences, StepDone(s) PROVE SlotInv'
  BY <1>8 DEF StepDone
<1>9. ASSUME NEW s \in Sequences, Finish(s) PROVE SlotInv'
  BY <1>9, NoneApart DEF Finish
<1>10. ASSUME NEW x \in Singles, (\E i \in Ids : SendSingle(x, i)) \/ SingleDone(x) PROVE SlotInv'
  BY <1>10, SinglesApart DEF SendSingle, SingleDone
<1>11. CASE UNCHANGED vars
  BY <1>11 DEF vars
<1> QED BY <1>1, <1>2, <1>3, <1>4, <1>5, <1>6, <1>7, <1>8, <1>9, <1>10, <1>11 DEF Next, Run

(* A sequence is not interleaved with another that has the same Device's   *)
(* slot (remotenfc/sequence.go:26-28): of two that send, each has the slot *)
(* of a Device of its own.                                                 *)
THEOREM SequencesTakeTurns == Spec => []SequencesApart
<1>1. SlotInv => SequencesApart
  BY NoneApart DEF SlotInv, SequencesApart
<1> QED BY SlotStart, SlotStep, <1>1, PTL DEF Spec

-----------------------------------------------------------------------------
(* The server's record of taps.                                            *)

(* Induction over numbers, without an operator to instantiate: what fails  *)
(* somewhere fails at a least number.                                      *)
LEMMA LeastNat ==
    ASSUME NEW S \in SUBSET Nat, S # {} PROVE \E x \in S : \A y \in S : x <= y
<1> DEFINE R == OpToRel(<, Nat)
<1>1. IsWellFoundedOn(R, Nat)
  BY NatLessThanWellFounded
<1>2. \A x, y \in Nat : y < x => <<y, x>> \in R
  BY DEF OpToRel
<1> HIDE DEF R
<1>3. PICK x \in S : \A y \in S : ~(<<y, x>> \in R)
  BY <1>1, WFMin
<1>4. ASSUME NEW y \in S PROVE x <= y
  <2>1. x \in Nat /\ y \in Nat
    OBVIOUS
  <2>2. <<y, x>> \notin R
    BY <1>3
  <2>3. ~(y < x)
    BY <1>2, <2>1, <2>2, Zenon
  <2> QED BY <2>1, <2>3
<1> QED BY <1>4

(* Sequences joined end to end are a sequence.                              *)
LEMMA Joined ==
    ASSUME NEW W, NEW seqs \in Seq(Seq(W))
    PROVE  FlattenSeq(seqs) \in Seq(W)
<1> DEFINE n == Len(seqs)
           Def(f, i) == IF i = 1 THEN seqs[i] ELSE f[i - 1] \o seqs[i]
           Joins(f, m) == f = [i \in 1 .. m |-> IF i = 1 THEN seqs[i] ELSE f[i - 1] \o seqs[i]]
           Possibly(m) == \E f : Joins(f, m)
<1>a. n \in Nat /\ \A i \in 1 .. n : seqs[i] \in Seq(W)
  BY LenProperties, ElementOfSeq
<1>1. CASE n = 0
  BY <1>1, EmptySeq DEF FlattenSeq
<1>2. CASE n # 0
  <2>0. Possibly(0)
    <3>1. Joins([i \in 1 .. 0 |-> << >>], 0)
      OBVIOUS
    <3> QED BY <3>1
  <2>1. ASSUME NEW m \in Nat \ {0}, Possibly(m - 1) PROVE Possibly(m)
    <3>1. PICK f : Joins(f, m - 1)
      BY <2>1
    <3> DEFINE g == [i \in 1 .. m |-> IF i = m THEN Def(f, m) ELSE f[i]]
    <3>2. ASSUME NEW i \in 1 .. m PROVE g[i] = Def(g, i)
      <4>1. CASE i = m
        BY <4>1
      <4>2. CASE i # m
        <5>1. i \in 1 .. m - 1
          BY <4>2
        <5>2. f[i] = Def(f, i)
          BY <3>1, <5>1
        <5>3. g[i] = f[i] /\ (i # 1 => g[i - 1] = f[i - 1])
          BY <4>2
        <5> QED BY <5>2, <5>3
      <4> QED BY <4>1, <4>2
    <3>3. g = [i \in 1 .. m |-> Def(g, i)]
      <4>1. g = [i \in 1 .. m |-> g[i]]
        OBVIOUS
      <4> HIDE DEF g
      <4> QED BY <3>2, <4>1
    <3> HIDE DEF g
    <3> QED BY <3>3
  <2> HIDE DEF Possibly
  <2>2. Possibly(n)
    <3> DEFINE Bad == {m \in Nat : ~Possibly(m)}
    <3> SUFFICES ASSUME Bad # {} PROVE FALSE
      BY <1>a
    <3>1. Bad \in SUBSET Nat
      OBVIOUS
    <3>2. PICK m \in Bad : \A k \in Bad : m <= k
      BY <3>1, LeastNat, Zenon
    <3>3. m \in Nat \ {0}
      BY <2>0, <3>2
    <3>4. m - 1 \in Nat /\ ~(m <= m - 1)
      BY <3>3
    <3>5. Possibly(m - 1)
      BY <3>2, <3>4
    <3> QED BY <2>1, <3>2, <3>3, <3>5
  <2> DEFINE f == CHOOSE h : h = [i \in 1 .. Len(seqs) |-> IF i = 1 THEN seqs[i] ELSE h[i - 1] \o seqs[i]]
  <2>3. FlattenSeq(seqs) = f[n]
    BY <1>2 DEF FlattenSeq
  <2>4. Joins(f, n)
    <3>1. \E h : h = [i \in 1 .. Len(seqs) |-> IF i = 1 THEN seqs[i] ELSE h[i - 1] \o seqs[i]]
      BY <2>2 DEF Possibly
    <3> QED BY <3>1, Zenon
  <2> HIDE DEF f
  <2>5. \A i \in 1 .. n : f[i] \in Seq(W)
    <3> DEFINE Bad == {i \in 1 .. n : f[i] \notin Seq(W)}
    <3> SUFFICES ASSUME Bad # {} PROVE FALSE
      OBVIOUS
    <3>1. Bad \in SUBSET Nat
      BY <1>a
    <3>2. PICK i \in Bad : \A k \in Bad : i <= k
      BY <3>1, LeastNat, Zenon
    <3>3. i \in 1 .. n /\ f[i] = Def(f, i)
      BY <2>4, <3>2
    <3>4. i # 1
      BY <1>a, <3>2, <3>3
    <3>5. i - 1 \in 1 .. n /\ ~(i <= i - 1)
      BY <1>a, <3>3, <3>4
    <3>6. f[i - 1] \in Seq(W)
      BY <3>2, <3>5
    <3>7. seqs[i] \in Seq(W) /\ f[i] = f[i - 1] \o seqs[i]
      BY <1>a, <3>3, <3>4
    <3>8. f[i] \in Seq(W)
      BY <3>6, <3>7, ConcatProperties
    <3> QED BY <3>2, <3>8
  <2>6. n \in 1 .. n
    BY <1>a, <1>2
  <2> QED BY <2>3, <2>5, <2>6
<1> QED BY <1>1, <1>2

(* The characters of a planned message: nothing in it looks like a mirror. *)
Chars == {"t"} \X (Words \cup {"0", "header"}) \X {0}

(* A word, a zero and a header are text.                                   *)
LEMMA CharForm == \A w \in Words \cup {"0", "header"} : T(w) \in Chars
BY DEF T, Chars

(* So is a single character.                                               *)
LEMMA OneChar == ASSUME NEW x \in Chars PROVE <<x>> \in Seq(Chars)
OBVIOUS

(* A placeholder's own characters.                                          *)
LEMMA ZerosForm ==
    ASSUME NEW n \in Int
    PROVE  Zeros(n) \in Seq(Chars) /\ Len(Zeros(n)) = IF n >= 0 THEN n ELSE 0
<1> DEFINE m == IF n >= 0 THEN n ELSE 0
<1>1. m \in Nat /\ 1 .. n = 1 .. m
  OBVIOUS
<1>2. Zeros(n) \in [1 .. m -> Chars]
  BY <1>1, CharForm DEF Zeros
<1> HIDE DEF m
<1>3. Zeros(n) \in Seq(Chars)
  BY <1>1, <1>2, SeqDef
<1>4. Len(Zeros(n)) = m
  BY <1>1, <1>2, <1>3, LenProperties
<1> QED BY <1>3, <1>4 DEF m

(* A placeholder is as wide as what the card mirrors there.                 *)
LEMMA WidthForm ==
    ASSUME NEW c \in Configurations, NEW name \in Placeholders
    PROVE  Width(name, c.opts) \in Nat /\ EncLength(c.opts) \in Nat
BY TemplateAssumption DEF Width, EncLength, piccWidth, Placeholders

(* The template laid out is text, and every placeholder has its place.      *)
LEMMA LaidOut ==
    ASSUME NEW c \in Configurations, NEW laid, laid = expandTemplate(c.tmpl, c.opts), laid # Refused
    PROVE  laid.text \in Seq(Chars) /\ \A name \in DOMAIN laid.pos : laid.pos[name] \in Nat
<1> DEFINE tmpl == c.tmpl
           parts == [i \in DOMAIN tmpl |->
                       IF tmpl[i][1] = "{" THEN Zeros(Width(tmpl[i][2], c.opts)) ELSE <<tmpl[i]>>]
           holes == {i \in DOMAIN tmpl : tmpl[i][1] = "{"}
           before(i) == Len(FlattenSeq(SubSeq(parts, 1, i - 1)))
           n == Len(tmpl)
<1>1. /\ laid.text = FlattenSeq(parts)
      /\ laid.pos = [name \in {tmpl[i][2] : i \in holes} |->
                       before(CHOOSE i \in holes : tmpl[i][2] = name)]
  BY DEF expandTemplate
<1>2. n \in Nat /\ DOMAIN tmpl = 1 .. n
  BY TemplateAssumption, LenProperties
<1>t. \A i \in 1 .. n : tmpl[i] \in ({"t"} \X Words \X {0}) \cup ({"{"} \X Placeholders \X {0})
  BY TemplateAssumption, ElementOfSeq
<1> HIDE DEF n
<1>3. ASSUME NEW i \in 1 .. n PROVE parts[i] \in Seq(Chars)
  <2>1. CASE tmpl[i] \in {"t"} \X Words \X {0}
    <3>1. tmpl[i] \in Chars /\ tmpl[i][1] # "{"
      BY <2>1 DEF Chars
    <3>2. parts[i] = <<tmpl[i]>>
      BY <1>2, <3>1
    <3> HIDE DEF parts
    <3> QED BY <3>1, <3>2, OneChar
  <2>2. CASE tmpl[i] \in {"{"} \X Placeholders \X {0}
    <3>1. tmpl[i][1] = "{" /\ tmpl[i][2] \in Placeholders
      BY <2>2
    <3>2. parts[i] = Zeros(Width(tmpl[i][2], c.opts))
      BY <1>2, <3>1
    <3>3. Width(tmpl[i][2], c.opts) \in Int
      <4>1. Width(tmpl[i][2], c.opts) \in Nat
        BY <3>1, WidthForm
      <4> HIDE DEF tmpl
      <4> QED BY <4>1
    <3>4. Zeros(Width(tmpl[i][2], c.opts)) \in Seq(Chars)
      BY <3>3, ZerosForm
    <3> HIDE DEF parts
    <3> QED BY <3>2, <3>4
  <2> QED BY <1>t, <2>1, <2>2
<1>4. parts \in [1 .. n -> Seq(Chars)]
  <2>1. parts = [i \in 1 .. n |-> parts[i]]
    BY <1>2
  <2> HIDE DEF parts
  <2> QED BY <1>3, <2>1
<1> HIDE DEF parts
<1>5. parts \in Seq(Seq(Chars)) /\ Len(parts) = n
  BY <1>2, <1>4, FunctionIsSeq
<1>6. ASSUME NEW i \in 1 .. n PROVE before(i) \in Nat
  <2>1. SubSeq(parts, 1, i - 1) \in Seq(Seq(Chars))
    <3>1. ASSUME NEW j \in 1 .. i - 1 PROVE parts[j] \in Seq(Chars)
      <4>1. j \in 1 .. n
        BY <1>2
      <4> QED BY <1>4, <4>1
    <3>2. 1 \in Int /\ i - 1 \in Int
      BY <1>2
    <3> QED BY <3>1, <3>2, SubSeqProperties
  <2>2. FlattenSeq(SubSeq(parts, 1, i - 1)) \in Seq(Chars)
    BY <2>1, Joined
  <2> QED BY <2>2, LenProperties
<1>7. laid.text \in Seq(Chars)
  <2>1. FlattenSeq(parts) \in Seq(Chars)
    BY <1>5, Joined
  <2> QED BY <1>1, <2>1
<1> HIDE DEF before
<1>8. ASSUME NEW name \in DOMAIN laid.pos PROVE laid.pos[name] \in Nat
  <2>1. \E i \in holes : tmpl[i][2] = name
    BY <1>1, <1>8
  <2>2. (CHOOSE i \in holes : tmpl[i][2] = name) \in holes
    BY <2>1
  <2>3. (CHOOSE i \in holes : tmpl[i][2] = name) \in 1 .. n
    BY <1>2, <2>2
  <2>4. laid.pos[name] = before(CHOOSE i \in holes : tmpl[i][2] = name)
    BY <1>1, <1>8
  <2> QED BY <1>6, <2>3, <2>4
<1> QED BY <1>7, <1>8

(* A scheme is as long as the text it begins, at most.                      *)
LEMMA SchemeForm ==
    ASSUME NEW W, NEW text \in Seq(W)
    PROVE  SchemeLen(text) \in 0 .. Len(text)
<1> DEFINE fits == {p \in schemes : IsPrefix(p, text)}
<1>1. \A p \in schemes : Len(p) \in 1 .. 2
  BY DEF schemes
<1>2. CASE fits = {}
  BY <1>2, LenProperties DEF SchemeLen
<1>3. CASE fits # {}
  <2>1. \A p \in fits : p \in schemes /\ Len(p) <= Len(text)
    BY DEF IsPrefix
  <2>2. \E p \in fits : \A q \in fits : Len(q) <= Len(p)
    <3>1. CASE \E p \in fits : Len(p) = 2
      BY <1>1, <2>1, <3>1
    <3>2. CASE ~\E p \in fits : Len(p) = 2
      <4>1. \A p \in fits : Len(p) = 1
        BY <1>1, <2>1, <3>2
      <4> QED BY <1>3, <4>1
    <3> QED BY <3>1, <3>2
  <2>3. SchemeLen(text) = Len(CHOOSE p \in fits : \A q \in fits : Len(q) <= Len(p))
    BY <1>3 DEF SchemeLen
  <2> HIDE DEF fits
  <2>4. (CHOOSE p \in fits : \A q \in fits : Len(q) <= Len(p)) \in fits
    BY <2>2
  <2>5. Len(text) \in Nat
    BY LenProperties
  <2> QED BY <1>1, <2>1, <2>3, <2>4, <2>5
<1> QED BY <1>2, <1>3

(* The places a card mirrors to are numbers.                               *)
Places(s) ==
    /\ s.uidAt \in Int /\ s.ctrAt \in Int /\ s.piccAt \in Int
    /\ s.macInAt \in Int /\ s.encAt \in Int /\ s.encLen \in Int /\ s.macAt \in Int

(* A plan's message is text that fits the file, and its places are numbers. *)
LEMMA PlanForm ==
    ASSUME NEW c \in Possible
    PROVE  /\ Plans[c].ndef \in Seq(Chars) /\ Len(Plans[c].ndef) <= NDEFFileSize
           /\ Plans[c].scheme \in Seq(Chars)
           /\ Places(Plans[c].settings)
<1> DEFINE opts == c.opts
           laid == expandTemplate(c.tmpl, opts)
           pos  == laid.pos
           text == laid.text
           skip == SchemeLen(text)
           body == SubSeq(text, skip + 1, Len(text))
           head == [i \in 1 .. 7 |-> T("header")]
           ndef == head \o body
           offsetOf(name) == 7 - skip + pos[name]
           picc  == "picc" \in DOMAIN pos
           enc   == "enc" \in DOMAIN pos
           s == Plans[c].settings
           plan0 == [ndef |-> ndef, scheme |-> SubSeq(text, 1, skip), lrp |-> opts.lrp,
              settings |-> [NoSettings EXCEPT
                !.meta = IF picc THEN opts.metaRead ELSE AccessFree,
                !.fileRead = opts.fileRead, !.change = opts.change,
                !.mirrorUID = TRUE, !.mirrorCtr = TRUE, !.ascii = TRUE,
                !.piccAt = IF picc THEN offsetOf("picc") ELSE 0,
                !.uidAt  = IF picc THEN 0 ELSE offsetOf("uid"),
                !.ctrAt  = IF picc THEN 0 ELSE offsetOf("ctr"),
                !.encrypt = enc,
                !.encAt  = IF enc THEN offsetOf("enc") ELSE 0,
                !.encLen = IF enc THEN EncLength(opts) ELSE 0,
                !.macInAt = IF enc THEN offsetOf("enc") ELSE offsetOf("mac"),
                !.macAt  = offsetOf("mac")]]
<1>1. c \in Configurations /\ Plans[c] = PlanSDM(c) /\ PlanSDM(c) # Refused
  BY DEF Possible, Plans
<1>2. PlanSDM(c) = IF laid = Refused THEN Refused
                   ELSE IF BadPlan(pos, opts) \/ Len(ndef) > NDEFFileSize THEN Refused
                   ELSE IF BadOrder(pos, opts) THEN Refused
                   ELSE plan0
  BY Zenon DEF PlanSDM
<1>3. /\ laid # Refused /\ ~BadPlan(pos, opts) /\ ~(Len(ndef) > NDEFFileSize)
      /\ Plans[c] = plan0
  <2> HIDE DEF laid, pos, opts, ndef, plan0
  <2> QED BY <1>1, <1>2
<1>s. /\ Plans[c].ndef = ndef
      /\ Plans[c].scheme = SubSeq(text, 1, skip)
      /\ s.piccAt = IF picc THEN offsetOf("picc") ELSE 0
      /\ s.uidAt  = IF picc THEN 0 ELSE offsetOf("uid")
      /\ s.ctrAt  = IF picc THEN 0 ELSE offsetOf("ctr")
      /\ s.encAt  = IF enc THEN offsetOf("enc") ELSE 0
      /\ s.encLen = IF enc THEN EncLength(opts) ELSE 0
      /\ s.macInAt = IF enc THEN offsetOf("enc") ELSE offsetOf("mac")
      /\ s.macAt  = offsetOf("mac")
  <2> DEFINE v1 == IF picc THEN opts.metaRead ELSE AccessFree
             v2 == opts.fileRead
             v3 == opts.change
             v4 == IF picc THEN offsetOf("picc") ELSE 0
             v5 == IF picc THEN 0 ELSE offsetOf("uid")
             v6 == IF picc THEN 0 ELSE offsetOf("ctr")
             v7 == IF enc THEN offsetOf("enc") ELSE 0
             v8 == IF enc THEN EncLength(opts) ELSE 0
             v9 == IF enc THEN offsetOf("enc") ELSE offsetOf("mac")
             v10 == offsetOf("mac")
             set0 == [NoSettings EXCEPT
                !.meta = v1, !.fileRead = v2, !.change = v3,
                !.mirrorUID = TRUE, !.mirrorCtr = TRUE, !.ascii = TRUE,
                !.piccAt = v4, !.uidAt = v5, !.ctrAt = v6, !.encrypt = enc,
                !.encAt = v7, !.encLen = v8, !.macInAt = v9, !.macAt = v10]
  <2> DEFINE w1 == SubSeq(text, 1, skip)
             w2 == opts.lrp
  <2>1. Plans[c] = [ndef |-> ndef, scheme |-> w1, lrp |-> w2, settings |-> set0]
    BY <1>3, Zenon
  <2> HIDE DEF w1, w2, v1, v2, v3, v4, v5, v6, v7, v8, v9, v10, ndef, text, skip, opts, pos, enc
  <2>2. /\ set0.piccAt = v4 /\ set0.uidAt = v5 /\ set0.ctrAt = v6 /\ set0.encAt = v7
        /\ set0.encLen = v8 /\ set0.macInAt = v9 /\ set0.macAt = v10
    BY DEF NoSettings
  <2> HIDE DEF set0, plan0
  <2>3. Plans[c].ndef = ndef /\ Plans[c].scheme = w1 /\ s = set0
    BY <2>1
  <2> HIDE DEF s
  <2>4. /\ s.piccAt = v4 /\ s.uidAt = v5 /\ s.ctrAt = v6 /\ s.encAt = v7
        /\ s.encLen = v8 /\ s.macInAt = v9 /\ s.macAt = v10
    BY <2>2, <2>3
  <2> QED BY <2>3, <2>4 DEF w1, v4, v5, v6, v7, v8, v9, v10, enc
<1>4. text \in Seq(Chars) /\ \A name \in DOMAIN pos : pos[name] \in Nat
  BY <1>1, <1>3, LaidOut
<1>5. "mac" \in DOMAIN pos /\ (~picc => "uid" \in DOMAIN pos /\ "ctr" \in DOMAIN pos)
  BY <1>3 DEF BadPlan
<1>6. EncLength(opts) \in Nat
  BY <1>1, WidthForm DEF Placeholders
<1> HIDE DEF opts, laid, pos, text, plan0
<1>7. skip \in 0 .. Len(text) /\ skip \in Int /\ Len(text) \in Nat
  BY <1>4, SchemeForm, LenProperties
<1>8. body \in Seq(Chars) /\ SubSeq(text, 1, skip) \in Seq(Chars)
  <2>1. \A i \in 1 .. Len(text) : text[i] \in Chars
    BY <1>4, ElementOfSeq
  <2> HIDE DEF skip
  <2>2. ASSUME NEW i \in skip + 1 .. Len(text) PROVE text[i] \in Chars
    BY <1>7, <2>1
  <2>3. ASSUME NEW i \in 1 .. skip PROVE text[i] \in Chars
    BY <1>7, <2>1
  <2>4. 1 \in Int /\ skip + 1 \in Int /\ skip \in Int /\ Len(text) \in Int
    BY <1>7
  <2>5. body \in Seq(Chars)
    BY <2>2, <2>4, SubSeqProperties
  <2>6. SubSeq(text, 1, skip) \in Seq(Chars)
    BY <2>3, <2>4, SubSeqProperties
  <2> QED BY <2>5, <2>6
<1>9. head \in Seq(Chars)
  <2>1. head \in [1 .. 7 -> Chars] /\ 7 \in Nat
    BY CharForm
  <2> HIDE DEF head
  <2> QED BY <2>1, FunctionIsSeq
<1> HIDE DEF skip, body, head
<1>10. ndef \in Seq(Chars)
  BY <1>8, <1>9, ConcatProperties
<1>11. Places(s)
  <2>1. \A name \in DOMAIN pos : offsetOf(name) \in Int
    BY <1>4, <1>7
  <2> HIDE DEF offsetOf, s
  <2> QED BY <1>s, <1>5, <1>6, <2>1 DEF Places
<1> HIDE DEF ndef, s
<1>12. Len(Plans[c].ndef) <= NDEFFileSize
  BY <1>3, <1>s, <1>10, LenProperties DEF NDEFFileSize
<1> QED BY <1>s, <1>8, <1>10, <1>11, <1>12 DEF s

(* A field that is there or is not.                                        *)
LEMMA PresentForm ==
    ASSUME NEW W, NEW flag, NEW v \in W
    PROVE  Present(flag, v) \in Seq(W)
BY EmptySeq DEF Present

(* So are the ones that arrive on the card.                                 *)
LEMMA SettingsForm ==
    ASSUME NEW d \in Possible, SettingsOf[d] # Refused
    PROVE  Places(SettingsOf[d])
<1> DEFINE p == Plans[d].settings
           b == Encode(p)
           f == b.flags
           fields == Present(f.mirrorUID /\ f.meta = AccessFree, "uidAt")
               \o Present(f.mirrorCtr /\ f.meta = AccessFree, "ctrAt")
               \o Present(f.meta <= 4, "piccAt")
               \o Present(f.fileRead # AccessNever, "macInAt")
               \o Present(f.encrypt, "encAt") \o Present(f.encrypt, "encLen")
               \o Present(f.fileRead # AccessNever, "macAt")
           place(k) == CHOOSE i \in DOMAIN fields : fields[i] = k
           s == SettingsOf[d]
           Field == {"uidAt", "ctrAt", "piccAt", "macInAt", "encAt", "encLen", "macAt"}
<1>1. b.offsets \in Seq(Int)
  <2>1. Places(p)
    BY PlanForm
  <2> HIDE DEF p
  <2> DEFINE o1 == Present(p.mirrorUID /\ p.meta = AccessFree, p.uidAt)
             o2 == Present(p.mirrorCtr /\ p.meta = AccessFree, p.ctrAt)
             o3 == Present(p.meta <= 4, p.piccAt)
             o4 == Present(p.fileRead # AccessNever, p.macInAt)
             o5 == Present(p.encrypt, p.encAt)
             o6 == Present(p.encrypt, p.encLen)
             o7 == Present(p.fileRead # AccessNever, p.macAt)
  <2>2. b.offsets = o1 \o o2 \o o3 \o o4 \o o5 \o o6 \o o7
    BY DEF Encode
  <2>3. /\ o1 \in Seq(Int) /\ o2 \in Seq(Int) /\ o3 \in Seq(Int) /\ o4 \in Seq(Int)
        /\ o5 \in Seq(Int) /\ o6 \in Seq(Int) /\ o7 \in Seq(Int)
    BY <2>1 DEF Present, Places
  <2> HIDE DEF b, o1, o2, o3, o4, o5, o6, o7
  <2>4. o1 \o o2 \o o3 \o o4 \o o5 \o o6 \o o7 \in Seq(Int)
    BY <2>3, ConcatProperties
  <2> QED BY <2>2, <2>4
<1>2. /\ Len(fields) = Len(b.offsets)
      /\ s = [k \in DOMAIN NoSettings |->
                IF k \in DOMAIN f THEN f[k]
                ELSE IF \E i \in DOMAIN fields : fields[i] = k THEN b.offsets[place(k)] ELSE NoSettings[k]]
  <2>1. SettingsOf[d] = ParseEncodedFileSettings(b)
    BY DEF SettingsOf
  <2> HIDE DEF b
  <2> QED BY <2>1 DEF ParseEncodedFileSettings
<1>3. fields \in Seq(Field)
  <2> DEFINE n1 == Present(f.mirrorUID /\ f.meta = AccessFree, "uidAt")
             n2 == Present(f.mirrorCtr /\ f.meta = AccessFree, "ctrAt")
             n3 == Present(f.meta <= 4, "piccAt")
             n4 == Present(f.fileRead # AccessNever, "macInAt")
             n5 == Present(f.encrypt, "encAt")
             n6 == Present(f.encrypt, "encLen")
             n7 == Present(f.fileRead # AccessNever, "macAt")
  <2> HIDE DEF b, f
  <2>1. /\ n1 \in Seq(Field) /\ n2 \in Seq(Field) /\ n3 \in Seq(Field) /\ n4 \in Seq(Field)
        /\ n5 \in Seq(Field) /\ n6 \in Seq(Field) /\ n7 \in Seq(Field)
    <3>1. /\ "uidAt" \in Field /\ "ctrAt" \in Field /\ "piccAt" \in Field /\ "macInAt" \in Field
          /\ "encAt" \in Field /\ "encLen" \in Field /\ "macAt" \in Field
      OBVIOUS
    <3> HIDE DEF Field
    <3> QED BY <3>1, PresentForm
  <2>2. fields = n1 \o n2 \o n3 \o n4 \o n5 \o n6 \o n7
    OBVIOUS
  <2> HIDE DEF fields, n1, n2, n3, n4, n5, n6, n7
  <2> QED BY <2>1, <2>2, ConcatProperties
<1>4. DOMAIN f = {"meta", "fileRead", "ctrRet", "change", "mirrorUID", "mirrorCtr", "encrypt", "ascii"}
  BY DEF Encode
<1> HIDE DEF b, f, fields, s
<1>5. ASSUME NEW k, \E i \in DOMAIN fields : fields[i] = k PROVE b.offsets[place(k)] \in Int
  <2>1. place(k) \in DOMAIN fields
    BY <1>5
  <2> HIDE DEF place
  <2>2. place(k) \in 1 .. Len(b.offsets)
    BY <1>2, <1>3, <2>1, LenProperties
  <2> QED BY <1>1, <2>2, ElementOfSeq
<1> HIDE DEF place
<1>6. ASSUME NEW k \in Field PROVE s[k] \in Int
  <2>1. k \in DOMAIN NoSettings /\ NoSettings[k] \in Int
    BY DEF NoSettings
  <2>2. k \notin DOMAIN f
    BY <1>4
  <2> QED BY <1>2, <1>5, <2>1, <2>2
<1>7. Places(s)
  BY <1>6 DEF Places
<1> QED BY <1>7 DEF s

(* A character mirrored as a MAC is one of a MAC over this counter.        *)
Tells(x, ctr) == x[1] = "mac" => x[2].ctr = ctr

(* Text tells no MAC.                                                      *)
LEMMA CharsTell == ASSUME NEW x \in Chars, NEW ctr PROVE Tells(x, ctr)
BY DEF Chars, Tells

(* What a read gives is as long as the file.                               *)
Shown(f, ctr) == DOMAIN f = 1 .. NDEFFileSize /\ \A i \in 1 .. NDEFFileSize : Tells(f[i], ctr)

(* A mirror put into what is shown leaves it so.                           *)
LEMMA PutTells ==
    ASSUME NEW out, NEW ctr, Shown(out, ctr),
           NEW start \in Int, NEW kind, NEW v, NEW width \in Int,
           kind = "mac" => v.ctr = ctr
    PROVE  Shown(Put(out, start, Digits(kind, v, width)), ctr)
<1> DEFINE text == Digits(kind, v, width)
           m == IF width >= 0 THEN width ELSE 0
           V == {<<kind, v, i>> : i \in Int}
           r == Put(out, start, text)
<1>1. m \in Nat /\ 1 .. width = 1 .. m
  OBVIOUS
<1>2. text \in [1 .. m -> V] /\ \A i \in 1 .. m : text[i] = <<kind, v, i>>
  BY <1>1 DEF Digits
<1> HIDE DEF m, V, text
<1>3. Len(text) = m
  BY <1>1, <1>2, FunctionIsSeq
<1>4. r = [i \in DOMAIN out |->
              IF i \in start + 1 .. start + Len(text) THEN text[i - start] ELSE out[i]]
  BY DEF Put
<1> HIDE DEF r
<1>5. ASSUME NEW i \in DOMAIN out PROVE Tells(r[i], ctr)
  <2>1. CASE i \in start + 1 .. start + Len(text)
    <3>1. i - start \in 1 .. m
      BY <1>1, <1>3, <2>1
    <3>2. r[i] = <<kind, v, i - start>>
      BY <1>2, <1>4, <2>1, <3>1
    <3> QED BY <3>2 DEF Tells
  <2>2. CASE i \notin start + 1 .. start + Len(text)
    <3>1. r[i] = out[i]
      BY <1>4, <2>2
    <3> QED BY <3>1 DEF Shown
  <2> QED BY <2>1, <2>2
<1> QED BY <1>4, <1>5 DEF Shown, r, text

(* A read of any plan's message under any settings that fit.               *)
LEMMA ViewTells ==
    ASSUME NEW c \in Possible, NEW d \in Possible, SettingsOf[d] # Refused, NEW ctr
    PROVE  Shown(View(Plans[c], SettingsOf[d], ctr), ctr)
<1> DEFINE p == Plans[c]
           s == SettingsOf[d]
           pad == Zeros(NDEFFileSize - Len(p.ndef))
           file == p.ndef \o pad
           w == piccWidth(LRPCard)
           pv == [key |-> s.meta, uid |-> UID, ctr |-> ctr, lrp |-> LRPCard]
           mid == Put(file, s.uidAt, Digits("uid", UID, 14))
           picc == IF s.meta <= 4 THEN Put(file, s.piccAt, Digits("picc", pv, w))
                   ELSE Put(mid, s.ctrAt, Digits("ctr", ctr, 6))
           ev == [key |-> s.fileRead, ctr |-> ctr,
                  plain |-> SubSeq(picc, s.encAt + 1, s.encAt + (s.encLen \div 2))]
           enc == IF ~s.encrypt THEN picc ELSE Put(picc, s.encAt, Digits("enc", ev, s.encLen))
           mac == [key |-> s.fileRead, uid |-> UID, ctr |-> ctr, lrp |-> LRPCard,
                   input |-> SubSeq(enc, s.macInAt + 1, s.macAt)]
<1>1. View(Plans[c], SettingsOf[d], ctr) = Put(enc, s.macAt, Digits("mac", mac, 16))
  BY Zenon DEF View
<1>2. Places(s) /\ w \in Int
  BY SettingsForm DEF piccWidth
<1>3. mac.ctr = ctr
  OBVIOUS
<1>4. Shown(file, ctr)
  <2>1. p.ndef \in Seq(Chars) /\ Len(p.ndef) \in Nat /\ Len(p.ndef) <= NDEFFileSize
    BY PlanForm, LenProperties
  <2> HIDE DEF p
  <2>2. pad \in Seq(Chars) /\ Len(pad) = NDEFFileSize - Len(p.ndef)
    <3> DEFINE k == NDEFFileSize - Len(p.ndef)
    <3>1. k \in Int /\ k >= 0
      BY <2>1 DEF NDEFFileSize
    <3> HIDE DEF k
    <3>2. Zeros(k) \in Seq(Chars) /\ Len(Zeros(k)) = k
      BY <3>1, ZerosForm
    <3> QED BY <3>2 DEF k
  <2> HIDE DEF pad
  <2>3. file \in Seq(Chars) /\ Len(file) = NDEFFileSize
    BY <2>1, <2>2, ConcatProperties DEF NDEFFileSize
  <2> HIDE DEF file
  <2>4. DOMAIN file = 1 .. NDEFFileSize /\ \A i \in 1 .. NDEFFileSize : file[i] \in Chars
    BY <2>3, LenProperties, ElementOfSeq
  <2> QED BY <2>4, CharsTell DEF Shown
<1> HIDE DEF file, s, p, w, pv, ev, mac
<1>6. Shown(picc, ctr)
  <2>1. Shown(Put(file, s.piccAt, Digits("picc", pv, w)), ctr)
    BY <1>2, <1>4, PutTells DEF Places
  <2>2. Shown(mid, ctr)
    BY <1>2, <1>4, PutTells DEF Places
  <2> HIDE DEF mid
  <2>3. Shown(Put(mid, s.ctrAt, Digits("ctr", ctr, 6)), ctr)
    BY <1>2, <2>2, PutTells DEF Places
  <2> QED BY <2>1, <2>3
<1> HIDE DEF picc
<1>7. Shown(enc, ctr)
  <2>1. Shown(Put(picc, s.encAt, Digits("enc", ev, s.encLen)), ctr)
    BY <1>2, <1>6, PutTells DEF Places
  <2> QED BY <1>6, <2>1
<1> HIDE DEF enc
<1>8. Shown(Put(enc, s.macAt, Digits("mac", mac, 16)), ctr)
  BY <1>2, <1>3, <1>7, PutTells DEF Places
<1> QED BY <1>1, <1>8

(* A text of such characters.                                               *)
TextOf(q, ctr) == \E W : q \in Seq(W) /\ \A x \in W : Tells(x, ctr)

(* So is a part of it.                                                     *)
LEMMA PartOfText ==
    ASSUME NEW q, NEW ctr, TextOf(q, ctr), NEW m \in Nat \ {0}, NEW n \in Int, n <= Len(q)
    PROVE  TextOf(SubSeq(q, m, n), ctr)
<1>1. PICK W : q \in Seq(W) /\ \A x \in W : Tells(x, ctr)
  BY DEF TextOf
<1>2. \A i \in m .. n : q[i] \in W
  BY <1>1, ElementOfSeq, LenProperties
<1>3. SubSeq(q, m, n) \in Seq(W)
  BY <1>2, SubSeqProperties
<1> QED BY <1>1, <1>3 DEF TextOf

(* The URL a phone reads under any plan and any settings.                   *)
LEMMA URLTells ==
    ASSUME NEW c \in Possible, NEW d \in Possible, SettingsOf[d] # Refused, NEW ctr
    PROVE  TextOf(URLOf(Plans[c], SettingsOf[d], ctr), ctr)
<1> DEFINE p == Plans[c]
           v == View(p, SettingsOf[d], ctr)
           n == Len(p.ndef)
           W == Chars \cup {v[i] : i \in 1 .. NDEFFileSize}
           shown == SubSeq(v, 8, n)
<1>1. \A i \in 1 .. NDEFFileSize : Tells(v[i], ctr)
  BY ViewTells DEF Shown
<1>2. /\ n \in Nat /\ n <= NDEFFileSize /\ p.scheme \in Seq(Chars)
  BY PlanForm, LenProperties
<1>3. URLOf(Plans[c], SettingsOf[d], ctr) = p.scheme \o shown
  BY Zenon DEF URLOf
<1> HIDE DEF v, p, n
<1>4. \A x \in W : Tells(x, ctr)
  BY <1>1, CharsTell
<1>5. ASSUME NEW i \in 8 .. n PROVE v[i] \in W
  <2>1. i \in 1 .. NDEFFileSize
    BY <1>2 DEF NDEFFileSize
  <2> QED BY <2>1
<1>6. p.scheme \in Seq(W)
  BY <1>2, SeqMonotonic
<1> HIDE DEF W
<1>7. shown \in Seq(W)
  BY <1>2, <1>5, SubSeqProperties
<1> HIDE DEF shown
<1>8. p.scheme \o shown \in Seq(W)
  BY <1>6, <1>7, ConcatProperties
<1> QED BY <1>3, <1>4, <1>8 DEF TextOf

(* Where a character is found first, or just after the end.                 *)
LEMMA IndexForm ==
    ASSUME NEW W, NEW q \in Seq(W), NEW token
    PROVE  IndexFrom(q, token) \in 1 .. Len(q) + 1
<1> DEFINE hits == {i \in DOMAIN q : q[i] = T(token)}
<1>1. Len(q) \in Nat /\ DOMAIN q = 1 .. Len(q)
  BY LenProperties
<1>2. CASE hits = {}
  BY <1>1, <1>2 DEF IndexFrom
<1>3. CASE hits # {}
  <2>1. hits \in SUBSET Nat /\ hits \subseteq 1 .. Len(q)
    BY <1>1
  <2>2. IndexFrom(q, token) = CHOOSE i \in hits : \A j \in hits : i <= j
    BY <1>3 DEF IndexFrom
  <2> HIDE DEF hits
  <2>3. \E i \in hits : \A j \in hits : i <= j
    BY <1>3, <2>1, LeastNat
  <2>4. (CHOOSE i \in hits : \A j \in hits : i <= j) \in hits
    BY <2>3
  <2>5. IndexFrom(q, token) \in 1 .. Len(q)
    BY <2>1, <2>2, <2>4
  <2> QED BY <1>1, <2>5
<1> QED BY <1>2, <1>3

(* Where a value is found is a place in the text.                          *)
LEMMA OffsetForm ==
    ASSUME NEW W, NEW raw \in Seq(W), NEW name
    PROVE  valueOffset(raw, <<name>>) \in Nat
<1> DEFINE names == <<name>>
           starts == ValueStarts(raw, name)
           there == {k \in DOMAIN names : ValueStarts(raw, names[k]) # {}}
           k == CHOOSE j \in there : \A l \in there : j <= l
<1>1. starts \in SUBSET Nat
  BY LenProperties DEF ValueStarts
<1>2. DOMAIN names = {1} /\ names[1] = name
  OBVIOUS
<1>3. CASE starts = {}
  <2>1. there = {}
    BY <1>2, <1>3
  <2> QED BY <2>1 DEF valueOffset
<1>4. CASE starts # {}
  <2>1. there = {1}
    BY <1>2, <1>4
  <2>2. valueOffset(raw, names) = CHOOSE i \in ValueStarts(raw, names[k]) :
                                     \A j \in ValueStarts(raw, names[k]) : i <= j
    BY <2>1 DEF valueOffset
  <2> HIDE DEF there
  <2>3. k = 1
    BY <2>1
  <2> HIDE DEF k
  <2>4. valueOffset(raw, names) = CHOOSE i \in starts : \A j \in starts : i <= j
    BY <1>2, <2>2, <2>3
  <2> HIDE DEF starts
  <2>5. \E i \in starts : \A j \in starts : i <= j
    BY <1>1, <1>4, LeastNat
  <2>6. (CHOOSE i \in starts : \A j \in starts : i <= j) \in starts
    BY <2>5
  <2> QED BY <1>1, <2>4, <2>6
<1> QED BY <1>3, <1>4

(* What a URL is taken for is one of its characters.                        *)
LEMMA ValueTells ==
    ASSUME NEW raw, NEW ctr, TextOf(raw, ctr), NEW start \in Nat \ {0}
    PROVE  TextOf(ValueAt(raw, start), ctr)
<1> DEFINE rest == SubSeq(raw, start, Len(raw))
<1>1. Len(raw) \in Nat
  BY LenProperties DEF TextOf
<1>2. TextOf(rest, ctr)
  BY <1>1, PartOfText
<1> HIDE DEF rest
<1>3. IndexFrom(rest, "&") \in 1 .. Len(rest) + 1 /\ Len(rest) \in Nat
  BY <1>2, IndexForm, LenProperties DEF TextOf
<1>4. IndexFrom(rest, "&") - 1 \in Int /\ IndexFrom(rest, "&") - 1 <= Len(rest)
  BY <1>3
<1>5. TextOf(SubSeq(rest, 1, IndexFrom(rest, "&") - 1), ctr)
  BY <1>2, <1>4, PartOfText
<1> QED BY <1>5 DEF ValueAt, rest

(* A MAC found in a URL is over the counter of the read it is from.        *)
LEMMA ParamTells ==
    ASSUME NEW raw, NEW ctr, TextOf(raw, ctr), NEW names,
           hexParam(raw, names, "mac", {16})[1] = "value"
    PROVE  hexParam(raw, names, "mac", {16})[2].ctr = ctr
<1> DEFINE value(k) == IF valueOffset(raw, <<names[k]>>) = 0 THEN << >>
                       ELSE ValueAt(raw, valueOffset(raw, <<names[k]>>))
           there == {k \in DOMAIN names : value(k) # << >>}
           text == value(CHOOSE j \in there : \A l \in there : j <= l)
           Right == /\ there # {} /\ Len(text) \in {16} /\ text[1][1] = "mac"
                    /\ \A i \in DOMAIN text : text[i] = <<"mac", text[1][2], i>>
<1>1. hexParam(raw, names, "mac", {16}) =
          CASE there = {} -> <<"none">>
            [] Right -> <<"value", text[1][2]>>
            [] OTHER -> <<"bad">>
  BY Zenon DEF hexParam
<1>2. \A k : TextOf(value(k), ctr)
  <2> SUFFICES ASSUME NEW k PROVE TextOf(value(k), ctr)
    OBVIOUS
  <2>1. valueOffset(raw, <<names[k]>>) \in Nat
    BY OffsetForm DEF TextOf
  <2>2. TextOf(<< >>, ctr)
    BY EmptySeq DEF TextOf
  <2> QED BY <2>1, <2>2, ValueTells
<1>3. TextOf(text, ctr)
  BY <1>2
<1> HIDE DEF value
<1>4. Right /\ hexParam(raw, names, "mac", {16}) = <<"value", text[1][2]>>
  <2>1. there = {} => ~Right
    OBVIOUS
  <2> HIDE DEF there, text, Right
  <2>2. CASE Right
    BY <1>1, <2>1, <2>2
  <2>3. CASE there = {}
    BY <1>1, <2>1, <2>3
  <2>4. CASE ~Right /\ there # {}
    BY <1>1, <2>4
  <2> QED BY <2>2, <2>3, <2>4
<1>5. Len(text) = 16 /\ text[1][1] = "mac"
  BY <1>4
<1> HIDE DEF text, there
<1>6. Tells(text[1], ctr)
  <2>1. PICK W : text \in Seq(W) /\ \A x \in W : Tells(x, ctr)
    BY <1>3 DEF TextOf
  <2>2. 1 \in 1 .. Len(text)
    BY <1>5
  <2>3. text[1] \in W
    BY <2>1, <2>2, ElementOfSeq
  <2> QED BY <2>1, <2>3
<1> QED BY <1>4, <1>5, <1>6 DEF Tells

(* The counter that verification reports is the MAC's.                      *)
LEMMA VerifyTells ==
    ASSUME NEW url, NEW ctr, TextOf(url, ctr), NEW keys, NEW names,
           VerifyURLWith(url, keys, names) # Refused
    PROVE  VerifyURLWith(url, keys, names).ctr = ctr
<1> DEFINE raw  == RawQuery(url)
           mac  == hexParam(raw, names.mac, "mac", {16})
           picc == hexParam(raw, names.picc, "picc", {piccWidth(keys.lrp)})
           uid  == hexParam(raw, names.uid, "uid", {14})
           rctr  == hexParam(raw, names.ctr, "ctr", {6})
           enc  == hexParam(raw, names.enc, "enc", {32 * n : n \in 1 .. 7})
           said == CASE picc[1] = "bad" -> Refused
                     [] picc[1] = "value" ->
                       IF picc[2].key = keys.metaRead THEN [uid |-> picc[2].uid, ctr |-> picc[2].ctr]
                       ELSE Refused
                     [] uid[1] = "value" /\ rctr[1] = "value" -> [uid |-> uid[2], ctr |-> rctr[2]]
                     [] OTHER -> Refused
           input == macInput(raw, names, enc)
<1>1. VerifyURLWith(url, keys, names) =
          IF mac[1] # "value" \/ said = Refused \/ enc[1] = "bad" THEN Refused
          ELSE IF mac[2] = [key |-> keys.fileRead, uid |-> said.uid, ctr |-> said.ctr,
                            lrp |-> keys.lrp, input |-> input]
               THEN said ELSE Refused
  BY Zenon DEF VerifyURLWith
<1>2. TextOf(raw, ctr)
  <2>1. IndexFrom(url, "?") \in 1 .. Len(url) + 1 /\ Len(url) \in Nat
    BY IndexForm, LenProperties DEF TextOf
  <2>2. IndexFrom(url, "?") + 1 \in Nat \ {0} /\ Len(url) <= Len(url) /\ Len(url) \in Int
    BY <2>1
  <2> QED BY <2>2, PartOfText DEF RawQuery
<1> HIDE DEF raw, input
<1>3. mac[1] = "value" => mac[2].ctr = ctr
  BY <1>2, ParamTells
<1> HIDE DEF said, mac, enc
<1>4. /\ mac[1] = "value" /\ VerifyURLWith(url, keys, names) = said
      /\ mac[2] = [key |-> keys.fileRead, uid |-> said.uid, ctr |-> said.ctr,
                   lrp |-> keys.lrp, input |-> input]
  BY <1>1
<1>5. mac[2].ctr = said.ctr
  BY <1>4
<1> QED BY <1>3, <1>4, <1>5

(* A tap that verifies tells the counter its read was given, whatever plan  *)
(* and settings the card had.                                               *)
LEMMA TapsTellTheirRead ==
    ASSUME NEW c \in Possible, NEW d \in Possible, SettingsOf[d] # Refused,
           NEW ctr \in 0 .. MaxCounter, TapOf[c][d][ctr] # Refused
    PROVE  TapOf[c][d][ctr].ctr = ctr
<1>1. TapOf[c][d][ctr] =
          VerifyURLWith(URLOf(Plans[c], SettingsOf[d], ctr), KeysOf(Plans[c]), planNames(Plans[c]))
  BY DEF TapOf
<1>2. TextOf(URLOf(Plans[c], SettingsOf[d], ctr), ctr)
  BY URLTells
<1> QED BY <1>1, <1>2, VerifyTells

(* The server's record of taps: a counter is accepted above all before it, *)
(* and every counter on its way there was given to a read.                 *)
UsesInv ==
    /\ plan \in Possible \cup {Refused}
    /\ stage = "written" => plan \in Possible
    /\ settings # Refused => settings \in Possible /\ SettingsOf[settings] # Refused
    /\ counter \in 0 .. MaxCounter /\ current \in 0 .. MaxCounter

TakenInv ==
    /\ \A url \in urls : url.ctr \in 0 .. MaxCounter /\ (url.tap # Refused => url.tap.ctr = url.ctr)
    /\ DOMAIN pending = {1, 2}
    /\ \A c \in {1, 2} : pending[c] # Refused => \E url \in urls : url.ctr = pending[c].ctr
    /\ last \in Int /\ accepted \in Seq(Nat)
    /\ \A i \in DOMAIN accepted : accepted[i] <= last
    /\ FreshOnce

SunInv == UsesInv /\ TakenInv

(* A card that was never configured, and an empty store.                   *)
LEMMA SunStart == SunInit => SunInv
<1> SUFFICES ASSUME SunInit PROVE SunInv
  OBVIOUS
<1>1. accepted \in Seq(Nat) /\ DOMAIN accepted = {} /\ Len(accepted) = 0
  BY EmptySeq, LenProperties DEF SunInit
<1> QED BY <1>1, SunAssumption DEF SunInit, SunInv, UsesInv, TakenInv, FreshOnce

(* Every step of the card and of the server keeps it.                      *)
LEMMA SunStep == SunInv /\ [SunNext]_sunVars => SunInv'
<1> SUFFICES ASSUME SunInv, [SunNext]_sunVars PROVE SunInv'
  OBVIOUS
<1> USE DEF SunInv
<1>1. ASSUME NEW c \in Configurations, WriteNDEF(c) PROVE SunInv'
  BY <1>1 DEF WriteNDEF, serverVars, UsesInv, TakenInv, FreshOnce
<1>2. CASE ChangeFileSettings \/ LeaveOff \/ Select
  BY <1>2 DEF ChangeFileSettings, LeaveOff, Select, serverVars, UsesInv, TakenInv, FreshOnce
<1>3. CASE Read
  <2> DEFINE ctr == IF counted THEN current ELSE counter
             tap == TapOf[plan][settings][ctr]
             url0 == [ctr |-> ctr, tap |-> tap]
  <2>1. /\ plan \in Possible /\ settings \in Possible /\ SettingsOf[settings] # Refused
        /\ ctr \in 0 .. MaxCounter
    BY <1>3 DEF Read, UsesInv
  <2>2. tap # Refused => tap.ctr = ctr
    BY <2>1, TapsTellTheirRead
  <2>3. urls' = urls \cup {url0}
    BY <1>3 DEF Read
  <2>4. UsesInv'
    BY <1>3, <2>1, SunAssumption DEF Read, serverVars, UsesInv
  <2> HIDE DEF ctr, tap
  <2>5. url0.ctr = ctr /\ url0.tap = tap
    OBVIOUS
  <2> HIDE DEF url0
  <2>6. UNCHANGED <<pending, last, accepted>>
    BY <1>3 DEF Read, serverVars
  <2>7. TakenInv'
    BY <2>1, <2>2, <2>3, <2>5, <2>6 DEF TakenInv, FreshOnce
  <2> QED BY <2>4, <2>7
<1>4. ASSUME NEW c \in 1 .. 2, NEW url \in urls, VerifyURLFresh(c, url) PROVE SunInv'
  <2>1. UsesInv'
    BY <1>4 DEF VerifyURLFresh, cardVars, UsesInv
  <2>2. /\ url.tap # Refused /\ pending' = [pending EXCEPT ![c] = url.tap]
        /\ UNCHANGED <<urls, last, accepted>>
    BY <1>4 DEF VerifyURLFresh
  <2>3. url.tap.ctr = url.ctr
    BY <2>2 DEF TakenInv
  <2>4. TakenInv'
    BY <2>2, <2>3 DEF TakenInv, FreshOnce
  <2> QED BY <2>1, <2>4
<1>5. ASSUME NEW c \in 1 .. 2, Seen(c) PROVE SunInv'
  <2> DEFINE k == pending[c].ctr
  <2>1. UsesInv'
    BY <1>5 DEF Seen, cardVars, UsesInv
  <2>2. UNCHANGED urls /\ pending' = [pending EXCEPT ![c] = Refused] /\ pending[c] # Refused
    BY <1>5 DEF Seen
  <2>3. PICK url \in urls : url.ctr = k /\ k \in Nat
    BY <2>2, SunAssumption DEF TakenInv
  <2>4. CASE k <= last
    <3>1. UNCHANGED <<last, accepted>>
      BY <1>5, <2>4 DEF Seen
    <3>2. TakenInv'
      BY <2>2, <3>1 DEF TakenInv, FreshOnce
    <3> QED BY <2>1, <3>2
  <2>5. CASE ~(k <= last)
    <3>1. last' = k /\ accepted' = Append(accepted, k)
      BY <1>5, <2>5 DEF Seen
    <3> DEFINE n == Len(accepted)
    <3>2. accepted \in Seq(Nat) /\ n \in Nat /\ DOMAIN accepted = 1 .. n /\ last \in Int
      BY LenProperties DEF TakenInv
    <3> HIDE DEF k
    <3>3. /\ accepted' \in Seq(Nat) /\ Len(accepted') = n + 1 /\ accepted'[n + 1] = k
          /\ \A i \in 1 .. n : accepted'[i] = accepted[i]
      BY <2>3, <3>1, <3>2, AppendProperties
    <3>4. DOMAIN accepted' = 1 .. n + 1
      BY <3>3, LenProperties
    <3> HIDE DEF n
    <3>5. \A i \in 1 .. n : accepted[i] \in Nat /\ accepted[i] <= last /\ last < k
      <4>1. \A i \in 1 .. n : accepted[i] \in Nat
        BY <3>2, ElementOfSeq DEF n
      <4>2. \A i \in 1 .. n : accepted[i] <= last
        BY <3>2 DEF TakenInv
      <4>3. last < k
        BY <2>3, <2>5, <3>2
      <4> QED BY <4>1, <4>2, <4>3
    <3>6. \A i \in DOMAIN accepted' : accepted'[i] <= last'
      <4> SUFFICES ASSUME NEW i \in 1 .. n + 1 PROVE accepted'[i] <= last'
        BY <3>4
      <4>1. CASE i = n + 1
        BY <2>3, <3>1, <3>3, <4>1
      <4>2. CASE i \in 1 .. n
        BY <2>3, <3>1, <3>2, <3>3, <3>5, <4>2
      <4> QED BY <3>2, <4>1, <4>2
    <3>7. \A i, j \in DOMAIN accepted' : i < j => accepted'[i] < accepted'[j]
      <4> SUFFICES ASSUME NEW i \in 1 .. n + 1, NEW j \in 1 .. n + 1, i < j
                   PROVE  accepted'[i] < accepted'[j]
        BY <3>4
      <4>1. i \in 1 .. n
        BY <3>2
      <4>2. CASE j = n + 1
        BY <2>3, <3>2, <3>3, <3>5, <4>1, <4>2
      <4>3. CASE j \in 1 .. n
        BY <3>2, <3>3, <4>1, <4>3 DEF TakenInv, FreshOnce
      <4> QED BY <3>2, <4>2, <4>3
    <3>8. \A i \in DOMAIN accepted' : \E u \in urls' : u.ctr = accepted'[i]
      <4> SUFFICES ASSUME NEW i \in 1 .. n + 1 PROVE \E u \in urls' : u.ctr = accepted'[i]
        BY <3>4
      <4>1. CASE i = n + 1
        BY <2>2, <2>3, <3>3, <4>1
      <4>2. CASE i \in 1 .. n
        BY <2>2, <3>2, <3>3, <4>2 DEF TakenInv, FreshOnce
      <4> QED BY <3>2, <4>1, <4>2
    <3>9. FreshOnce'
      BY <3>7, <3>8 DEF FreshOnce
    <3>10. last' \in Int
      BY <2>3, <3>1
    <3>11. TakenInv'
      BY <2>2, <3>3, <3>6, <3>9, <3>10 DEF TakenInv
    <3> QED BY <2>1, <3>11
  <2> QED BY <2>4, <2>5
<1>6. CASE Restart
  <2>1. accepted' \in Seq(Nat) /\ DOMAIN accepted' = {}
    BY <1>6, EmptySeq, LenProperties DEF Restart
  <2>2. DOMAIN pending' = {1, 2} /\ \A c \in {1, 2} : pending'[c] = Refused
    BY <1>6 DEF Restart, TakenInv
  <2>3. UsesInv'
    BY <1>6 DEF Restart, cardVars, UsesInv
  <2>4. TakenInv'
    BY <1>6, <2>1, <2>2 DEF Restart, TakenInv, FreshOnce
  <2> QED BY <2>3, <2>4
<1>7. CASE UNCHANGED sunVars
  BY <1>7 DEF sunVars, cardVars, serverVars, UsesInv, TakenInv, FreshOnce
<1> QED BY <1>1, <1>2, <1>3, <1>4, <1>5, <1>6, <1>7 DEF SunNext

(* No read of the card is taken for fresh twice, and only what a read gave *)
(* is taken, however late and often its URL comes (replay.go).             *)
THEOREM NoTapIsFreshTwice == SunSpec => []FreshOnce
<1>1. SunInv => FreshOnce
  BY DEF SunInv, TakenInv
<1> QED BY SunStart, SunStep, <1>1, PTL DEF SunSpec

=============================================================================
