------------------------ MODULE RemoteSessionsProofs ------------------------
(* What RemoteSessions guarantees for every number of connections,         *)
(* identities, requests and tags.                                          *)
EXTENDS RemoteSessions, TLAPS

-----------------------------------------------------------------------------
(* Types.                                                                  *)

LEMMA TypeInit == Init => TypeOK
BY NoneApart, FailedApart DEF Init, TypeOK, Registering, Handling, Leaving, Results

LEMMA TypeStep == TypeOK /\ [Next]_vars => TypeOK'
<1> SUFFICES ASSUME TypeOK, [Next]_vars PROVE TypeOK'
  OBVIOUS
<1> USE NoneApart, FailedApart, KindsApart DEF TypeOK, Registering, Handling, Leaving, Results, Goto, Shut,
        RemoveSessionFor, Owns, AfterClear, During, mapVars, tagVars, callVars, adminVars
<1>1. ASSUME NEW c \in Conns, Register(c) PROVE TypeOK'
  <2>1. CASE Hello(c)
    BY <2>1 DEF Hello
  <2>2. CASE Replace(c)
    BY <2>2 DEF Replace
  <2>3. CASE InstallDevice(c)
    BY <2>3 DEF InstallDevice
  <2>4. CASE AddSession(c)
    BY <2>4 DEF AddSession
  <2>5. CASE Greet(c)
    BY <2>5 DEF Greet
  <2>6. CASE GreetFails(c)
    BY <2>6 DEF GreetFails
  <2>7. CASE Confirm(c)
    BY <2>7 DEF Confirm
  <2> QED BY <1>1, <2>1, <2>2, <2>3, <2>4, <2>5, <2>6, <2>7 DEF Register
<1>2. ASSUME NEW c \in Conns, Frame(c) PROVE TypeOK'
  <2>1. ASSUME NEW t \in Tags, Scan(c, t) PROVE TypeOK'
    BY <2>1 DEF Scan
  <2>2. ASSUME NEW t \in Tags \cup {None}, Removed(c, t) PROVE TypeOK'
    BY <2>2 DEF Removed
  <2>3. ASSUME NEW r \in Requests, TakePending(c, r) PROVE TypeOK'
    BY <2>3 DEF TakePending
  <2> QED BY <1>2, <2>1, <2>2, <2>3 DEF Frame
<1>3. ASSUME NEW c \in Conns, Handle(c) PROVE TypeOK'
  <2>1. CASE LookAgain(c)
    BY <2>1 DEF LookAgain
  <2>2. CASE SetTag(c)
    BY <2>2 DEF SetTag
  <2>3. CASE SetLatest(c)
    BY <2>3 DEF SetLatest
  <2>4. CASE Publish(c)
    BY <2>4 DEF Publish
  <2>5. CASE ClearLook(c)
    BY <2>5 DEF ClearLook
  <2>6. CASE CompareTag(c)
    BY <2>6 DEF CompareTag
  <2>7. CASE ClearTag(c)
    BY <2>7 DEF ClearTag
  <2>8. CASE ChooseFallback(c)
    <3> DEFINE others == Holders \ {id[c]}
    <3>1. PICK i \in Ids \cup {None} : aim' = [aim EXCEPT ![c] = i]
      <4>1. PICK i \in IF others = {} THEN {None} ELSE others : aim' = [aim EXCEPT ![c] = i]
        BY <2>8 DEF ChooseFallback
      <4>2. i \in Ids \cup {None}
        BY <4>1 DEF Holders
      <4> QED BY <4>1, <4>2
    <3> QED BY <2>8, <3>1 DEF ChooseFallback
  <2>9. CASE ClearLatest(c)
    BY <2>9 DEF ClearLatest
  <2>10. CASE Deliver(c)
    BY <2>10 DEF Deliver
  <2> QED BY <1>3, <2>1, <2>2, <2>3, <2>4, <2>5, <2>6, <2>7, <2>8, <2>9, <2>10 DEF Handle
<1>4. ASSUME NEW c \in Conns, LoseLink(c) \/ ReadEnds(c) \/ End(c) PROVE TypeOK'
  <2>1. CASE LoseLink(c)
    BY <2>1 DEF LoseLink
  <2>2. CASE ReadEnds(c)
    BY <2>2 DEF ReadEnds
  <2>3. CASE EndSession(c)
    BY <2>3 DEF EndSession
  <2>4. CASE FailPending(c)
    BY <2>4 DEF FailPending
  <2>5. CASE Unregister(c)
    BY <2>5 DEF Unregister
  <2> QED BY <1>4, <2>1, <2>2, <2>3, <2>4, <2>5 DEF End
<1>5. ASSUME NEW r \in Requests, Request(r) PROVE TypeOK'
  <2>1. CASE LookUp(r)
    BY <2>1 DEF LookUp
  <2>2. CASE Write(r)
    BY <2>2 DEF Write
  <2>3. CASE Receive(r)
    BY <2>3 DEF Receive
  <2>4. CASE TimeOut(r)
    BY <2>4 DEF TimeOut
  <2>5. CASE Leave(r)
    BY <2>5 DEF Leave
  <2>6. ASSUME NEW i \in Ids, Call(r, i) PROVE TypeOK'
    BY <2>6 DEF Call
  <2> QED BY <1>5, <2>1, <2>2, <2>3, <2>4, <2>5, <2>6 DEF Request
<1>6. ASSUME NEW i \in Ids, Disconnect(i) \/ DropSilent(i) PROVE TypeOK'
  <2>1. CASE Disconnect(i)
    BY <2>1 DEF Disconnect
  <2>2. CASE DropSilent(i)
    BY <2>2 DEF DropSilent
  <2> QED BY <1>6, <2>1, <2>2
<1>7. CASE FindSilent
  BY <1>7 DEF FindSilent
<1>8. CASE UnregisterSilent
  BY <1>8 DEF UnregisterSilent
<1>9. CASE CloseSessions
  BY <1>9 DEF CloseSessions
<1>10. CASE CloseDevices
  BY <1>10 DEF CloseDevices
<1>11. CASE UNCHANGED vars
  BY <1>11 DEF vars
<1> QED BY <1>1, <1>2, <1>3, <1>4, <1>5, <1>6, <1>7, <1>8, <1>9, <1>10, <1>11 DEF Next

(* Every connection that is served has an identity, and whoever answers    *)
(* or records a scan holds what it names.                                  *)
THEOREM TypeCorrect == Spec => []TypeOK
BY TypeInit, TypeStep, PTL DEF Spec

-----------------------------------------------------------------------------
(* Answers.                                                                *)

(* An entry names the device its caller asked, whatever a connection is    *)
(* about to deliver is its own device's, and a request not made yet has    *)
(* neither.                                                                *)
AnswerInv ==
    /\ NoneForgotten
    /\ OwnAnswer
    /\ SendsNeverBlock
    /\ \A r \in Requests : pending[r] \in {None, to[r]}
    /\ \A c \in Conns, r \in Requests : Carries(c, r) => id[c] = to[r]
    /\ \A r \in Requests, c \in Conns : c \in {inbox[r], got[r]} => at[c] # "new"
    /\ \A r \in Requests :
          req[r] = "idle" =>
              /\ pending[r] = None /\ inbox[r] = None /\ got[r] = None
              /\ \A c \in Conns : ~Carries(c, r)

LEMMA AnswerInit == Init => AnswerInv
BY NoneApart, FailedApart
   DEF Init, AnswerInv, NoneForgotten, OwnAnswer, SendsNeverBlock, Carries

LEMMA AnswerStep == TypeOK /\ AnswerInv /\ [Next]_vars => AnswerInv'
<1> SUFFICES ASSUME TypeOK, AnswerInv, [Next]_vars PROVE AnswerInv'
  OBVIOUS
<1> USE NoneApart, FailedApart, KindsApart DEF TypeOK, AnswerInv, NoneForgotten, OwnAnswer, SendsNeverBlock, Carries,
        Registering, Handling, Leaving, Results, Goto, AfterClear, During, Waiters,
        mapVars, tagVars, callVars, adminVars
<1>1. ASSUME NEW c \in Conns, Register(c) PROVE AnswerInv'
  <2>1. CASE Hello(c)
    BY <2>1 DEF Hello
  <2>2. CASE Replace(c)
    BY <2>2 DEF Replace
  <2>3. CASE InstallDevice(c)
    BY <2>3 DEF InstallDevice
  <2>4. CASE AddSession(c)
    BY <2>4 DEF AddSession
  <2>5. CASE Greet(c)
    BY <2>5 DEF Greet
  <2>6. CASE GreetFails(c)
    BY <2>6 DEF GreetFails
  <2>7. CASE Confirm(c)
    BY <2>7 DEF Confirm
  <2> QED BY <1>1, <2>1, <2>2, <2>3, <2>4, <2>5, <2>6, <2>7 DEF Register
<1>2. ASSUME NEW c \in Conns, Frame(c) PROVE AnswerInv'
  <2>1. ASSUME NEW t \in Tags, Scan(c, t) PROVE AnswerInv'
    BY <2>1 DEF Scan
  <2>2. ASSUME NEW t \in Tags \cup {None}, Removed(c, t) PROVE AnswerInv'
    BY <2>2 DEF Removed
  <2>3. ASSUME NEW r \in Requests, TakePending(c, r) PROVE AnswerInv'
    BY <2>3 DEF TakePending
  <2> QED BY <1>2, <2>1, <2>2, <2>3 DEF Frame
<1>3. ASSUME NEW c \in Conns, Handle(c) PROVE AnswerInv'
  <2>1. CASE LookAgain(c)
    BY <2>1 DEF LookAgain
  <2>2. CASE SetTag(c)
    BY <2>2 DEF SetTag
  <2>3. CASE SetLatest(c)
    BY <2>3 DEF SetLatest
  <2>4. CASE Publish(c)
    BY <2>4 DEF Publish
  <2>5. CASE ClearLook(c)
    BY <2>5 DEF ClearLook
  <2>6. CASE CompareTag(c)
    BY <2>6 DEF CompareTag
  <2>7. CASE ClearTag(c)
    BY <2>7 DEF ClearTag
  <2>8. CASE ChooseFallback(c)
    BY <2>8 DEF ChooseFallback
  <2>9. CASE ClearLatest(c)
    BY <2>9 DEF ClearLatest
  <2>10. CASE Deliver(c)
    BY <2>10 DEF Deliver
  <2> QED BY <1>3, <2>1, <2>2, <2>3, <2>4, <2>5, <2>6, <2>7, <2>8, <2>9, <2>10 DEF Handle
<1>4. ASSUME NEW c \in Conns, LoseLink(c) \/ ReadEnds(c) \/ End(c) PROVE AnswerInv'
  <2>1. CASE LoseLink(c)
    BY <2>1 DEF LoseLink
  <2>2. CASE ReadEnds(c)
    BY <2>2 DEF ReadEnds
  <2>3. CASE EndSession(c)
    BY <2>3 DEF EndSession
  <2>4. CASE FailPending(c)
    <3>1. /\ \A r \in Requests : pending[r] = id[c] => inbox'[r] = Failed /\ pending'[r] = None
          /\ \A r \in Requests : pending[r] # id[c] => inbox'[r] = inbox[r] /\ pending'[r] = pending[r]
          /\ at' = [at EXCEPT ![c] = "forget"] /\ at[c] = "sweep"
          /\ UNCHANGED <<id, hand, req, to, got>>
      BY <2>4 DEF FailPending
    <3>2. \A d \in Conns, r \in Requests : Carries(d, r)' <=> Carries(d, r)
      BY <3>1 DEF Carries
    <3>3. NoneForgotten' /\ OwnAnswer'
      BY <3>1, <3>2
    <3>4. SendsNeverBlock'
      <4>1. ASSUME NEW r \in Requests, pending'[r] # None PROVE inbox'[r] = None
        BY <3>1, <4>1
      <4>2. ASSUME NEW r \in Requests, NEW d \in Conns, Carries(d, r)'
            PROVE /\ pending'[r] = None /\ inbox'[r] = None
                  /\ \A e \in Conns \ {d} : ~Carries(e, r)'
        <5>1. Carries(d, r) /\ id[c] # None
          BY <3>1, <3>2, <4>2
        <5> HIDE DEF Carries
        <5>2. pending[r] = None /\ inbox[r] = None /\ \A e \in Conns \ {d} : ~Carries(e, r)
          BY <5>1
        <5> QED BY <5>1, <5>2, <3>1, <3>2
      <4> QED BY <4>1, <4>2
    <3>5. \A r \in Requests : pending'[r] \in {None, to'[r]}
      BY <3>1
    <3>6. \A d \in Conns, r \in Requests : Carries(d, r)' => id'[d] = to'[r]
      BY <3>1, <3>2
    <3>7. \A r \in Requests, d \in Conns : d \in {inbox'[r], got'[r]} => at'[d] # "new"
      BY <3>1
    <3>8. ASSUME NEW r \in Requests, req'[r] = "idle"
          PROVE /\ pending'[r] = None /\ inbox'[r] = None /\ got'[r] = None
                /\ \A d \in Conns : ~Carries(d, r)'
      <4>1. \A d \in Conns : ~Carries(d, r)
        BY <3>1, <3>8
      <4> HIDE DEF Carries
      <4>2. pending[r] = None /\ inbox[r] = None /\ got[r] = None
        BY <3>1, <3>8
      <4>3. id[c] # None
        BY <3>1
      <4> QED BY <4>1, <4>2, <4>3, <3>1, <3>2
    <3> HIDE DEF Carries, NoneForgotten, OwnAnswer, SendsNeverBlock, TypeOK
    <3> QED BY <3>2, <3>3, <3>4, <3>5, <3>6, <3>7, <3>8
  <2>5. CASE Unregister(c)
    BY <2>5 DEF Unregister
  <2> QED BY <1>4, <2>1, <2>2, <2>3, <2>4, <2>5 DEF End
<1>5. ASSUME NEW r \in Requests, Request(r) PROVE AnswerInv'
  <2>1. CASE LookUp(r)
    BY <2>1 DEF LookUp
  <2>2. CASE Write(r)
    BY <2>2 DEF Write
  <2>3. CASE Receive(r)
    BY <2>3 DEF Receive
  <2>4. CASE TimeOut(r)
    BY <2>4 DEF TimeOut
  <2>5. CASE Leave(r)
    BY <2>5 DEF Leave
  <2>6. ASSUME NEW i \in Ids, Call(r, i) PROVE AnswerInv'
    BY <2>6 DEF Call
  <2> QED BY <1>5, <2>1, <2>2, <2>3, <2>4, <2>5, <2>6 DEF Request
<1>6. ASSUME NEW i \in Ids, Disconnect(i) \/ DropSilent(i) PROVE AnswerInv'
  <2>1. CASE Disconnect(i)
    BY <2>1 DEF Disconnect
  <2>2. CASE DropSilent(i)
    BY <2>2 DEF DropSilent
  <2> QED BY <1>6, <2>1, <2>2
<1>7. CASE FindSilent
  BY <1>7 DEF FindSilent
<1>8. CASE UnregisterSilent
  BY <1>8 DEF UnregisterSilent
<1>9. CASE CloseSessions
  BY <1>9 DEF CloseSessions
<1>10. CASE CloseDevices
  BY <1>10 DEF CloseDevices
<1>11. CASE UNCHANGED vars
  BY <1>11 DEF vars
<1> QED BY <1>1, <1>2, <1>3, <1>4, <1>5, <1>6, <1>7, <1>8, <1>9, <1>10, <1>11 DEF Next

LEMMA AnswersHold == Spec => []AnswerInv
BY AnswerInit, AnswerStep, TypeCorrect, PTL DEF Spec

(* No caller is left without its entry, its answer, or a goroutine that    *)
(* has taken the one to send the other: a device that names another's      *)
(* request takes nothing (handleDeviceResponse).                           *)
THEOREM NobodyIsForgotten == Spec => []NoneForgotten
BY AnswersHold, PTL DEF AnswerInv

(* A caller is answered by the device it asked, and by no other.           *)
THEOREM AnswersAreOwn == Spec => []OwnAnswer
BY AnswersHold, PTL DEF AnswerInv

(* handleDeviceResponse and the sweep find room in respCh: each of them    *)
(* sends only what it took out of m.pending.                               *)
THEOREM SendersNeverWait == Spec => []SendsNeverBlock
BY AnswersHold, PTL DEF AnswerInv

-----------------------------------------------------------------------------
(* Sessions.                                                               *)

(* A session is of a connection between its registration and its end, and  *)
(* a registration under way has registerMu and nothing in its place.       *)
SessionInv ==
    /\ NoOrphan
    /\ \A c \in Conns :
          at[c] \in Handling \cup {"greet"} /\ link[c] # "closed" => Owns(c)
    /\ \A i \in Ids, c \in Conns :
          sessions[i] = c =>
              /\ id[c] = i
              /\ at[c] \in Handling \cup {"greet", "confirm", "serving", "end"}
    /\ \A c \in Conns :
          at[c] \in {"device", "session"} =>
              registerMu = c /\ sessions[id[c]] = None

LEMMA SessionInit == Init => SessionInv
BY NoneApart DEF Init, SessionInv, NoOrphan, Handling

LEMMA SessionStep == TypeOK /\ TypeOK' /\ SessionInv /\ [Next]_vars => SessionInv'
<1> SUFFICES ASSUME TypeOK, TypeOK', SessionInv, [Next]_vars PROVE SessionInv'
  OBVIOUS
<1> USE NoneApart, FailedApart, KindsApart DEF TypeOK, SessionInv, NoOrphan, Owns,
        Registering, Handling, Leaving, Goto, Shut, RemoveSessionFor, AfterClear, During,
        mapVars, tagVars, callVars, adminVars
<1>1. ASSUME NEW c \in Conns, Register(c) PROVE SessionInv'
  <2>1. CASE Hello(c)
    BY <2>1 DEF Hello
  <2>2. CASE Replace(c)
    BY <2>2 DEF Replace
  <2>3. CASE InstallDevice(c)
    BY <2>3 DEF InstallDevice
  <2>4. CASE AddSession(c)
    BY <2>4 DEF AddSession
  <2>5. CASE Greet(c)
    BY <2>5 DEF Greet
  <2>6. CASE GreetFails(c)
    BY <2>6 DEF GreetFails
  <2>7. CASE Confirm(c)
    BY <2>7 DEF Confirm
  <2> QED BY <1>1, <2>1, <2>2, <2>3, <2>4, <2>5, <2>6, <2>7 DEF Register
<1>2. ASSUME NEW c \in Conns, Frame(c) PROVE SessionInv'
  <2>1. ASSUME NEW t \in Tags, Scan(c, t) PROVE SessionInv'
    BY <2>1 DEF Scan
  <2>2. ASSUME NEW t \in Tags \cup {None}, Removed(c, t) PROVE SessionInv'
    BY <2>2 DEF Removed
  <2>3. ASSUME NEW r \in Requests, TakePending(c, r) PROVE SessionInv'
    BY <2>3 DEF TakePending
  <2> QED BY <1>2, <2>1, <2>2, <2>3 DEF Frame
<1>3. ASSUME NEW c \in Conns, Handle(c) PROVE SessionInv'
  <2>1. CASE LookAgain(c)
    BY <2>1 DEF LookAgain
  <2>2. CASE SetTag(c)
    BY <2>2 DEF SetTag
  <2>3. CASE SetLatest(c)
    BY <2>3 DEF SetLatest
  <2>4. CASE Publish(c)
    BY <2>4 DEF Publish
  <2>5. CASE ClearLook(c)
    BY <2>5 DEF ClearLook
  <2>6. CASE CompareTag(c)
    BY <2>6 DEF CompareTag
  <2>7. CASE ClearTag(c)
    BY <2>7 DEF ClearTag
  <2>8. CASE ChooseFallback(c)
    BY <2>8 DEF ChooseFallback
  <2>9. CASE ClearLatest(c)
    BY <2>9 DEF ClearLatest
  <2>10. CASE Deliver(c)
    BY <2>10 DEF Deliver
  <2> QED BY <1>3, <2>1, <2>2, <2>3, <2>4, <2>5, <2>6, <2>7, <2>8, <2>9, <2>10 DEF Handle
<1>4. ASSUME NEW c \in Conns, LoseLink(c) \/ ReadEnds(c) \/ End(c) PROVE SessionInv'
  <2>1. CASE LoseLink(c)
    BY <2>1 DEF LoseLink
  <2>2. CASE ReadEnds(c)
    BY <2>2 DEF ReadEnds
  <2>3. CASE EndSession(c)
    BY <2>3 DEF EndSession
  <2>4. CASE FailPending(c)
    BY <2>4 DEF FailPending
  <2>5. CASE Unregister(c)
    BY <2>5 DEF Unregister
  <2> QED BY <1>4, <2>1, <2>2, <2>3, <2>4, <2>5 DEF End
<1>5. ASSUME NEW r \in Requests, Request(r) PROVE SessionInv'
  <2>1. CASE LookUp(r)
    BY <2>1 DEF LookUp
  <2>2. CASE Write(r)
    BY <2>2 DEF Write
  <2>3. CASE Receive(r)
    BY <2>3 DEF Receive
  <2>4. CASE TimeOut(r)
    BY <2>4 DEF TimeOut
  <2>5. CASE Leave(r)
    BY <2>5 DEF Leave
  <2>6. ASSUME NEW i \in Ids, Call(r, i) PROVE SessionInv'
    BY <2>6 DEF Call
  <2> QED BY <1>5, <2>1, <2>2, <2>3, <2>4, <2>5, <2>6 DEF Request
<1>6. ASSUME NEW i \in Ids, Disconnect(i) \/ DropSilent(i) PROVE SessionInv'
  <2>1. CASE Disconnect(i)
    BY <2>1 DEF Disconnect
  <2>2. CASE DropSilent(i)
    BY <2>2 DEF DropSilent
  <2> QED BY <1>6, <2>1, <2>2
<1>7. CASE FindSilent
  BY <1>7 DEF FindSilent
<1>8. CASE UnregisterSilent
  BY <1>8 DEF UnregisterSilent
<1>9. CASE CloseSessions
  BY <1>9 DEF CloseSessions
<1>10. CASE CloseDevices
  BY <1>10 DEF CloseDevices
<1>11. CASE UNCHANGED vars
  BY <1>11 DEF vars
<1> QED BY <1>1, <1>2, <1>3, <1>4, <1>5, <1>6, <1>7, <1>8, <1>9, <1>10, <1>11 DEF Next

LEMMA SessionsHold == Spec => []SessionInv
BY SessionInit, SessionStep, TypeCorrect, PTL DEF Spec

(* However many connections register under one identity at once, both maps *)
(* name the same one, and any other that is served is closed (registerMu,  *)
(* registerSession).                                                       *)
THEOREM NobodyIsOrphaned == Spec => []NoOrphan
BY SessionsHold, PTL DEF SessionInv

-----------------------------------------------------------------------------
(* The sweep.                                                              *)

SweepInv ==
    /\ SweepIsComplete
    /\ \A r \in Requests :
          req[r] \in {"write", "wait"} =>
              via[r] \in Conns /\ id[via[r]] = to[r] /\ at[via[r]] # "new"

LEMMA SweepInit == Init => SweepInv
BY DEF Init, SweepInv, SweepIsComplete

LEMMA SweepStep == TypeOK /\ AnswerInv /\ SessionInv /\ SweepInv /\ [Next]_vars => SweepInv'
<1> SUFFICES ASSUME TypeOK, AnswerInv, SessionInv, SweepInv, [Next]_vars PROVE SweepInv'
  OBVIOUS
<1>a. /\ \A r \in Requests : pending[r] \in {None, to[r]}
      /\ \A i \in Ids, c \in Conns :
            sessions[i] = c => id[c] = i /\ at[c] \notin Swept \cup {"new"}
      /\ \A c \in Conns : at[c] = "serving" => at[c] \notin Swept
  BY DEF AnswerInv, SessionInv, Handling, Swept
<1> USE <1>a, NoneApart, FailedApart, KindsApart DEF TypeOK, SweepInv, SweepIsComplete, Swept,
        Registering, Handling, Leaving, Results, Goto, AfterClear, During, Waiters, Owns, mapVars, tagVars, callVars, adminVars
<1>1. ASSUME NEW c \in Conns, Register(c) PROVE SweepInv'
  <2>1. CASE Hello(c)
    BY <2>1 DEF Hello
  <2>2. CASE Replace(c)
    BY <2>2 DEF Replace
  <2>3. CASE InstallDevice(c)
    BY <2>3 DEF InstallDevice
  <2>4. CASE AddSession(c)
    BY <2>4 DEF AddSession
  <2>5. CASE Greet(c)
    BY <2>5 DEF Greet
  <2>6. CASE GreetFails(c)
    BY <2>6 DEF GreetFails
  <2>7. CASE Confirm(c)
    BY <2>7 DEF Confirm
  <2> QED BY <1>1, <2>1, <2>2, <2>3, <2>4, <2>5, <2>6, <2>7 DEF Register
<1>2. ASSUME NEW c \in Conns, Frame(c) PROVE SweepInv'
  <2>1. ASSUME NEW t \in Tags, Scan(c, t) PROVE SweepInv'
    BY <2>1 DEF Scan
  <2>2. ASSUME NEW t \in Tags \cup {None}, Removed(c, t) PROVE SweepInv'
    BY <2>2 DEF Removed
  <2>3. ASSUME NEW r \in Requests, TakePending(c, r) PROVE SweepInv'
    BY <2>3 DEF TakePending
  <2> QED BY <1>2, <2>1, <2>2, <2>3 DEF Frame
<1>3. ASSUME NEW c \in Conns, Handle(c) PROVE SweepInv'
  <2>1. CASE LookAgain(c)
    BY <2>1 DEF LookAgain
  <2>2. CASE SetTag(c)
    BY <2>2 DEF SetTag
  <2>3. CASE SetLatest(c)
    BY <2>3 DEF SetLatest
  <2>4. CASE Publish(c)
    BY <2>4 DEF Publish
  <2>5. CASE ClearLook(c)
    BY <2>5 DEF ClearLook
  <2>6. CASE CompareTag(c)
    BY <2>6 DEF CompareTag
  <2>7. CASE ClearTag(c)
    BY <2>7 DEF ClearTag
  <2>8. CASE ChooseFallback(c)
    BY <2>8 DEF ChooseFallback
  <2>9. CASE ClearLatest(c)
    BY <2>9 DEF ClearLatest
  <2>10. CASE Deliver(c)
    BY <2>10 DEF Deliver
  <2> QED BY <1>3, <2>1, <2>2, <2>3, <2>4, <2>5, <2>6, <2>7, <2>8, <2>9, <2>10 DEF Handle
<1>4. ASSUME NEW c \in Conns, LoseLink(c) \/ ReadEnds(c) \/ End(c) PROVE SweepInv'
  <2>1. CASE LoseLink(c)
    BY <2>1 DEF LoseLink
  <2>2. CASE ReadEnds(c)
    BY <2>2 DEF ReadEnds
  <2>3. CASE EndSession(c)
    BY <2>3 DEF EndSession
  <2>4. CASE FailPending(c)
    BY <2>4 DEF FailPending
  <2>5. CASE Unregister(c)
    BY <2>5 DEF Unregister
  <2> QED BY <1>4, <2>1, <2>2, <2>3, <2>4, <2>5 DEF End
<1>5. ASSUME NEW r \in Requests, Request(r) PROVE SweepInv'
  <2>1. CASE LookUp(r)
    BY <2>1 DEF LookUp
  <2>2. CASE Write(r)
    BY <2>2 DEF Write
  <2>3. CASE Receive(r)
    BY <2>3 DEF Receive
  <2>4. CASE TimeOut(r)
    BY <2>4 DEF TimeOut
  <2>5. CASE Leave(r)
    BY <2>5 DEF Leave
  <2>6. ASSUME NEW i \in Ids, Call(r, i) PROVE SweepInv'
    BY <2>6 DEF Call
  <2> QED BY <1>5, <2>1, <2>2, <2>3, <2>4, <2>5, <2>6 DEF Request
<1>6. ASSUME NEW i \in Ids, Disconnect(i) \/ DropSilent(i) PROVE SweepInv'
  <2>1. CASE Disconnect(i)
    BY <2>1 DEF Disconnect
  <2>2. CASE DropSilent(i)
    BY <2>2 DEF DropSilent
  <2> QED BY <1>6, <2>1, <2>2
<1>7. CASE FindSilent
  BY <1>7 DEF FindSilent
<1>8. CASE UnregisterSilent
  BY <1>8 DEF UnregisterSilent
<1>9. CASE CloseSessions
  BY <1>9 DEF CloseSessions
<1>10. CASE CloseDevices
  BY <1>10 DEF CloseDevices
<1>11. CASE UNCHANGED vars
  BY <1>11 DEF vars
<1> QED BY <1>1, <1>2, <1>3, <1>4, <1>5, <1>6, <1>7, <1>8, <1>9, <1>10, <1>11 DEF Next

(* endSession removes the session before it sweeps, and request makes its  *)
(* entry before it looks the session up: nobody waits on a session that    *)
(* was swept.                                                              *)
THEOREM SweepLeavesNobody == Spec => []SweepIsComplete
<1>1. Spec => []SweepInv
  BY SweepInit, SweepStep, TypeCorrect, AnswersHold, SessionsHold, PTL DEF Spec
<1> QED BY <1>1, PTL DEF SweepInv

(* A request is answered by its own device, or swept, and never stranded:  *)
(* requests.go's protocol as a whole.                                      *)
THEOREM NobodyIsStranded == Spec => []NobodyStranded
BY NobodyIsForgotten, AnswersAreOwn, SendersNeverWait, SweepLeavesNobody, PTL DEF NobodyStranded

=============================================================================
