---------------------------- MODULE ReadersProofs ----------------------------
(* What the supervisor of the readers and the connection each reader keeps *)
(* guarantee: Supervisor for every number of devices, readers, modes and   *)
(* callers of SetMode, DeviceManager for every number of polls, handles    *)
(* and device paths, and every bound on retries and attempts.              *)
EXTENDS Supervisor, DeviceManager, TLAPS

-----------------------------------------------------------------------------
(* The supervisor's types.                                                 *)

LEMMA TypeInit == Init => TypeOK
BY DEF Init, TypeOK

LEMMA TypeStep == TypeOK /\ [Next]_vars => TypeOK'
<1> SUFFICES ASSUME TypeOK, [Next]_vars PROVE TypeOK'
  OBVIOUS
<1> USE NoneApart DEF TypeOK, Return, TellStop, CloseReader, AsItWas, Operated, Stopped, envVars,
        pollVars, readerVars, reconVars, runVars, stopVars, setVars
<1>1. CASE Replug
  <2>1. unheard' \subseteq Devices /\ changed' \in BOOLEAN /\ offered' \subseteq Devices
    BY <1>1 DEF Replug
  <2> QED BY <1>1, <2>1 DEF Replug
<1>2. CASE Start
  BY <1>2 DEF Start
<1>3. CASE Notified
  BY <1>3 DEF Notified
<1>4. ASSUME Reconcile PROVE TypeOK'
  <2>1. CASE List
    BY <2>1 DEF List
  <2>2. CASE Compare
    BY <2>2 DEF Compare
  <2>3. CASE DropDone
    BY <2>3 DEF DropDone
  <2>4. CASE OpenDone
    BY <2>4 DEF OpenDone
  <2>5. CASE Insert
    BY <2>5 DEF Insert
  <2>6. CASE BeginReader
    BY <2>6 DEF BeginReader
  <2>7. CASE Publish
    BY <2>7 DEF Publish
  <2>8. CASE Watch
    BY <2>8 DEF Watch
  <2>9. ASSUME NEW r \in Readers, StopDropped(r) PROVE TypeOK'
    BY <2>9 DEF StopDropped
  <2>12. ASSUME NEW r \in Readers, CloseDropped(r) PROVE TypeOK'
    BY <2>12 DEF CloseDropped
  <2>10. ASSUME NEW d \in Devices, OpenFails(d) PROVE TypeOK'
    BY <2>10 DEF OpenFails
  <2>11. ASSUME NEW d \in Devices, NEW r \in Readers, OpenReader(d, r) PROVE TypeOK'
    BY <2>11 DEF OpenReader
  <2> QED BY <1>4, <2>1, <2>2, <2>3, <2>4, <2>5, <2>6, <2>7, <2>8, <2>9, <2>10, <2>11, <2>12
           DEF Reconcile
<1>5. CASE Stop
  BY <1>5 DEF Stop
<1>6. ASSUME Ending PROVE TypeOK'
  <2>1. CASE CloseStopped
    BY <2>1 DEF CloseStopped
  <2>2. CASE StopReturns
    BY <2>2 DEF StopReturns
  <2>3. CASE WatchEnds
    BY <2>3 DEF WatchEnds
  <2>4. ASSUME NEW r \in Readers, StopTaken(r) PROVE TypeOK'
    BY <2>4 DEF StopTaken
  <2>5. ASSUME NEW r \in Readers, CloseTaken(r) PROVE TypeOK'
    BY <2>5 DEF CloseTaken
  <2> QED BY <1>6, <2>1, <2>2, <2>3, <2>4, <2>5 DEF Ending
<1>7. ASSUME NEW r \in Readers, AtWork(r) PROVE TypeOK'
  <2>1. CASE WorkerExits(r)
    BY <2>1 DEF WorkerExits
  <2>2. CASE PollConnects(r)
    BY <2>2 DEF PollConnects
  <2>3. CASE PollCloses(r)
    BY <2>3 DEF PollCloses
  <2>4. CASE PollEnds(r)
    BY <2>4 DEF PollEnds
  <2>5. CASE TransferEnds(r)
    BY <2>5 DEF TransferEnds
  <2> QED BY <1>7, <2>1, <2>2, <2>3, <2>4, <2>5 DEF AtWork
<1>8. ASSUME NEW r \in Readers, PublisherEnds(r) PROVE TypeOK'
  BY <1>8 DEF PublisherEnds
<1>9. ASSUME NEW s \in Setters, NEW m \in Modes, SetMode(s, m) PROVE TypeOK'
  BY <1>9 DEF SetMode
<1>10. ASSUME NEW s \in Setters, NEW r \in Readers, TellReader(s, r) PROVE TypeOK'
  BY <1>10 DEF TellReader
<1>11. CASE UNCHANGED vars
  BY <1>11 DEF vars
<1> QED BY <1>1, <1>2, <1>3, <1>4, <1>5, <1>6, <1>7, <1>8, <1>9, <1>10, <1>11 DEF Next

(* A reader that is inserted or begun was made, for a device.              *)
THEOREM TypeCorrect == Spec => []TypeOK
BY TypeInit, TypeStep, PTL DEF Spec

-----------------------------------------------------------------------------
(* Who holds the devices.                                                  *)

(* A reader stays under the path it was made for, the paths still to be    *)
(* opened are nobody's, and whoever polls is in somebody's hands or was    *)
(* closed.  Only the watcher reconciles once Stop has emptied the map, so  *)
(* when it is gone nothing is in anybody's hands.                          *)
HoldInv ==
    /\ NothingLeaks
    /\ \A q, r \in Hands : lane[q] = lane[r] => q = r
    /\ polling \subseteq Operated \cup drops \cup taken \cup shut
    /\ at \in {"begin", "publish"} => cur \in Operated \cup taken \cup shut
    /\ \A d \in Devices : readers[d] # None => lane[readers[d]] = d
    /\ \A r \in drops \cup taken : lane[r] \in Devices \ opens
    /\ drops # {} => at = "drop"
    /\ opens # {} => at \in {"drop", "open", "insert", "begin", "publish"}
    /\ at = "insert" =>
          /\ lane[cur] \notin opens
          /\ phase = "started" => readers[lane[cur]] = None
    /\ phase = "started" => \A d \in opens : readers[d] = None
    /\ phase # "started" => \A d \in Devices : readers[d] = None
    /\ phase # "done" => taken = {} /\ stop = "no"
    /\ stop = "returned" => taken = {}
    /\ phase # "started" /\ ~watching => at = "idle"
    /\ phase = "new" \/ stop = "returned" => ~watching

LEMMA HoldInit == Init => HoldInv
BY NoneApart DEF Init, HoldInv, NothingLeaks, Hands, Operated

LEMMA HoldStep == TypeOK /\ TypeOK' /\ HoldInv /\ [Next]_vars => HoldInv'
<1> SUFFICES ASSUME TypeOK, TypeOK', HoldInv, [Next]_vars PROVE HoldInv'
  OBVIOUS
<1> USE NoneApart DEF TypeOK, HoldInv, NothingLeaks, Hands, Return, TellStop, CloseReader, AsItWas,
        Operated, Stopped, envVars,
        pollVars, readerVars, reconVars, runVars, stopVars, setVars
<1>1. CASE Replug
  BY <1>1 DEF Replug
<1>2. CASE Start
  BY <1>2 DEF Start
<1>3. CASE Notified
  BY <1>3 DEF Notified
<1>4. ASSUME Reconcile PROVE HoldInv'
  <2>1. CASE List
    BY <2>1 DEF List
  <2>2. CASE Compare
    BY <2>2 DEF Compare
  <2>3. CASE DropDone
    BY <2>3 DEF DropDone
  <2>4. CASE OpenDone
    BY <2>4 DEF OpenDone
  <2>5. CASE Insert
    BY <2>5 DEF Insert
  <2>6. CASE BeginReader
    BY <2>6 DEF BeginReader
  <2>7. CASE Publish
    BY <2>7 DEF Publish
  <2>8. CASE Watch
    BY <2>8 DEF Watch
  <2>9. ASSUME NEW r \in Readers, StopDropped(r) PROVE HoldInv'
    BY <2>9 DEF StopDropped
  <2>12. ASSUME NEW r \in Readers, CloseDropped(r) PROVE HoldInv'
    BY <2>12 DEF CloseDropped
  <2>10. ASSUME NEW d \in Devices, OpenFails(d) PROVE HoldInv'
    BY <2>10 DEF OpenFails
  <2>11. ASSUME NEW d \in Devices, NEW r \in Readers, OpenReader(d, r) PROVE HoldInv'
    BY <2>11 DEF OpenReader
  <2> QED BY <1>4, <2>1, <2>2, <2>3, <2>4, <2>5, <2>6, <2>7, <2>8, <2>9, <2>10, <2>11, <2>12
           DEF Reconcile
<1>5. CASE Stop
  BY <1>5 DEF Stop
<1>6. ASSUME Ending PROVE HoldInv'
  <2>1. CASE CloseStopped
    BY <2>1 DEF CloseStopped
  <2>2. CASE StopReturns
    BY <2>2 DEF StopReturns
  <2>3. CASE WatchEnds
    BY <2>3 DEF WatchEnds
  <2>4. ASSUME NEW r \in Readers, StopTaken(r) PROVE HoldInv'
    BY <2>4 DEF StopTaken
  <2>5. ASSUME NEW r \in Readers, CloseTaken(r) PROVE HoldInv'
    BY <2>5 DEF CloseTaken
  <2> QED BY <1>6, <2>1, <2>2, <2>3, <2>4, <2>5 DEF Ending
<1>7. ASSUME NEW r \in Readers, AtWork(r) PROVE HoldInv'
  <2>1. CASE WorkerExits(r)
    BY <2>1 DEF WorkerExits
  <2>2. CASE PollConnects(r)
    BY <2>2 DEF PollConnects
  <2>3. CASE PollCloses(r)
    BY <2>3 DEF PollCloses
  <2>4. CASE PollEnds(r)
    BY <2>4 DEF PollEnds
  <2>5. CASE TransferEnds(r)
    BY <2>5 DEF TransferEnds
  <2> QED BY <1>7, <2>1, <2>2, <2>3, <2>4, <2>5 DEF AtWork
<1>8. ASSUME NEW r \in Readers, PublisherEnds(r) PROVE HoldInv'
  BY <1>8 DEF PublisherEnds
<1>9. ASSUME NEW s \in Setters, NEW m \in Modes, SetMode(s, m) PROVE HoldInv'
  BY <1>9 DEF SetMode
<1>10. ASSUME NEW s \in Setters, NEW r \in Readers, TellReader(s, r) PROVE HoldInv'
  BY <1>10 DEF TellReader
<1>11. CASE UNCHANGED vars
  BY <1>11 DEF vars
<1> QED BY <1>1, <1>2, <1>3, <1>4, <1>5, <1>6, <1>7, <1>8, <1>9, <1>10, <1>11 DEF Next

LEMMA HandsHold == Spec => []HoldInv
BY HoldInit, HoldStep, TypeCorrect, PTL DEF Spec

(* However a replug, a reconcile, a last poll and Stop fall together, no   *)
(* device is open in nobody's hands, and none is when Stop has returned,   *)
(* but for those that polls opened after their readers were closed.        *)
THEOREM StopReleasesReaders == Spec => []NothingLeaks
BY HandsHold, PTL DEF HoldInv

(* Two readers never hold one device, but for such polls: reconcile, which *)
(* only one goroutine runs at a time, lets go of the lost ones first.      *)
THEOREM DevicesAreExclusive == Spec => []OneReaderPerDevice
<1>1. HoldInv => OneReaderPerDevice
  BY DEF HoldInv, NothingLeaks, OneReaderPerDevice
<1> QED BY <1>1, HandsHold, PTL

(* Every open device has one reader, which somebody will close, but for    *)
(* such polls.                                                             *)
THEOREM ReadersAreAccounted == Spec => []ReadersAccounted
BY StopReleasesReaders, DevicesAreExclusive, PTL DEF ReadersAccounted

-----------------------------------------------------------------------------
(* What a reconcile has seen.                                              *)

(* With no notification waiting, the list is the one the manager would     *)
(* still give; from the comparison on, the readers are those of that list, *)
(* but for the devices the reconcile has still to open, the one it is      *)
(* opening and the ones it failed to open.  What changed before anybody    *)
(* had subscribed is left aside.                                           *)
SeenInv ==
    /\ at = "compare" /\ ~changed => \A d \in Devices \ unheard : d \in wanted <=> d \in offered
    /\ at \in {"drop", "open", "insert", "begin", "publish"} /\ ~changed =>
          opens \subseteq offered \cup unheard
    /\ at = "insert" /\ ~changed => lane[cur] \in offered \cup unheard
    /\ phase = "started" /\ at \notin {"list", "compare"} /\ ~changed =>
          \A d \in Devices \ (missed \cup opens \cup unheard) :
             ~(at = "insert" /\ d = lane[cur]) => (readers[d] # None <=> d \in offered)

LEMMA SeenInit == Init => SeenInv
BY DEF Init, SeenInv

LEMMA SeenStep == TypeOK /\ TypeOK' /\ HoldInv /\ SeenInv /\ [Next]_vars => SeenInv'
<1> SUFFICES ASSUME TypeOK, TypeOK', HoldInv, SeenInv, [Next]_vars PROVE SeenInv'
  OBVIOUS
<1>0. /\ drops # {} => at = "drop"
      /\ opens # {} => at \in {"drop", "open", "insert", "begin", "publish"}
      /\ phase # "started" /\ ~watching => at = "idle"
      /\ Stopped => phase = "done"
  BY DEF HoldInv, Stopped
<1> USE <1>0, NoneApart DEF TypeOK, SeenInv, Return, TellStop, CloseReader, AsItWas, envVars, pollVars, readerVars,
        reconVars, runVars, stopVars, setVars
<1>1. CASE Replug
  BY <1>1 DEF Replug
<1>2. CASE Start
  BY <1>2 DEF Start
<1>3. CASE Notified
  BY <1>3 DEF Notified
<1>4. ASSUME Reconcile PROVE SeenInv'
  <2>1. CASE List
    BY <2>1 DEF List
  <2>2. CASE Compare
    BY <2>2 DEF Compare
  <2>3. CASE DropDone
    BY <2>3 DEF DropDone
  <2>4. CASE OpenDone
    BY <2>4 DEF OpenDone
  <2>5. CASE Insert
    BY <2>5 DEF Insert
  <2>6. CASE BeginReader
    BY <2>6 DEF BeginReader
  <2>7. CASE Publish
    BY <2>7 DEF Publish
  <2>8. CASE Watch
    BY <2>8 DEF Watch
  <2>9. ASSUME NEW r \in Readers, StopDropped(r) PROVE SeenInv'
    BY <2>9 DEF StopDropped
  <2>12. ASSUME NEW r \in Readers, CloseDropped(r) PROVE SeenInv'
    BY <2>12 DEF CloseDropped
  <2>10. ASSUME NEW d \in Devices, OpenFails(d) PROVE SeenInv'
    BY <2>10 DEF OpenFails
  <2>11. ASSUME NEW d \in Devices, NEW r \in Readers, OpenReader(d, r) PROVE SeenInv'
    BY <2>11 DEF OpenReader
  <2> QED BY <1>4, <2>1, <2>2, <2>3, <2>4, <2>5, <2>6, <2>7, <2>8, <2>9, <2>10, <2>11, <2>12
           DEF Reconcile
<1>5. CASE Stop
  BY <1>5 DEF Stop
<1>6. ASSUME Ending PROVE SeenInv'
  <2>1. CASE CloseStopped
    BY <2>1 DEF CloseStopped
  <2>2. CASE StopReturns
    BY <2>2 DEF StopReturns
  <2>3. CASE WatchEnds
    BY <2>3 DEF WatchEnds
  <2>4. ASSUME NEW r \in Readers, StopTaken(r) PROVE SeenInv'
    BY <2>4 DEF StopTaken
  <2>5. ASSUME NEW r \in Readers, CloseTaken(r) PROVE SeenInv'
    BY <2>5 DEF CloseTaken
  <2> QED BY <1>6, <2>1, <2>2, <2>3, <2>4, <2>5 DEF Ending
<1>7. ASSUME NEW r \in Readers, AtWork(r) PROVE SeenInv'
  <2>1. CASE WorkerExits(r)
    BY <2>1 DEF WorkerExits
  <2>2. CASE PollConnects(r)
    BY <2>2 DEF PollConnects
  <2>3. CASE PollCloses(r)
    BY <2>3 DEF PollCloses
  <2>4. CASE PollEnds(r)
    BY <2>4 DEF PollEnds
  <2>5. CASE TransferEnds(r)
    BY <2>5 DEF TransferEnds
  <2> QED BY <1>7, <2>1, <2>2, <2>3, <2>4, <2>5 DEF AtWork
<1>8. ASSUME NEW r \in Readers, PublisherEnds(r) PROVE SeenInv'
  BY <1>8 DEF PublisherEnds
<1>9. ASSUME NEW s \in Setters, NEW m \in Modes, SetMode(s, m) PROVE SeenInv'
  BY <1>9 DEF SetMode
<1>10. ASSUME NEW s \in Setters, NEW r \in Readers, TellReader(s, r) PROVE SeenInv'
  BY <1>10 DEF TellReader
<1>11. CASE UNCHANGED vars
  BY <1>11 DEF vars
<1> QED BY <1>1, <1>2, <1>3, <1>4, <1>5, <1>6, <1>7, <1>8, <1>9, <1>10, <1>11 DEF Next

(* No change is lost between the list and the comparison: with no          *)
(* notification waiting and nobody reconciling, the readers are those of   *)
(* the devices offered, but for the ones that could not be opened and for  *)
(* what changed, with nobody told, before the supervisor had subscribed.   *)
THEOREM NoChangeIsMissed == Spec => []NothingMissed
<1>1. TypeOK /\ HoldInv /\ SeenInv => NothingMissed
  BY DEF TypeOK, HoldInv, SeenInv, NothingMissed
<1> QED BY <1>1, SeenInit, SeenStep, TypeCorrect, HandsHold, PTL DEF Spec

-----------------------------------------------------------------------------
(* The handles of a reader's connection.                                   *)

(* The part of the types the handles need.                                 *)
HandTypes ==
    /\ device \in Handles \cup {Nothing}
    /\ open \subseteq Handles
    /\ hand \in [Threads -> Handles \cup {Nothing}]
    /\ pc \in [Threads -> Steps]

(* A handle a thread has opened and not yet installed is open, and nobody  *)
(* else's.                                                                 *)
InstallOpen ==
    \A t \in Threads : pc[t] = "installing" =>
        /\ hand[t] \in open
        /\ hand[t] # device
        /\ \A u \in Threads : u # t => hand[u] # hand[t]

HandleInv == HandTypes /\ CurrentIsOpen /\ InstallOpen

LEMMA HandleInit == ManagerInit => HandleInv
BY LanesApart DEF ManagerInit, HandleInv, HandTypes, CurrentIsOpen, InstallOpen, Steps

LEMMA HandleStep == HandleInv /\ [ManagerNext]_managerVars => HandleInv'
<1> SUFFICES ASSUME HandleInv, [ManagerNext]_managerVars PROVE HandleInv'
  OBVIOUS
<1> USE LanesApart DEF HandleInv, HandTypes, CurrentIsOpen, InstallOpen, Steps, Threads, Goto,
        DropDevice, TrySucceeded, TryFailed, Erring, connVars, coolVars, tryVars, endVars
<1>1. ASSUME NEW t \in Threads, Connecting(t) PROVE HandleInv'
  <2>1. CASE TryLook(t)
    BY <2>1 DEF TryLook
  <2>2. CASE Healthy(t)
    BY <2>2 DEF Healthy
  <2>3. CASE Unhealthy(t)
    BY <2>3 DEF Unhealthy
  <2>4. CASE Dial(t)
    BY <2>4 DEF Dial
  <2>5. CASE Opened(t)
    BY <2>5 DEF Opened, Fresh
  <2>6. CASE OpenFailed(t)
    BY <2>6 DEF OpenFailed
  <2>7. CASE Install(t)
    BY <2>7 DEF Install
  <2>8. CASE Reconnected(t)
    BY <2>8 DEF Reconnected
  <2>9. CASE ForceReconnect(t)
    BY <2>9 DEF ForceReconnect, Reconnect
  <2>10. CASE ResetDone(t)
    BY <2>10 DEF ResetDone
  <2>11. CASE RetryReconnect(t)
    BY <2>11 DEF RetryReconnect, Reconnect
  <2>12. CASE RetryAborted(t)
    BY <2>12 DEF RetryAborted
  <2>13. CASE NextAttempt(t)
    BY <2>13 DEF NextAttempt
  <2>14. CASE GiveUp(t)
    BY <2>14 DEF GiveUp
  <2> QED BY <1>1, <2>1, <2>2, <2>3, <2>4, <2>5, <2>6, <2>7, <2>8, <2>9, <2>10, <2>11, <2>12, <2>13, <2>14 DEF Connecting
<1>2. ASSUME NEW t \in Threads, Handling(t) PROVE HandleInv'
  <2>1. CASE NoError(t)
    BY <2>1 DEF NoError
  <2>2. CASE IOError(t)
    BY <2>2 DEF IOError
  <2>3. CASE EnterCooldown(t)
    BY <2>3 DEF EnterCooldown
  <2>4. CASE RetryTimeout(t)
    BY <2>4 DEF RetryTimeout
  <2>5. CASE TimeoutCooldown(t)
    BY <2>5 DEF TimeoutCooldown
  <2>6. CASE OtherError(t)
    BY <2>6 DEF OtherError
  <2>7. CASE ThreadLeave(t)
    BY <2>7 DEF ThreadLeave
  <2> QED BY <1>2, <2>1, <2>2, <2>3, <2>4, <2>5, <2>6, <2>7 DEF Handling
<1>3. ASSUME NEW p \in Polls, Polling(p) PROVE HandleInv'
  <2>1. CASE PollStart(p)
    BY <2>1 DEF PollStart
  <2>2. CASE PollLook(p)
    BY <2>2 DEF PollLook
  <2>3. CASE PollCooling(p)
    BY <2>3 DEF PollCooling
  <2>4. CASE PollConnect(p)
    BY <2>4 DEF PollConnect
  <2>5. CASE PollDiscover(p)
    BY <2>5 DEF PollDiscover
  <2>6. CASE PollTake(p)
    BY <2>6 DEF PollTake
  <2>7. CASE CardRemoved(p)
    BY <2>7 DEF CardRemoved
  <2>8. CASE TagSeen(p)
    BY <2>8 DEF TagSeen
  <2>9. CASE Consume(p)
    BY <2>9 DEF Consume
  <2>10. CASE SendAborted(p)
    BY <2>10 DEF SendAborted
  <2> QED BY <1>3, <2>1, <2>2, <2>3, <2>4, <2>5, <2>6, <2>7, <2>8, <2>9, <2>10 DEF Polling
<1>4. CASE WorkerResume
  BY <1>4 DEF WorkerResume
<1>5. CASE WorkerExit
  BY <1>5 DEF WorkerExit
<1>6. CASE StopCall
  BY <1>6 DEF StopCall
<1>7. CASE ReaderClose
  BY <1>7 DEF ReaderClose
<1>8. CASE UNCHANGED managerVars
  BY <1>8 DEF managerVars
<1> QED BY <1>1, <1>2, <1>3, <1>4, <1>5, <1>6, <1>7, <1>8 DEF ManagerNext

(* Whatever closes the device forgets it too: what polls and operations    *)
(* use is open (TryConnect, reconnectDevice, Close, HandleError).          *)
THEOREM DeviceIsOpen == ManagerSpec => []CurrentIsOpen
<1>1. ManagerSpec => []HandleInv
  BY HandleInit, HandleStep, PTL DEF ManagerSpec
<1> QED BY <1>1, PTL DEF HandleInv

-----------------------------------------------------------------------------
(* Paths.                                                                  *)

LEMMA LaneInit == ManagerInit => pc \in [Threads -> Steps] /\ OwnLane
BY DEF ManagerInit, OwnLane, Steps

LaneInv ==
    /\ pc \in [Threads -> Steps]
    /\ dest \in [Threads -> Lanes \cup {NoLane}]
    /\ path \in Lanes \cup {NoLane}
    /\ assigned \in Lanes \cup {NoLane}
    /\ OwnLane
    /\ assigned # NoLane => \A t \in Threads : pc[t] # "discovering"

LEMMA LaneStep == LaneInv /\ [ManagerNext]_managerVars => LaneInv'
<1> SUFFICES ASSUME LaneInv, [ManagerNext]_managerVars PROVE LaneInv'
  OBVIOUS
<1> USE LanesApart DEF LaneInv, OwnLane, Steps, Threads, Goto, DropDevice, TrySucceeded,
        TryFailed, Erring, connVars, coolVars, tryVars, endVars
<1>1. ASSUME NEW t \in Threads, Connecting(t) PROVE LaneInv'
  <2>1. CASE TryLook(t)
    BY <2>1 DEF TryLook
  <2>2. CASE Healthy(t)
    BY <2>2 DEF Healthy
  <2>3. CASE Unhealthy(t)
    BY <2>3 DEF Unhealthy
  <2>4. CASE Dial(t)
    BY <2>4 DEF Dial
  <2>5. CASE Opened(t)
    BY <2>5 DEF Opened, Fresh
  <2>6. CASE OpenFailed(t)
    BY <2>6 DEF OpenFailed
  <2>7. CASE Install(t)
    BY <2>7 DEF Install
  <2>8. CASE Reconnected(t)
    BY <2>8 DEF Reconnected
  <2>9. CASE ForceReconnect(t)
    BY <2>9 DEF ForceReconnect, Reconnect
  <2>10. CASE ResetDone(t)
    BY <2>10 DEF ResetDone
  <2>11. CASE RetryReconnect(t)
    BY <2>11 DEF RetryReconnect, Reconnect
  <2>12. CASE RetryAborted(t)
    BY <2>12 DEF RetryAborted
  <2>13. CASE NextAttempt(t)
    BY <2>13 DEF NextAttempt
  <2>14. CASE GiveUp(t)
    BY <2>14 DEF GiveUp
  <2> QED BY <1>1, <2>1, <2>2, <2>3, <2>4, <2>5, <2>6, <2>7, <2>8, <2>9, <2>10, <2>11, <2>12, <2>13, <2>14 DEF Connecting
<1>2. ASSUME NEW t \in Threads, Handling(t) PROVE LaneInv'
  <2>1. CASE NoError(t)
    BY <2>1 DEF NoError
  <2>2. CASE IOError(t)
    BY <2>2 DEF IOError
  <2>3. CASE EnterCooldown(t)
    BY <2>3 DEF EnterCooldown
  <2>4. CASE RetryTimeout(t)
    BY <2>4 DEF RetryTimeout
  <2>5. CASE TimeoutCooldown(t)
    BY <2>5 DEF TimeoutCooldown
  <2>6. CASE OtherError(t)
    BY <2>6 DEF OtherError
  <2>7. CASE ThreadLeave(t)
    BY <2>7 DEF ThreadLeave
  <2> QED BY <1>2, <2>1, <2>2, <2>3, <2>4, <2>5, <2>6, <2>7 DEF Handling
<1>3. ASSUME NEW p \in Polls, Polling(p) PROVE LaneInv'
  <2>1. CASE PollStart(p)
    BY <2>1 DEF PollStart
  <2>2. CASE PollLook(p)
    BY <2>2 DEF PollLook
  <2>3. CASE PollCooling(p)
    BY <2>3 DEF PollCooling
  <2>4. CASE PollConnect(p)
    BY <2>4 DEF PollConnect
  <2>5. CASE PollDiscover(p)
    BY <2>5 DEF PollDiscover
  <2>6. CASE PollTake(p)
    BY <2>6 DEF PollTake
  <2>7. CASE CardRemoved(p)
    BY <2>7 DEF CardRemoved
  <2>8. CASE TagSeen(p)
    BY <2>8 DEF TagSeen
  <2>9. CASE Consume(p)
    BY <2>9 DEF Consume
  <2>10. CASE SendAborted(p)
    BY <2>10 DEF SendAborted
  <2> QED BY <1>3, <2>1, <2>2, <2>3, <2>4, <2>5, <2>6, <2>7, <2>8, <2>9, <2>10 DEF Polling
<1>4. CASE WorkerResume
  BY <1>4 DEF WorkerResume
<1>5. CASE WorkerExit
  BY <1>5 DEF WorkerExit
<1>6. CASE StopCall
  BY <1>6 DEF StopCall
<1>7. CASE ReaderClose
  BY <1>7 DEF ReaderClose
<1>8. CASE UNCHANGED managerVars
  BY <1>8 DEF managerVars
<1> QED BY <1>1, <1>2, <1>3, <1>4, <1>5, <1>6, <1>7, <1>8 DEF ManagerNext

(* A reader made for one path never takes another (assignedPath).          *)
THEOREM KeepsItsLane == ManagerSpec => []OwnLane
<1>1. ManagerInit => LaneInv
  BY LaneInit, LanesApart DEF ManagerInit, LaneInv
<1>2. ManagerSpec => []LaneInv
  BY <1>1, LaneStep, PTL DEF ManagerSpec
<1> QED BY <1>2, PTL DEF LaneInv

(* The device a reader uses is open and in its lane (device_manager.go).   *)
THEOREM ReaderKeepsItsDevice == ManagerSpec => []DeviceIsOwn
BY DeviceIsOpen, KeepsItsLane, PTL DEF DeviceIsOwn

=============================================================================
