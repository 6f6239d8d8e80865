---------------------------- MODULE DeviceManager ----------------------------
(***************************************************************************)
(* The connection one reader keeps to its device: nfc/device_manager.go,   *)
(* driven by the reader's constructor, its polls and its worker            *)
(* (nfc/reader.go).  A poll may outlive the five seconds its worker waits  *)
(* for it, and Stop; so several goroutines may be connecting at once.      *)
(*                                                                         *)
(* A step is one critical section of dm.mu, or one call to the driver.     *)
(* How a driver call comes out, which class its error is of, and when a    *)
(* timer fires are choices of the environment.                             *)
(***************************************************************************)
EXTENDS Integers

CONSTANTS
    Polls,          \* doPoll goroutines that can be alive at once
    Ctor,           \* the goroutine that builds the reader
    Handles,        \* what OpenDevice can return before the driver has no more
    Lanes,          \* device paths the manager lists
    NoLane,         \* the empty path
    Assignments,    \* the paths a reader may be assigned; NoLane for none
    MaxRetries,     \* timeouts retried before a cooldown
    MaxAttempts,    \* MaxReconnectTries (three when forced)
    Nothing

Threads == Polls \cup {Ctor}

ASSUME LanesApart ==
    /\ NoLane \notin Lanes
    /\ Assignments \subseteq Lanes \cup {NoLane}
    /\ Nothing \notin Handles
    /\ Nothing \notin Polls
    /\ Ctor \notin Polls
ASSUME BoundsOK == MaxRetries \in Nat /\ MaxAttempts \in Nat \ {0}

VARIABLES
    assigned,   \* dm.assignedPath, set once
    device,     \* dm.device: a handle, or Nothing (then hasDevice is false)
    open,       \* the handles the driver has open
    path,       \* dm.devicePath
    retryCount, \* dm.retryCount
    inCooldown, \* dm.inCooldown
    pc,         \* pc[t]: where a thread is
    why,        \* why[t]: who called TryConnect
    attempt,    \* attempt[t]: of reconnectDevice
    hand,       \* hand[t]: the device a thread read or opened
    dest,       \* dest[t]: the path it is opening
    slot,       \* the poll that holds opSlot, or Nothing
    worker,     \* "building", "loop", "exited", or the poll it waits for
    stopping,   \* stopChan is closed
    closed      \* the supervisor's reader.Close() after Stop is done

connVars == <<device, open, path>>
coolVars == <<retryCount, inCooldown>>
tryVars  == <<why, attempt, hand, dest>>
endVars  == <<worker, stopping, closed>>
managerVars == <<assigned, connVars, coolVars, pc, tryVars, slot, endVars>>

Steps == {"idle", "looking", "withDevice", "withoutDevice", "discovering",
          "trying", "checking", "dialing", "opening", "installing", "reconnected",
          "polling", "failed", "cooling", "pausing", "resetting", "backing",
          "retrying", "sending", "leaving"}
Reasons == {"poll", "build", "force", "retry"}

ManagerTypeOK ==
    /\ assigned \in Assignments
    /\ device \in Handles \cup {Nothing}
    /\ open \subseteq Handles
    /\ path \in Lanes \cup {NoLane}
    /\ retryCount \in 0..MaxRetries
    /\ inCooldown \in BOOLEAN
    /\ pc \in [Threads -> Steps]
    /\ why \in [Threads -> Reasons]
    /\ attempt \in [Threads -> 0..MaxAttempts]
    /\ hand \in [Threads -> Handles \cup {Nothing}]
    /\ dest \in [Threads -> Lanes \cup {NoLane}]
    /\ slot \in Polls \cup {Nothing}
    /\ worker \in {"building", "loop", "exited"} \cup Polls
    /\ stopping \in BOOLEAN
    /\ closed \in BOOLEAN

(* newDeviceReader has made the manager and calls EnsureConnected.         *)
ManagerInit ==
    /\ device = Nothing
    /\ open = {}
    /\ assigned \in Assignments
    /\ path = assigned
    /\ retryCount = 0
    /\ inCooldown = FALSE
    /\ pc = [t \in Threads |-> IF t = Ctor THEN "trying" ELSE "idle"]
    /\ why = [t \in Threads |-> IF t = Ctor THEN "build" ELSE "poll"]
    /\ attempt = [t \in Threads |-> 0]
    /\ hand = [t \in Threads |-> Nothing]
    /\ dest = [t \in Threads |-> NoLane]
    /\ slot = Nothing
    /\ worker = "building"
    /\ stopping = FALSE
    /\ closed = FALSE

Goto(t, step) == pc' = [pc EXCEPT ![t] = step]

(* Under dm.mu: close what is there and forget it.                         *)
DropDevice == open' = open \ {device} /\ device' = Nothing

(* The constructor waits on a stop channel nobody closes.                  *)
Cancelled(t) == stopping /\ t # Ctor

-----------------------------------------------------------------------------
(* The worker, its polls and Stop.                                         *)

PollStart(p) ==
    /\ worker = "loop"
    /\ ~stopping
    /\ pc[p] = "idle"
    /\ Goto(p, "looking")
    /\ worker' = p
    /\ UNCHANGED <<assigned, connVars, coolVars, tryVars, slot, stopping, closed>>

(* The poll is done, Stop was called, or five seconds have passed.         *)
WorkerResume ==
    /\ worker \in Polls
    /\ worker' = "loop"
    /\ UNCHANGED <<assigned, connVars, coolVars, pc, tryVars, slot, stopping, closed>>

(* The worker's deferred Close.                                            *)
WorkerExit ==
    /\ worker = "loop"
    /\ stopping
    /\ worker' = "exited"
    /\ DropDevice
    /\ UNCHANGED <<assigned, path, coolVars, pc, tryVars, slot, stopping, closed>>

StopCall ==
    /\ worker # "building"
    /\ ~stopping
    /\ stopping' = TRUE
    /\ UNCHANGED <<assigned, connVars, coolVars, pc, tryVars, slot, worker, closed>>

(* The supervisor's reader.Close(), once Stop has come back.               *)
ReaderClose ==
    /\ worker = "exited"
    /\ ~closed
    /\ closed' = TRUE
    /\ DropDevice
    /\ UNCHANGED <<assigned, path, coolVars, pc, tryVars, slot, worker, stopping>>

(* doPoll reads hasDevice, then inCooldown.                                *)
PollLook(p) ==
    /\ pc[p] = "looking"
    /\ Goto(p, IF device = Nothing THEN "withoutDevice" ELSE "withDevice")
    /\ UNCHANGED <<assigned, connVars, coolVars, tryVars, slot, endVars>>

PollCooling(p) ==
    /\ pc[p] \in {"withDevice", "withoutDevice"}
    /\ inCooldown
    /\ Goto(p, "idle")
    /\ UNCHANGED <<assigned, connVars, coolVars, tryVars, slot, endVars>>

(* Mutant: a reader without a path waits for one.                          *)
PollConnectAssigned(p) ==
    /\ pc[p] = "withoutDevice"
    /\ ~inCooldown
    /\ Goto(p, IF path = NoLane THEN "idle" ELSE "trying")
    /\ why' = [why EXCEPT ![p] = "poll"]
    /\ UNCHANGED <<assigned, connVars, coolVars, attempt, hand, dest, slot, endVars>>

(* No device: connect on the path, or on one it discovers.                 *)
PollConnect(p) ==
    /\ pc[p] = "withoutDevice"
    /\ ~inCooldown
    /\ Goto(p, IF path = NoLane THEN "discovering" ELSE "trying")
    /\ why' = [why EXCEPT ![p] = "poll"]
    /\ UNCHANGED <<assigned, connVars, coolVars, attempt, hand, dest, slot, endVars>>

PollDiscover(p) ==
    /\ pc[p] = "discovering"
    /\ \/ Goto(p, "idle") /\ UNCHANGED path
       \/ Goto(p, "trying") /\ path' \in Lanes
    /\ UNCHANGED <<assigned, device, open, coolVars, tryVars, slot, endVars>>

(* A device: skip this poll (a write is marked, a lease or an operation    *)
(* has the reader), or take the slot and ask for the tags.                 *)
PollTake(p) ==
    /\ pc[p] = "withDevice"
    /\ ~inCooldown
    /\ \/ Goto(p, "idle") /\ UNCHANGED slot
       \/ slot = Nothing /\ slot' = p /\ Goto(p, "polling")
    /\ UNCHANGED <<assigned, connVars, coolVars, tryVars, endVars>>

-----------------------------------------------------------------------------
(* TryConnect.                                                             *)

TrySucceeded(t) ==
    Goto(t, CASE why[t] = "poll"  -> "idle"
              [] why[t] = "force" -> "leaving"
              [] OTHER            -> "reconnected")

TryFailed(t) ==
    Goto(t, CASE why[t] = "poll"  -> "idle"
              [] why[t] = "build" -> "failed"
              [] OTHER            -> "backing")

TryLook(t) ==
    /\ pc[t] = "trying"
    /\ hand' = [hand EXCEPT ![t] = device]
    /\ Goto(t, IF device = Nothing THEN "dialing" ELSE "checking")
    /\ UNCHANGED <<assigned, connVars, coolVars, why, attempt, dest, slot, endVars>>

(* The device it read answers the health check, or has none.               *)
Healthy(t) ==
    /\ pc[t] = "checking"
    /\ hand' = [hand EXCEPT ![t] = Nothing]
    /\ TrySucceeded(t)
    /\ UNCHANGED <<assigned, connVars, coolVars, why, attempt, dest, slot, endVars>>

(* It closes the device it read, and forgets the one there is now.         *)
Unhealthy(t) ==
    /\ pc[t] = "checking"
    /\ open' = open \ {hand[t]}
    /\ device' = Nothing
    /\ hand' = [hand EXCEPT ![t] = Nothing]
    /\ Goto(t, "dialing")
    /\ UNCHANGED <<assigned, path, coolVars, why, attempt, dest, slot, endVars>>

Dial(t) ==
    /\ pc[t] = "dialing"
    /\ IF path = NoLane
         THEN TryFailed(t) /\ UNCHANGED dest
         ELSE Goto(t, "opening") /\ dest' = [dest EXCEPT ![t] = path]
    /\ UNCHANGED <<assigned, connVars, coolVars, why, attempt, hand, slot, endVars>>

(* A handle nobody has.                                                    *)
Fresh(h) == h \notin open /\ h # device /\ \A t \in Threads : hand[t] # h

Opened(t) ==
    /\ pc[t] = "opening"
    /\ \E h \in Handles :
          /\ Fresh(h)
          /\ open' = open \cup {h}
          /\ hand' = [hand EXCEPT ![t] = h]
    /\ Goto(t, "installing")
    /\ UNCHANGED <<assigned, device, path, coolVars, why, attempt, dest, slot, endVars>>

OpenFailed(t) ==
    /\ pc[t] = "opening"
    /\ dest' = [dest EXCEPT ![t] = NoLane]
    /\ TryFailed(t)
    /\ UNCHANGED <<assigned, connVars, coolVars, why, attempt, hand, slot, endVars>>

Install(t) ==
    /\ pc[t] = "installing"
    /\ device' = hand[t]
    /\ path' = dest[t]
    /\ hand' = [hand EXCEPT ![t] = Nothing]
    /\ dest' = [dest EXCEPT ![t] = NoLane]
    /\ TrySucceeded(t)
    /\ UNCHANGED <<assigned, open, coolVars, why, attempt, slot, endVars>>

(* Reconnect or EnsureConnected worked.                                    *)
Reconnected(t) ==
    /\ pc[t] = "reconnected"
    /\ retryCount' = 0
    /\ Goto(t, "leaving")
    /\ UNCHANGED <<assigned, connVars, inCooldown, tryVars, slot, endVars>>

-----------------------------------------------------------------------------
(* reconnectDevice.                                                        *)

Reconnect(t, reason, step) ==
    /\ DropDevice
    /\ why' = [why EXCEPT ![t] = reason]
    /\ attempt' = [attempt EXCEPT ![t] = 1]
    /\ Goto(t, step)
    /\ UNCHANGED <<assigned, path, coolVars, hand, dest, slot, endVars>>

(* After PostErrorPauseTime: close, and let the device reset.              *)
ForceReconnect(t) == pc[t] = "pausing" /\ Reconnect(t, "force", "resetting")

ResetDone(t) ==
    /\ pc[t] = "resetting"
    /\ Goto(t, "trying")
    /\ UNCHANGED <<assigned, connVars, coolVars, tryVars, slot, endVars>>

(* After the retry's delay.                                                *)
RetryReconnect(t) == pc[t] = "retrying" /\ Reconnect(t, "retry", "trying")

RetryAborted(t) ==
    /\ pc[t] = "retrying"
    /\ Cancelled(t)
    /\ Goto(t, "leaving")
    /\ UNCHANGED <<assigned, connVars, coolVars, tryVars, slot, endVars>>

NextAttempt(t) ==
    /\ pc[t] = "backing"
    /\ attempt[t] < MaxAttempts
    /\ attempt' = [attempt EXCEPT ![t] = @ + 1]
    /\ Goto(t, "trying")
    /\ UNCHANGED <<assigned, connVars, coolVars, why, hand, dest, slot, endVars>>

(* Out of attempts, or stopped while waiting; a forced reconnection then   *)
(* goes back to the path the reader was made for.                          *)
GiveUp(t) ==
    /\ \/ pc[t] = "backing" /\ (attempt[t] = MaxAttempts \/ Cancelled(t))
       \/ pc[t] = "resetting" /\ Cancelled(t)
    /\ path' = IF why[t] = "force" THEN assigned ELSE path
    /\ Goto(t, "leaving")
    /\ UNCHANGED <<assigned, device, open, coolVars, tryVars, slot, endVars>>

-----------------------------------------------------------------------------
(* handleDeviceErrors and HandleError, by class of error.                  *)

Erring(t) == pc[t] \in {"polling", "failed"}

(* No error, no card, or a tag the reader cannot use.                      *)
NoError(t) ==
    /\ Erring(t)
    /\ Goto(t, "leaving")
    /\ UNCHANGED <<assigned, connVars, coolVars, tryVars, slot, endVars>>

(* Mutant: the closed device stays the current one.                        *)
CardRemovedKept(p) ==
    /\ pc[p] = "polling"
    /\ open' = open \ {device}
    /\ Goto(p, "leaving")
    /\ UNCHANGED <<assigned, device, path, coolVars, tryVars, slot, endVars>>

CardRemoved(p) ==
    /\ pc[p] = "polling"
    /\ DropDevice
    /\ Goto(p, "leaving")
    /\ UNCHANGED <<assigned, path, coolVars, tryVars, slot, endVars>>

(* A tag to publish, waiting for room in dataChan.                         *)
TagSeen(p) ==
    /\ pc[p] = "polling"
    /\ Goto(p, "sending")
    /\ UNCHANGED <<assigned, connVars, coolVars, tryVars, slot, endVars>>

IOError(t) ==
    /\ Erring(t)
    /\ DropDevice
    /\ \E step \in {"cooling", "pausing"} : Goto(t, step)
    /\ UNCHANGED <<assigned, path, coolVars, tryVars, slot, endVars>>

(* One the ACR122 needs a cooldown for.                                    *)
EnterCooldown(t) ==
    /\ pc[t] = "cooling"
    /\ inCooldown' = TRUE
    /\ Goto(t, "leaving")
    /\ UNCHANGED <<assigned, connVars, retryCount, tryVars, slot, endVars>>

RetryTimeout(t) ==
    /\ Erring(t)
    /\ retryCount < MaxRetries
    /\ retryCount' = retryCount + 1
    /\ Goto(t, "retrying")
    /\ UNCHANGED <<assigned, connVars, inCooldown, tryVars, slot, endVars>>

TimeoutCooldown(t) ==
    /\ Erring(t)
    /\ retryCount = MaxRetries
    /\ DropDevice
    /\ path' = assigned
    /\ retryCount' = 0
    /\ inCooldown' = TRUE
    /\ Goto(t, "leaving")
    /\ UNCHANGED <<assigned, tryVars, slot, endVars>>

(* Another error: the poll reports it when it has no device, the           *)
(* constructor leaves it to the worker.                                    *)
OtherError(t) ==
    /\ Erring(t)
    /\ Goto(t, IF device = Nothing /\ t # Ctor THEN "sending" ELSE "leaving")
    /\ UNCHANGED <<assigned, connVars, coolVars, tryVars, slot, endVars>>

(* The consumer takes it.                                                  *)
Consume(p) ==
    /\ pc[p] = "sending"
    /\ Goto(p, "leaving")
    /\ UNCHANGED <<assigned, connVars, coolVars, tryVars, slot, endVars>>

(* Mutant: the send waits for the consumer only.                           *)
SendBlocked(p) == pc[p] = "sending" /\ UNCHANGED managerVars

SendAborted(p) ==
    /\ pc[p] = "sending"
    /\ stopping
    /\ Goto(p, "leaving")
    /\ UNCHANGED <<assigned, connVars, coolVars, tryVars, slot, endVars>>

(* The poll's deferred release; for the constructor, Start.                *)
ThreadLeave(t) ==
    /\ pc[t] = "leaving"
    /\ Goto(t, "idle")
    /\ slot' = IF slot = t THEN Nothing ELSE slot
    /\ worker' = IF t = Ctor THEN "loop" ELSE worker
    /\ why' = [why EXCEPT ![t] = "poll"]
    /\ attempt' = [attempt EXCEPT ![t] = 0]
    /\ UNCHANGED <<assigned, connVars, coolVars, hand, dest, stopping, closed>>

-----------------------------------------------------------------------------
Connecting(t) ==
    \/ TryLook(t) \/ Healthy(t) \/ Unhealthy(t) \/ Dial(t)
    \/ Opened(t) \/ OpenFailed(t) \/ Install(t) \/ Reconnected(t)
    \/ ForceReconnect(t) \/ ResetDone(t) \/ RetryReconnect(t) \/ RetryAborted(t)
    \/ NextAttempt(t) \/ GiveUp(t)

Handling(t) ==
    \/ NoError(t) \/ IOError(t) \/ EnterCooldown(t) \/ RetryTimeout(t)
    \/ TimeoutCooldown(t) \/ OtherError(t) \/ ThreadLeave(t)

Polling(p) ==
    \/ PollStart(p) \/ PollLook(p) \/ PollCooling(p) \/ PollConnect(p)
    \/ PollDiscover(p) \/ PollTake(p) \/ CardRemoved(p) \/ TagSeen(p)
    \/ Consume(p) \/ SendAborted(p)

ManagerNext ==
    \/ \E t \in Threads : Connecting(t) \/ Handling(t)
    \/ \E p \in Polls : Polling(p)
    \/ WorkerResume \/ WorkerExit \/ StopCall \/ ReaderClose

ManagerSpec == ManagerInit /\ [][ManagerNext]_managerVars

-----------------------------------------------------------------------------
(* Safety.                                                                 *)

(* The device operations and polls use is one the driver has open: every   *)
(* path that closes a device also forgets it.                              *)
CurrentIsOpen == device # Nothing => device \in open

(* A reader made for one path opens that path and no other, whatever went  *)
(* wrong with it (device_manager.go:75-80).                                *)
OwnLane ==
    assigned # NoLane =>
        /\ path = assigned
        /\ \A t \in Threads : pc[t] \in {"opening", "installing"} => dest[t] = assigned

(* The device a reader uses is its own: open, and at its path when it was  *)
(* given one, although polls overlap and each may drop or replace it.      *)
DeviceIsOwn == CurrentIsOpen /\ OwnLane

-----------------------------------------------------------------------------
(* Liveness.  Goroutines take their steps and timers fire; the driver      *)
(* answers, and a device that is tried over and over opens some time.      *)

ManagerFairSpec ==
    /\ ManagerSpec
    /\ \A t \in Threads : WF_managerVars(Connecting(t)) /\ WF_managerVars(Handling(t))
    /\ \A p \in Polls :
          /\ WF_managerVars(PollStart(p))
          /\ WF_managerVars(PollLook(p) \/ PollCooling(p) \/ PollConnect(p) \/ PollTake(p))
          /\ WF_managerVars(PollDiscover(p))
          /\ WF_managerVars(SendAborted(p))
          /\ SF_managerVars(PollDiscover(p) /\ pc'[p] = "trying")
    /\ SF_managerVars(\E t \in Threads : Opened(t))
    /\ WF_managerVars(WorkerResume) /\ WF_managerVars(WorkerExit) /\ WF_managerVars(ReaderClose)

(* No poll outlives Stop for good, a stalled consumer or none.             *)
PollsEnd == stopping ~> (\A p \in Polls : pc[p] = "idle")

(* A reader without its device goes on trying until it has it.             *)
Reconnects == (device = Nothing) ~> (device # Nothing \/ inCooldown \/ stopping)

=============================================================================
