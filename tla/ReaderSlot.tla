----------------------------- MODULE ReaderSlot -----------------------------
(***************************************************************************)
(* One NFC reader's operation slot: nfc/reader.go, nfc/reader_lease.go and *)
(* nfc/sequence.go.  A deviceReader lets one tag operation at a time talk  *)
(* to the card.  What takes the slot is an operation goroutine (which      *)
(* keeps it after its caller gave up), a poll, or a raw session lease      *)
(* (which keeps it between a client's exchanges); Stop drains them all.    *)
(*                                                                         *)
(* One step of the model is one critical section, channel operation or     *)
(* card exchange of the code.  What is on the card, how long a transfer    *)
(* takes and what the clock reads are choices of the environment, and so   *)
(* is which operation an admitted caller came for.                         *)
(***************************************************************************)
EXTENDS Integers, FiniteSets

CONSTANTS
    Callers,    \* goroutines calling the reader (a client's dispatch loop)
    Ops,        \* operation goroutines that withTagOperation can have alive
    Polls,      \* doPoll goroutines: one may outlive pollOnce's five seconds
    Leases,     \* raw session leases; an id is random and used once
    None

VARIABLES
    slot,       \* opSlot, a channel of capacity one: TRUE when it is full
    at,         \* at[c]: where a caller is
    ref,        \* ref[c]: the lease it ends or exchanges on
    op,         \* op[o]: where an operation goroutine is
    poll,       \* poll[p]: where a doPoll goroutine is
    worker,     \* "loop", "closing", "exited", or the poll pollOnce is waiting for
    stopper,    \* where Stop is, or the lease it is ending
    opsWg,      \* the WaitGroup's counter
    isWriting,  \* deviceReader.isWriting
    current,    \* deviceReader.lease
    phase,      \* phase[l]: how far the lease's life has come
    expired,    \* expired[l]: the clock has passed rawLease.expires
    watch       \* watch[l]: where watchLease is

callVars  == <<at, ref>>
runVars   == <<poll, worker, stopper>>
leaseVars == <<current, phase, expired, watch>>
vars == <<slot, callVars, op, runVars, opsWg, isWriting, leaseVars>>

CallerSteps == {"idle", "waiting", "admitted", "awaiting", "tagging",
                "session", "locked", "exchanging", "ending", "releasing", "dropping"}
OpSteps == {"idle", "reading", "checking", "preparing", "writing", "finished"}
PollSteps == {"idle", "entered", "taking", "polling"}
StopSteps == {"running", "joining", "leasing", "gating", "draining", "drained", "gaveUp"}
Phases == {"none", "held", "ending", "released"}
WatchSteps == {"none", "selecting", "locking", "expiring", "releasing", "gone"}

(* Names kept apart: worker and stopper hold a step, or what they wait for *)
(* or are ending.                                                          *)
ASSUME NamesApart ==
    /\ None \notin Leases
    /\ StopSteps \cap Leases = {}
    /\ {"loop", "closing", "exited"} \cap Polls = {}

TypeOK ==
    /\ slot \in BOOLEAN
    /\ at \in [Callers -> CallerSteps]
    /\ ref \in [Callers -> Leases \cup {None}]
    /\ op \in [Ops -> OpSteps]
    /\ poll \in [Polls -> PollSteps]
    /\ worker \in {"loop", "closing", "exited"} \cup Polls
    /\ stopper \in StopSteps \cup Leases
    /\ opsWg \in Int
    /\ isWriting \in BOOLEAN
    /\ current \in Leases \cup {None}
    /\ phase \in [Leases -> Phases]
    /\ expired \in [Leases -> BOOLEAN]
    /\ watch \in [Leases -> WatchSteps]

(* The reader after Start: the worker is in its loop.                      *)
Init ==
    /\ slot = FALSE
    /\ at = [c \in Callers |-> "idle"]
    /\ ref = [c \in Callers |-> None]
    /\ op = [o \in Ops |-> "idle"]
    /\ poll = [p \in Polls |-> "idle"]
    /\ worker = "loop"
    /\ stopper = "running"
    /\ opsWg = 0
    /\ isWriting = FALSE
    /\ current = None
    /\ phase = [l \in Leases |-> "none"]
    /\ expired = [l \in Leases |-> FALSE]
    /\ watch = [l \in Leases |-> "none"]

stopChanClosed == stopper # "running"
opsClosed == stopper \in {"draining", "drained", "gaveUp"}

Move(c, step) == at' = [at EXCEPT ![c] = step]

-----------------------------------------------------------------------------
(* acquireSlot and withTagOperation, as a caller sees them.                *)

(* The slot if it is free, else wait for it.                               *)
Arrive(c) ==
    /\ at[c] = "idle"
    /\ Move(c, IF slot THEN "waiting" ELSE "admitted")
    /\ slot' = TRUE
    /\ UNCHANGED <<ref, op, runVars, opsWg, isWriting, leaseVars>>

AcquireSlot(c) ==
    /\ at[c] = "waiting"
    /\ ~slot
    /\ slot' = TRUE
    /\ Move(c, "admitted")
    /\ UNCHANGED <<ref, op, runVars, opsWg, isWriting, leaseVars>>

(* Mutant: the waiter frees the slot of the operation it abandons.         *)
LeaveFreeing(c) ==
    /\ at[c] \in {"waiting", "awaiting"}
    /\ slot' = (slot /\ at[c] = "waiting")
    /\ Move(c, "idle")
    /\ UNCHANGED <<ref, op, runVars, opsWg, isWriting, leaseVars>>

(* ctx is done or operationTimeout passed: BUSY while it waits for the     *)
(* slot, abandoned while it waits for the answer (or the answer came).     *)
Leave(c) ==
    /\ at[c] \in {"waiting", "awaiting"}
    /\ Move(c, "idle")
    /\ UNCHANGED <<slot, ref, op, runVars, opsWg, isWriting, leaseVars>>

(* The gate is closed: refuse, and hand back the slot just taken.          *)
RefuseStopping(c) ==
    /\ at[c] = "admitted"
    /\ opsClosed
    /\ slot' = FALSE
    /\ Move(c, "idle")
    /\ UNCHANGED <<ref, op, runVars, opsWg, isWriting, leaseVars>>

(* Mutant: the gate was looked at before the slot was waited for.          *)
RegisterUngated(c, o) ==
    /\ at[c] = "admitted"
    /\ op[o] = "idle"
    /\ opsWg' = opsWg + 1
    /\ op' \in {[op EXCEPT ![o] = step] : step \in {"reading", "checking"}}
    /\ Move(c, "awaiting")
    /\ UNCHANGED <<slot, ref, runVars, isWriting, leaseVars>>

(* Through the gate: the operation runs on a goroutine of its own.         *)
Register(c, o) ==
    /\ at[c] = "admitted"
    /\ ~opsClosed
    /\ op[o] = "idle"
    /\ opsWg' = opsWg + 1
    /\ op' \in {[op EXCEPT ![o] = step] : step \in {"reading", "checking"}}
    /\ Move(c, "awaiting")
    /\ UNCHANGED <<slot, ref, runVars, isWriting, leaseVars>>

-----------------------------------------------------------------------------
(* The operation goroutine.                                                *)

OpStep(o, from, to) ==
    /\ op[o] = from
    /\ op' = [op EXCEPT ![o] = to]
    /\ UNCHANGED <<slot, callVars, runVars, opsWg, leaseVars>>

(* A read, an exchange or a sequence has come back from the card.          *)
OpRead(o) == OpStep(o, "reading", "finished") /\ UNCHANGED isWriting

(* prepareCardForWrite refuses before it touches anything: read-only mode, *)
(* or no device.                                                           *)
OpRefused(o) == OpStep(o, "checking", "finished") /\ UNCHANGED isWriting

(* It marks the write, then looks for the one tag it may write.            *)
OpPrepare(o) == OpStep(o, "checking", "preparing") /\ isWriting' = TRUE

(* No card, several, or another UID: the error returns before the caller's *)
(* deferred isWriting = false was registered.                              *)
OpUnprepared(o) == OpStep(o, "preparing", "finished") /\ UNCHANGED isWriting

OpPrepared(o) == OpStep(o, "preparing", "writing") /\ UNCHANGED isWriting

(* The write or the lock came back, well or badly.                         *)
OpWritten(o) == OpStep(o, "writing", "finished") /\ isWriting' = FALSE

(* The goroutine's deferred calls, whoever still waits for its answer.     *)
OpDone(o) ==
    /\ op[o] = "finished"
    /\ op' = [op EXCEPT ![o] = "idle"]
    /\ slot' = FALSE
    /\ opsWg' = opsWg - 1
    /\ UNCHANGED <<callVars, runVars, isWriting, leaseVars>>

-----------------------------------------------------------------------------
(* The worker and its polls.                                               *)

(* pollOnce, unless stopping, runs doPoll on a goroutine...                *)
PollStart(p) ==
    /\ worker = "loop"
    /\ ~stopChanClosed
    /\ poll[p] = "idle"
    /\ poll' = [poll EXCEPT ![p] = "entered"]
    /\ worker' = p
    /\ UNCHANGED <<slot, callVars, op, stopper, opsWg, isWriting, leaseVars>>

(* ... and goes on once that is done, Stop was called or 5s have passed.   *)
WorkerResume ==
    /\ worker \in Polls
    /\ worker' = "loop"
    /\ UNCHANGED <<slot, callVars, op, poll, stopper, opsWg, isWriting, leaseVars>>

(* Told to stop, it has its device to close...                             *)
WorkerExit ==
    /\ worker = "loop"
    /\ stopChanClosed
    /\ worker' = "closing"
    /\ UNCHANGED <<slot, callVars, op, poll, stopper, opsWg, isWriting, leaseVars>>

(* ... whose mutex a transfer holds (pcsc/device.go).  Whoever talks to    *)
(* the card may be between two transfers, or in one that never comes back: *)
(* the close may come at any time, but is sure to only where nobody does.  *)
WorkerClosed ==
    /\ worker = "closing"
    /\ worker' = "exited"
    /\ UNCHANGED <<slot, callVars, op, poll, stopper, opsWg, isWriting, leaseVars>>

(* doPoll: nothing to do when cooling down, when there was no device, or   *)
(* while a write is marked.                                                *)
PollEnter(p) ==
    /\ poll[p] = "entered"
    /\ poll' \in {[poll EXCEPT ![p] = step] :
                    step \in IF isWriting THEN {"idle"} ELSE {"idle", "taking"}}
    /\ UNCHANGED <<slot, callVars, op, worker, stopper, opsWg, isWriting, leaseVars>>

(* A leased reader is left alone, and a busy one skips the poll.           *)
PollTake(p) ==
    /\ poll[p] = "taking"
    /\ IF slot \/ current # None
         THEN poll' = [poll EXCEPT ![p] = "idle"] /\ UNCHANGED slot
         ELSE poll' = [poll EXCEPT ![p] = "polling"] /\ slot' = TRUE
    /\ UNCHANGED <<callVars, op, worker, stopper, opsWg, isWriting, leaseVars>>

(* handleDeviceErrors clears the write flag, still under the slot.         *)
PollError(p) ==
    /\ poll[p] = "polling"
    /\ isWriting' = FALSE
    /\ UNCHANGED <<slot, callVars, op, runVars, opsWg, leaseVars>>

PollEnd(p) ==
    /\ poll[p] = "polling"
    /\ poll' = [poll EXCEPT ![p] = "idle"]
    /\ slot' = FALSE
    /\ UNCHANGED <<callVars, op, worker, stopper, opsWg, isWriting, leaseVars>>

-----------------------------------------------------------------------------
(* Raw session leases.                                                     *)

(* openLease passes the same gate, and looks at the card on the caller's   *)
(* own goroutine.                                                          *)
BeginGate(c) ==
    /\ at[c] = "admitted"
    /\ ~opsClosed
    /\ opsWg' = opsWg + 1
    /\ Move(c, "tagging")
    /\ UNCHANGED <<slot, ref, op, runVars, isWriting, leaseVars>>

(* Not the tag named, or one that takes no raw exchange.                   *)
BeginRefused(c) ==
    /\ at[c] = "tagging"
    /\ Move(c, "idle")
    /\ opsWg' = opsWg - 1
    /\ slot' = FALSE
    /\ UNCHANGED <<ref, op, runVars, isWriting, leaseVars>>

BeginLease(c, l) ==
    /\ at[c] = "tagging"
    /\ phase[l] = "none"
    /\ Move(c, "idle")
    /\ phase' = [phase EXCEPT ![l] = "held"]
    /\ current' = l
    /\ watch' = [watch EXCEPT ![l] = "selecting"]
    /\ UNCHANGED <<slot, ref, op, runVars, opsWg, isWriting, expired>>

(* The clock passes l.expires.                                             *)
Expire(l) ==
    /\ phase[l] = "held"
    /\ ~expired[l]
    /\ expired' = [expired EXCEPT ![l] = TRUE]
    /\ UNCHANGED <<slot, callVars, op, runVars, opsWg, isWriting, current, phase, watch>>

(* endLease marks the lease, once; then whoever marked it takes it off the *)
(* reader and gives the slot back.                                         *)
MarkEnded(l) == phase' = [phase EXCEPT ![l] = "ending"]

GiveBack(l) ==
    /\ phase' = [phase EXCEPT ![l] = "released"]
    /\ current' = IF current = l THEN None ELSE current
    /\ slot' = FALSE

(* A caller that holds l.exec, which only an exchange takes for longer     *)
(* than a look at the clock.                                               *)
InExec == {"locked", "exchanging", "dropping"}
ExecFree(l) == \A c \in Callers : ~(at[c] \in InExec /\ ref[c] = l)

(* Mutant: a renewed lease is not watched again.                           *)
WatchLookOnce(l) ==
    /\ \/ /\ watch[l] = "selecting"
          /\ expired[l]
          /\ watch' = [watch EXCEPT ![l] = "locking"]
       \/ /\ watch[l] = "locking"
          /\ ExecFree(l)
          /\ watch' = [watch EXCEPT ![l] = IF expired[l] THEN "expiring" ELSE "gone"]
    /\ UNCHANGED <<slot, callVars, op, runVars, opsWg, isWriting, current, phase, expired>>

(* watchLease: its timer fires once the lease expired; it reads the expiry *)
(* again under exec, and lets exec go before it ends the lease.            *)
WatchLook(l) ==
    /\ \/ /\ watch[l] = "selecting"
          /\ expired[l]
          /\ watch' = [watch EXCEPT ![l] = "locking"]
       \/ /\ watch[l] = "locking"
          /\ ExecFree(l)
          /\ watch' = [watch EXCEPT ![l] = IF expired[l] THEN "expiring" ELSE "selecting"]
    /\ UNCHANGED <<slot, callVars, op, runVars, opsWg, isWriting, current, phase, expired>>

WatchEnd(l) ==
    /\ \/ watch[l] = "expiring"
       \/ watch[l] = "selecting" /\ stopChanClosed
    /\ phase[l] = "held"
    /\ MarkEnded(l)
    /\ watch' = [watch EXCEPT ![l] = "releasing"]
    /\ UNCHANGED <<slot, callVars, op, runVars, opsWg, isWriting, current, expired>>

WatchRelease(l) ==
    /\ watch[l] = "releasing"
    /\ GiveBack(l)
    /\ watch' = [watch EXCEPT ![l] = "gone"]
    /\ opsWg' = opsWg - 1
    /\ UNCHANGED <<callVars, op, runVars, isWriting, expired>>

(* Somebody else ended it.                                                 *)
WatchGone(l) ==
    /\ watch[l] \in {"selecting", "expiring"}
    /\ phase[l] # "held"
    /\ watch' = [watch EXCEPT ![l] = "gone"]
    /\ opsWg' = opsWg - 1
    /\ UNCHANGED <<slot, callVars, op, runVars, isWriting, current, phase, expired>>

(* leaseByID, for EndRawSession and for an exchange; what follows acts on  *)
(* the lease found here.                                                   *)
FindLease(c, step) ==
    /\ at[c] = "idle"
    /\ current # None
    /\ Move(c, step)
    /\ ref' = [ref EXCEPT ![c] = current]
    /\ UNCHANGED <<slot, op, runVars, opsWg, isWriting, leaseVars>>

Done(c) == Move(c, "idle") /\ ref' = [ref EXCEPT ![c] = None]

EndRawSession(c) ==
    /\ at[c] = "ending"
    /\ IF phase[ref[c]] = "held"
         THEN MarkEnded(ref[c]) /\ Move(c, "releasing") /\ UNCHANGED ref
         ELSE Done(c) /\ UNCHANGED phase
    /\ UNCHANGED <<slot, op, runVars, opsWg, isWriting, current, expired, watch>>

(* TransceiveInSession and TransceiveSequenceInSession: exec, then for     *)
(* each command a check and an exchange.                                   *)
SessionLock(c) ==
    /\ at[c] = "session"
    /\ ExecFree(ref[c])
    /\ Move(c, "locked")
    /\ UNCHANGED <<slot, ref, op, runVars, opsWg, isWriting, leaseVars>>

SessionSend(c) ==
    /\ at[c] = "locked"
    /\ phase[ref[c]] = "held"
    /\ Move(c, "exchanging")
    /\ UNCHANGED <<slot, ref, op, runVars, opsWg, isWriting, leaseVars>>

(* Each reply renews the lease; a sequence has more steps to send.         *)
SessionReply(c) ==
    /\ at[c] = "exchanging"
    /\ expired' = [expired EXCEPT ![ref[c]] = FALSE]
    /\ Move(c, "locked")
    /\ UNCHANGED <<slot, ref, op, runVars, opsWg, isWriting, current, phase, watch>>

(* The last step was sent, the lease ended, ctx is done, or it failed.     *)
SessionLeave(c) ==
    /\ at[c] \in {"locked", "exchanging"}
    /\ Done(c)
    /\ UNCHANGED <<slot, op, runVars, opsWg, isWriting, leaseVars>>

(* The card has left: the lease ends, with exec still held.                *)
SessionRemoved(c) ==
    /\ at[c] = "exchanging"
    /\ phase[ref[c]] = "held"
    /\ MarkEnded(ref[c])
    /\ Move(c, "dropping")
    /\ UNCHANGED <<slot, ref, op, runVars, opsWg, isWriting, current, expired, watch>>

(* The rest of endLease, for a caller that won it.                         *)
ReleaseLease(c) ==
    /\ at[c] \in {"releasing", "dropping"}
    /\ GiveBack(ref[c])
    /\ Done(c)
    /\ UNCHANGED <<op, runVars, opsWg, isWriting, expired, watch>>

-----------------------------------------------------------------------------
(* Stop.                                                                   *)

(* close(stopChan), workerWg.Wait, later drainOperations' gate and bound.  *)
StopStep(from, to) ==
    /\ stopper = from
    /\ stopper' = to
    /\ UNCHANGED <<slot, callVars, op, poll, worker, opsWg, isWriting, leaseVars>>

StopCall    == StopStep("running", "joining")
StopJoin    == worker = "exited" /\ StopStep("joining", "leasing")
StopGate    == StopStep("gating", "draining")

(* Mutant: nothing waits for the operations.                              *)
StopDrainedAtOnce == StopStep("draining", "drained")

StopDrained == opsWg = 0 /\ StopStep("draining", "drained")

(* Mutant: the wait has no bound.                                          *)
StopWaitForever == opsWg = 0 /\ StopStep("draining", "gaveUp")

StopGiveUp == StopStep("draining", "gaveUp")

(* endAnyLease                                                             *)
StopEndLease ==
    /\ stopper = "leasing"
    /\ IF current # None /\ phase[current] = "held"
         THEN MarkEnded(current) /\ stopper' = current
         ELSE stopper' = "gating" /\ UNCHANGED phase
    /\ UNCHANGED <<slot, callVars, op, poll, worker, opsWg, isWriting, current, expired, watch>>

StopRelease ==
    /\ stopper \in Leases
    /\ GiveBack(stopper)
    /\ stopper' = "gating"
    /\ UNCHANGED <<callVars, op, poll, worker, opsWg, isWriting, expired, watch>>

-----------------------------------------------------------------------------
CallerNext(c) ==
    \/ Arrive(c) \/ AcquireSlot(c) \/ Leave(c) \/ RefuseStopping(c)
    \/ \E o \in Ops : Register(c, o)
    \/ BeginGate(c) \/ BeginRefused(c) \/ \E l \in Leases : BeginLease(c, l)
    \/ FindLease(c, "ending") \/ EndRawSession(c)
    \/ FindLease(c, "session") \/ SessionLock(c) \/ SessionSend(c) \/ SessionReply(c)
    \/ SessionLeave(c) \/ SessionRemoved(c) \/ ReleaseLease(c)

OpNext(o) ==
    \/ OpRead(o) \/ OpRefused(o) \/ OpPrepare(o) \/ OpUnprepared(o)
    \/ OpPrepared(o) \/ OpWritten(o) \/ OpDone(o)

PollNext(p) ==
    PollStart(p) \/ PollEnter(p) \/ PollTake(p) \/ PollError(p) \/ PollEnd(p)

LeaseNext(l) ==
    Expire(l) \/ WatchLook(l) \/ WatchEnd(l) \/ WatchRelease(l) \/ WatchGone(l)

StopNext ==
    \/ WorkerResume \/ WorkerExit \/ WorkerClosed
    \/ StopCall \/ StopJoin \/ StopEndLease \/ StopRelease
    \/ StopGate \/ StopDrained \/ StopGiveUp

Next ==
    \/ \E c \in Callers : CallerNext(c)
    \/ \E o \in Ops : OpNext(o)
    \/ \E p \in Polls : PollNext(p)
    \/ \E l \in Leases : LeaseNext(l)
    \/ StopNext

Spec == Init /\ [][Next]_vars

-----------------------------------------------------------------------------
(* Who holds the slot, and who is talking to the card.                     *)

CallersAt(S) == {c \in Callers : at[c] \in S}
OpsAt(S)     == {o \in Ops : op[o] \in S}
PollsAt(S)   == {p \in Polls : poll[p] \in S}
LeasesAt(S)  == {l \in Leases : phase[l] \in S}

Users == ({"caller"} \X Callers) \cup ({"look"} \X Callers) \cup ({"op"} \X Ops)
            \cup ({"poll"} \X Polls) \cup ({"lease"} \X Leases)

Holders ==
    ({"caller"} \X CallersAt({"admitted"}))
      \cup ({"look"} \X CallersAt({"tagging"}))
      \cup ({"op"} \X OpsAt(OpSteps \ {"idle"}))
      \cup ({"poll"} \X PollsAt({"polling"}))
      \cup ({"lease"} \X LeasesAt({"held", "ending"}))

OnCard ==
    ({"caller"} \X CallersAt({"tagging", "exchanging"}))
      \cup ({"op"} \X OpsAt({"reading", "preparing", "writing"}))
      \cup ({"poll"} \X PollsAt({"polling"}))

(* An exchange whose lease was ended under it.                             *)
Orphaned(c) == at[c] = "exchanging" /\ phase[ref[c]] # "held"

-----------------------------------------------------------------------------
(* Safety.                                                                 *)

(* The channel holds a token exactly while one holder does: nobody takes   *)
(* the slot twice, gives back a slot that is not its own, or loses it on   *)
(* an error path.  `<-r.opSlot` names no owner, so only the order of the   *)
(* code's steps makes this so.                                             *)
SlotAccounted ==
    /\ slot <=> Holders # {}
    /\ \A u, v \in Holders : u = v

(* The card is talked to by one goroutine at a time, abandoned operations  *)
(* and outlived polls included (reader.go:64-68), except by an exchange    *)
(* whose lease was ended while it was in flight.                           *)
CardExclusive ==
    \A u, v \in OnCard :
        \/ u = v
        \/ \E c \in Callers : Orphaned(c) /\ (u = <<"caller", c>> \/ v = <<"caller", c>>)

(* While a lease holds the slot the reader names it, so that a poll leaves *)
(* the card alone and endAnyLease finds it; and an ended lease does not    *)
(* stay named, which would stop polling for good.                          *)
LeaseNamed ==
    /\ \A l \in Leases : phase[l] = "held" => current = l
    /\ current # None => phase[current] \in {"held", "ending"}

(* isWriting, which keeps polls away, stays set from the look for the tag  *)
(* to the end of the write: no poll's error path clears it under a write.  *)
WriteShielded == OpsAt({"preparing", "writing"}) # {} => isWriting

(* What a caller holds is its own: the slot has one holder, the card one   *)
(* user, a lease its name for as long as it lasts, and a write the mark    *)
(* that keeps polls off the card (reader.go, reader_lease.go).             *)
CardUndisturbed == SlotAccounted /\ CardExclusive /\ LeaseNamed /\ WriteShielded

(* A Stop that saw opsWg drain left nothing behind: no operation, no look  *)
(* at the card for a lease, no lease, and nobody watching one.  (A client  *)
(* may still be exchanging on a lease that was ended under it.)            *)
DrainedIsQuiet ==
    stopper = "drained" =>
        /\ OpsAt(OpSteps \ {"idle"}) = {}
        /\ CallersAt({"tagging"}) = {}
        /\ LeasesAt({"held"}) = {}
        /\ \A l \in Leases : watch[l] \in {"none", "gone"}

(* Once drainOperations waits, opsWg never rises: an Add racing the Wait   *)
(* would panic the process (reader.go:73-78).                              *)
NoAddDuringWait == [][opsClosed => opsWg' <= opsWg]_vars

(* The slot and the gate together give turns as CardTurn has them: work    *)
(* starts only from an admitted caller's turn and only before the gate     *)
(* closed, however long before the caller was admitted; a lease has one    *)
(* turn, of whoever looked at the card for it, and ends once.              *)
Turn == INSTANCE CardTurn WITH
            Clients  <- {"caller"} \X Callers,
            Pollers  <- {"poll"} \X Polls,
            Works    <- {"op"} \X Ops,
            Openings <- {"look"} \X Callers,
            Sessions <- {"lease"} \X Leases,
            turn     <- Holders,
            open     <- ~opsClosed,
            spent    <- {"lease"} \X LeasesAt({"released"})
TakesTurns == Turn!Spec

-----------------------------------------------------------------------------
(* Liveness.  The code's own steps and its timers are fair; a transfer to  *)
(* the card may hang for ever.  Who waits for the device's mutex gets it   *)
(* if it is let go again and again (a sync.Mutex hands itself over to a    *)
(* waiter that starves).                                                   *)

CallerFair(c) ==
    /\ WF_vars(Leave(c))
    /\ WF_vars(RefuseStopping(c))
    /\ WF_vars(EndRawSession(c) \/ ReleaseLease(c))

LeaseFair(l) ==
    /\ WF_vars(Expire(l))
    /\ WF_vars(WatchLook(l))
    /\ WF_vars(WatchEnd(l) \/ WatchRelease(l) \/ WatchGone(l))

StopFair ==
    /\ WF_vars(WorkerResume \/ WorkerExit)
    /\ SF_vars(WorkerClosed /\ OnCard = {})
    /\ WF_vars(StopJoin \/ StopEndLease \/ StopRelease \/ StopGate)
    /\ WF_vars(StopDrained \/ StopGiveUp)

FairSpec ==
    /\ Spec
    /\ \A c \in Callers : CallerFair(c)
    /\ \A o \in Ops : WF_vars(OpDone(o))
    /\ \A p \in Polls : WF_vars(PollEnter(p) \/ PollTake(p))
    /\ \A l \in Leases : LeaseFair(l)
    /\ StopFair

(* Stop comes back if the card is let alone time and again; and once it    *)
(* has joined the worker, whatever is stuck in a transfer that cannot be   *)
(* interrupted (drainOperations).  Before that, such a transfer keeps the  *)
(* worker from closing the device, and Stop from joining the worker.       *)
StopReturns ==
    LET returned == stopper \in {"drained", "gaveUp"} IN
    /\ []<>(OnCard = {}) => ((stopper = "joining") ~> returned)
    /\ (stopper = "leasing") ~> returned

(* A client that falls silent loses its lease, and the slot with it,       *)
(* whether or not it said so.                                              *)
Silent(l) == \A c \in Callers : ref[c] = l => at[c] \notin {"session", "locked", "exchanging"}

SilentLeaseEnds ==
    \A l \in Leases :
        <>[]Silent(l) => ((phase[l] = "held") ~> (phase[l] = "released"))

=============================================================================
