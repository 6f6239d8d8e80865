-------------------------- MODULE ReaderSlotProofs --------------------------
(* What a reader guarantees its callers.  ReaderSlot, for every set of      *)
(* callers, operations, polls and leases: the safety of the operation slot *)
(* (nfc/reader.go, nfc/reader_lease.go).  CardWrite, for every size of the *)
(* NDEF area, every set of cards, requests and keys, and any faults: what  *)
(* the write and the lock that hold the slot report of the card, from what *)
(* is planned (WriteInv), and that a write which fails met the faults for  *)
(* it, from what is on track (TrackInv) (nfc/write_and_lock.go and the     *)
(* drivers of nfc/tag_*.go).                                               *)
EXTENDS ReaderSlot, CardWrite, SequenceTheorems, FiniteSetTheorems, TLAPS

-----------------------------------------------------------------------------
(* Types.                                                                  *)

(* Every step keeps the variables in their sets.                           *)
LEMMA TypeStep == TypeOK /\ [Next]_vars => TypeOK'
<1> SUFFICES ASSUME TypeOK, [Next]_vars PROVE TypeOK'
  OBVIOUS
<1> USE NamesApart DEF TypeOK, CallerSteps, OpSteps, PollSteps, StopSteps,
        Phases, WatchSteps, Move, MarkEnded, GiveBack, Done, OpStep, StopStep,
        callVars, runVars, leaseVars
<1>1. ASSUME NEW c \in Callers, CallerNext(c) PROVE TypeOK'
  <2>1. CASE Arrive(c)
    BY <2>1 DEF Arrive
  <2>2. CASE AcquireSlot(c)
    BY <2>2 DEF AcquireSlot
  <2>3. CASE Leave(c)
    BY <2>3 DEF Leave
  <2>4. CASE RefuseStopping(c)
    BY <2>4 DEF RefuseStopping
  <2>5. CASE \E o \in Ops : Register(c, o)
    BY <2>5 DEF Register
  <2>6. CASE BeginGate(c)
    BY <2>6 DEF BeginGate
  <2>7. CASE BeginRefused(c)
    <3>1. slot' \in BOOLEAN
      BY <2>7, Zenon DEF BeginRefused
    <3>2. opsWg' \in Int
      BY <2>7, SMT DEF BeginRefused
    <3> QED BY <2>7, <3>1, <3>2 DEF BeginRefused
  <2>8. CASE \E l \in Leases : BeginLease(c, l)
    BY <2>8 DEF BeginLease
  <2>9. CASE FindLease(c, "ending")
    BY <2>9 DEF FindLease
  <2>10. CASE FindLease(c, "session")
    BY <2>10 DEF FindLease
  <2>11. CASE EndRawSession(c)
    BY <2>11 DEF EndRawSession
  <2>12. CASE SessionLock(c)
    BY <2>12 DEF SessionLock
  <2>13. CASE SessionSend(c)
    BY <2>13 DEF SessionSend
  <2>14. CASE SessionReply(c)
    BY <2>14 DEF SessionReply
  <2>15. CASE SessionLeave(c)
    BY <2>15 DEF SessionLeave
  <2>16. CASE SessionRemoved(c)
    BY <2>16 DEF SessionRemoved
  <2>17. CASE ReleaseLease(c)
    BY <2>17 DEF ReleaseLease
  <2> QED BY <1>1, <2>1, <2>2, <2>3, <2>4, <2>5, <2>6, <2>7, <2>8, <2>9, <2>10, <2>11, <2>12, <2>13, <2>14, <2>15, <2>16, <2>17 DEF CallerNext
<1>2. ASSUME NEW o \in Ops, OpNext(o) PROVE TypeOK'
  <2>1. CASE OpRead(o)
    BY <2>1 DEF OpRead
  <2>2. CASE OpRefused(o)
    BY <2>2 DEF OpRefused
  <2>3. CASE OpPrepare(o)
    BY <2>3 DEF OpPrepare
  <2>4. CASE OpUnprepared(o)
    BY <2>4 DEF OpUnprepared
  <2>5. CASE OpPrepared(o)
    BY <2>5 DEF OpPrepared
  <2>6. CASE OpWritten(o)
    BY <2>6 DEF OpWritten
  <2>7. CASE OpDone(o)
    <3>1. slot' \in BOOLEAN
      BY <2>7, Zenon DEF OpDone
    <3>2. opsWg' \in Int
      BY <2>7, SMT DEF OpDone
    <3> QED BY <2>7, <3>1, <3>2 DEF OpDone
  <2> QED BY <1>2, <2>1, <2>2, <2>3, <2>4, <2>5, <2>6, <2>7 DEF OpNext
<1>3. ASSUME NEW p \in Polls, PollNext(p) PROVE TypeOK'
  <2>1. CASE PollStart(p)
    BY <2>1 DEF PollStart
  <2>2. CASE PollEnter(p)
    BY <2>2 DEF PollEnter
  <2>3. CASE PollTake(p)
    BY <2>3 DEF PollTake
  <2>4. CASE PollError(p)
    BY <2>4 DEF PollError
  <2>5. CASE PollEnd(p)
    BY <2>5 DEF PollEnd
  <2> QED BY <1>3, <2>1, <2>2, <2>3, <2>4, <2>5 DEF PollNext
<1>4. ASSUME NEW l \in Leases, LeaseNext(l) PROVE TypeOK'
  <2>1. CASE Expire(l)
    BY <2>1 DEF Expire
  <2>2. CASE WatchLook(l)
    BY <2>2 DEF WatchLook
  <2>3. CASE WatchEnd(l)
    BY <2>3 DEF WatchEnd
  <2>4. CASE WatchRelease(l)
    <3>1. slot' \in BOOLEAN
      BY <2>4, Zenon DEF WatchRelease
    <3>2. opsWg' \in Int
      BY <2>4, SMT DEF WatchRelease
    <3> QED BY <2>4, <3>1, <3>2 DEF WatchRelease
  <2>5. CASE WatchGone(l)
    BY <2>5 DEF WatchGone
  <2> QED BY <1>4, <2>1, <2>2, <2>3, <2>4, <2>5 DEF LeaseNext
<1>5. CASE StopNext
  <2>1. CASE WorkerResume
    BY <2>1 DEF WorkerResume
  <2>2. CASE WorkerExit
    BY <2>2 DEF WorkerExit
  <2>10. CASE WorkerClosed
    BY <2>10 DEF WorkerClosed
  <2>3. CASE StopCall
    BY <2>3 DEF StopCall
  <2>4. CASE StopJoin
    BY <2>4 DEF StopJoin
  <2>5. CASE StopEndLease
    BY <2>5 DEF StopEndLease
  <2>6. CASE StopRelease
    BY <2>6 DEF StopRelease
  <2>7. CASE StopGate
    BY <2>7 DEF StopGate
  <2>8. CASE StopDrained
    BY <2>8 DEF StopDrained
  <2>9. CASE StopGiveUp
    BY <2>9 DEF StopGiveUp
  <2> QED BY <1>5, <2>1, <2>2, <2>3, <2>4, <2>5, <2>6, <2>7, <2>8, <2>9, <2>10 DEF StopNext
<1>6. CASE UNCHANGED vars
  BY <1>6 DEF vars
<1> QED BY <1>1, <1>2, <1>3, <1>4, <1>5, <1>6 DEF Next

LEMMA TypeInit == Init => TypeOK
<1> SUFFICES ASSUME Init PROVE TypeOK
  OBVIOUS
<1>1. slot \in BOOLEAN /\ isWriting \in BOOLEAN
  BY Zenon DEF Init
<1>2. expired \in [Leases -> BOOLEAN]
  BY DEF Init
<1>3. opsWg \in Int
  BY SMT DEF Init
<1> QED BY <1>1, <1>2, <1>3 DEF Init, TypeOK, CallerSteps, OpSteps, PollSteps,
                               StopSteps, Phases, WatchSteps

(* The reader's state is well typed (deviceReader, rawLease).              *)
THEOREM TypeCorrect == Spec => []TypeOK
BY TypeInit, TypeStep, PTL DEF Spec

-----------------------------------------------------------------------------
(* Who is ending a lease, and who is exchanging on it.                     *)

(* A caller past leaseByID has a lease in hand.                            *)
RefNamed ==
    \A c \in Callers :
        at[c] \in {"session", "locked", "exchanging", "ending", "releasing", "dropping"}
            => ref[c] \in Leases

(* Whoever is in the middle of endLease finds its lease still marked...    *)
EnderMarked ==
    /\ \A c \in CallersAt({"releasing", "dropping"}) : phase[ref[c]] = "ending"
    /\ \A l \in Leases : watch[l] = "releasing" => phase[l] = "ending"
    /\ stopper \in Leases => phase[stopper] = "ending"

(* ... and is alone in it.                                                 *)
OneEnder ==
    /\ \A c, d \in CallersAt({"releasing", "dropping"}) : ref[c] = ref[d] => c = d
    /\ \A c \in CallersAt({"releasing", "dropping"}) :
          watch[ref[c]] # "releasing" /\ stopper # ref[c]
    /\ stopper \in Leases => watch[stopper] # "releasing"

(* One exchange at a time holds a lease's exec.                            *)
OneInExec ==
    \A c, d \in CallersAt(InExec) : ref[c] = ref[d] => c = d

EnderInv == TypeOK /\ RefNamed /\ EnderMarked /\ OneEnder /\ OneInExec

LEMMA EnderStep == EnderInv /\ [Next]_vars => EnderInv'
<1> SUFFICES ASSUME EnderInv, [Next]_vars PROVE RefNamed' /\ EnderMarked' /\ OneEnder' /\ OneInExec'
  BY TypeStep DEF EnderInv
<1> DEFINE Goal == RefNamed /\ EnderMarked /\ OneEnder /\ OneInExec
<1> USE NamesApart DEF EnderInv, TypeOK, RefNamed, EnderMarked, OneEnder, OneInExec,
        CallersAt, InExec, StopSteps, Move, MarkEnded, GiveBack, Done, OpStep, StopStep,
        callVars, runVars, leaseVars
<1>1. ASSUME NEW c \in Callers, CallerNext(c) PROVE Goal'
  <2>1. CASE Arrive(c)
    BY <2>1 DEF Arrive
  <2>2. CASE AcquireSlot(c)
    BY <2>2 DEF AcquireSlot
  <2>3. CASE Leave(c)
    BY <2>3 DEF Leave
  <2>4. CASE RefuseStopping(c)
    BY <2>4 DEF RefuseStopping
  <2>5. CASE \E o \in Ops : Register(c, o)
    BY <2>5 DEF Register
  <2>6. CASE BeginGate(c)
    BY <2>6 DEF BeginGate
  <2>7. CASE BeginRefused(c)
    BY <2>7 DEF BeginRefused
  <2>8. CASE \E l \in Leases : BeginLease(c, l)
    BY <2>8 DEF BeginLease
  <2>9. CASE FindLease(c, "ending")
    BY <2>9 DEF FindLease
  <2>10. CASE FindLease(c, "session")
    BY <2>10 DEF FindLease
  <2>11. CASE EndRawSession(c)
    BY <2>11 DEF EndRawSession
  <2>12. CASE SessionLock(c)
    BY <2>12 DEF SessionLock, ExecFree
  <2>13. CASE SessionSend(c)
    BY <2>13 DEF SessionSend
  <2>14. CASE SessionReply(c)
    BY <2>14 DEF SessionReply
  <2>15. CASE SessionLeave(c)
    BY <2>15 DEF SessionLeave
  <2>16. CASE SessionRemoved(c)
    BY <2>16 DEF SessionRemoved
  <2>17. CASE ReleaseLease(c)
    BY <2>17 DEF ReleaseLease
  <2> QED BY <1>1, <2>1, <2>2, <2>3, <2>4, <2>5, <2>6, <2>7, <2>8, <2>9, <2>10, <2>11, <2>12, <2>13, <2>14, <2>15, <2>16, <2>17 DEF CallerNext
<1>2. ASSUME NEW o \in Ops, OpNext(o) PROVE Goal'
  <2>1. CASE OpRead(o)
    BY <2>1 DEF OpRead
  <2>2. CASE OpRefused(o)
    BY <2>2 DEF OpRefused
  <2>3. CASE OpPrepare(o)
    BY <2>3 DEF OpPrepare
  <2>4. CASE OpUnprepared(o)
    BY <2>4 DEF OpUnprepared
  <2>5. CASE OpPrepared(o)
    BY <2>5 DEF OpPrepared
  <2>6. CASE OpWritten(o)
    BY <2>6 DEF OpWritten
  <2>7. CASE OpDone(o)
    BY <2>7 DEF OpDone
  <2> QED BY <1>2, <2>1, <2>2, <2>3, <2>4, <2>5, <2>6, <2>7 DEF OpNext
<1>3. ASSUME NEW p \in Polls, PollNext(p) PROVE Goal'
  <2>1. CASE PollStart(p)
    BY <2>1 DEF PollStart
  <2>2. CASE PollEnter(p)
    BY <2>2 DEF PollEnter
  <2>3. CASE PollTake(p)
    BY <2>3 DEF PollTake
  <2>4. CASE PollError(p)
    BY <2>4 DEF PollError
  <2>5. CASE PollEnd(p)
    BY <2>5 DEF PollEnd
  <2> QED BY <1>3, <2>1, <2>2, <2>3, <2>4, <2>5 DEF PollNext
<1>4. ASSUME NEW l \in Leases, LeaseNext(l) PROVE Goal'
  <2>1. CASE Expire(l)
    BY <2>1 DEF Expire
  <2>2. CASE WatchLook(l)
    BY <2>2 DEF WatchLook
  <2>3. CASE WatchEnd(l)
    BY <2>3 DEF WatchEnd
  <2>4. CASE WatchRelease(l)
    BY <2>4 DEF WatchRelease
  <2>5. CASE WatchGone(l)
    BY <2>5 DEF WatchGone
  <2> QED BY <1>4, <2>1, <2>2, <2>3, <2>4, <2>5 DEF LeaseNext
<1>5. CASE StopNext
  <2>1. CASE WorkerResume
    BY <2>1 DEF WorkerResume
  <2>2. CASE WorkerExit
    BY <2>2 DEF WorkerExit
  <2>10. CASE WorkerClosed
    BY <2>10 DEF WorkerClosed
  <2>3. CASE StopCall
    BY <2>3 DEF StopCall
  <2>4. CASE StopJoin
    BY <2>4 DEF StopJoin
  <2>5. CASE StopEndLease
    BY <2>5 DEF StopEndLease
  <2>6. CASE StopRelease
    BY <2>6 DEF StopRelease
  <2>7. CASE StopGate
    BY <2>7 DEF StopGate
  <2>8. CASE StopDrained
    BY <2>8 DEF StopDrained
  <2>9. CASE StopGiveUp
    BY <2>9 DEF StopGiveUp
  <2> QED BY <1>5, <2>1, <2>2, <2>3, <2>4, <2>5, <2>6, <2>7, <2>8, <2>9, <2>10 DEF StopNext
<1>6. CASE UNCHANGED vars
  BY <1>6 DEF vars
<1> QED BY <1>1, <1>2, <1>3, <1>4, <1>5, <1>6 DEF Next

LEMMA EnderInit == Init => EnderInv
BY TypeInit, NamesApart DEF Init, EnderInv, RefNamed, EnderMarked, OneEnder, OneInExec,
    CallersAt, InExec, StopSteps

-----------------------------------------------------------------------------
(* Turns.                                                                  *)

LEMMA HolderForms ==
    /\ \A w : w \in Holders <=>
          \/ \E c \in Callers : w = <<"caller", c>> /\ at[c] = "admitted"
          \/ \E c \in Callers : w = <<"look", c>> /\ at[c] = "tagging"
          \/ \E o \in Ops : w = <<"op", o>> /\ op[o] \in OpSteps \ {"idle"}
          \/ \E p \in Polls : w = <<"poll", p>> /\ poll[p] = "polling"
          \/ \E l \in Leases : w = <<"lease", l>> /\ phase[l] \in {"held", "ending"}
    /\ \A w : w \in Holders' <=>
          \/ \E c \in Callers : w = <<"caller", c>> /\ at'[c] = "admitted"
          \/ \E c \in Callers : w = <<"look", c>> /\ at'[c] = "tagging"
          \/ \E o \in Ops : w = <<"op", o>> /\ op'[o] \in OpSteps \ {"idle"}
          \/ \E p \in Polls : w = <<"poll", p>> /\ poll'[p] = "polling"
          \/ \E l \in Leases : w = <<"lease", l>> /\ phase'[l] \in {"held", "ending"}
BY DEF Holders, CallersAt, OpsAt, PollsAt, LeasesAt

(* The leases that had their turn.                                         *)
Over == {"lease"} \X LeasesAt({"released"})

LEMMA OverForms ==
    /\ \A w : w \in Over <=> \E l \in Leases : w = <<"lease", l>> /\ phase[l] = "released"
    /\ \A w : w \in Over' <=> \E l \in Leases : w = <<"lease", l>> /\ phase'[l] = "released"
BY DEF Over, LeasesAt

(* Who holds the slot, kind by kind: the same before and after a step.     *)
SameHolders ==
    /\ \A c \in Callers : at'[c] = "admitted" <=> at[c] = "admitted"
    /\ \A c \in Callers : at'[c] = "tagging" <=> at[c] = "tagging"
    /\ \A o \in Ops : op'[o] \in OpSteps \ {"idle"} <=> op[o] \in OpSteps \ {"idle"}
    /\ \A p \in Polls : poll'[p] = "polling" <=> poll[p] = "polling"
    /\ \A l \in Leases : phase'[l] \in {"held", "ending"} <=> phase[l] \in {"held", "ending"}
    /\ \A l \in Leases : phase'[l] = "released" <=> phase[l] = "released"

LEMMA SameTurn == SameHolders => Holders' = Holders /\ Over' = Over
<1> SUFFICES ASSUME SameHolders PROVE Holders' = Holders /\ Over' = Over
  OBVIOUS
<1>1. \A w : w \in Holders' <=> w \in Holders
  BY HolderForms DEF SameHolders
<1>2. \A w : w \in Over' <=> w \in Over
  BY OverForms DEF SameHolders
<1> QED BY <1>1, <1>2

LEMMA SoleHolder ==
    ASSUME SlotAccounted, NEW u, u \in Holders
    PROVE  Holders = {u}
BY DEF SlotAccounted

(* What a step may do with the slot: keep it, take a free one, hand it on, *)
(* or yield it; and which step of whom that is.                            *)
Took(u)      == Holders = {} /\ Holders' = {u} /\ slot' /\ Over' = Over
Handed(u, v) == Holders = {u} /\ Holders' = {v} /\ slot' = slot /\ Over' = Over
Gave(u, X)   == Holders = {u} /\ Holders' = {} /\ ~slot' /\ Over' = Over \cup X

Turned ==
    \/ Holders' = Holders /\ slot' = slot /\ Over' = Over
    \/ \E c \in Callers : Took(<<"caller", c>>)
    \/ \E p \in Polls : Took(<<"poll", p>>)
    \/ \E c \in Callers, o \in Ops : ~opsClosed /\ Handed(<<"caller", c>>, <<"op", o>>)
    \/ \E c, d \in Callers : ~opsClosed /\ Handed(<<"caller", c>>, <<"look", d>>)
    \/ \E c \in Callers, l \in Leases :
          phase[l] # "released" /\ Handed(<<"look", c>>, <<"lease", l>>)
    \/ \E c \in Callers : Gave(<<"caller", c>>, {}) \/ Gave(<<"look", c>>, {})
    \/ \E o \in Ops : Gave(<<"op", o>>, {})
    \/ \E p \in Polls : Gave(<<"poll", p>>, {})
    \/ \E l \in Leases : Gave(<<"lease", l>>, {<<"lease", l>>})

LEMMA TurnStep == EnderInv /\ SlotAccounted /\ [Next]_vars => Turned
<1> SUFFICES ASSUME EnderInv, SlotAccounted, [Next]_vars PROVE Turned
  OBVIOUS
<1> USE NamesApart DEF EnderInv, TypeOK, EnderMarked, RefNamed, CallersAt, OpSteps,
        Move, MarkEnded, GiveBack, Done, OpStep, StopStep, callVars, runVars, leaseVars
<1>1. ASSUME NEW c \in Callers, CallerNext(c) PROVE Turned
  <2>1. CASE Arrive(c)
    <3>1. CASE slot
      <4>1. slot' = slot
        BY <2>1, <3>1, Zenon DEF Arrive, TypeOK
      <4>2. Holders' = Holders /\ Over' = Over
        BY <2>1, <3>1, SameTurn DEF SameHolders, Arrive
      <4> QED BY <4>1, <4>2 DEF Turned
    <3>2. CASE ~slot
      <4>1. Holders = {} /\ slot'
        BY <2>1, <3>2, Zenon DEF Arrive, SlotAccounted
      <4>2. <<"caller", c>> \in Holders'
        BY <2>1, <3>2, HolderForms DEF Arrive
      <4>3. \A w \in Holders' : w \in Holders \/ w = <<"caller", c>>
        BY <2>1, <3>2, HolderForms DEF Arrive
      <4>4. Holders' = {<<"caller", c>>}
        BY <4>1, <4>2, <4>3
      <4>5. \A w : w \in Over' <=> w \in Over
        BY <2>1, <3>2, OverForms DEF Arrive
      <4>6. Took(<<"caller", c>>)
        BY <4>1, <4>4, <4>5 DEF Took
      <4> QED BY <4>6, Zenon DEF Turned
    <3> QED BY <3>1, <3>2
  <2>2. CASE AcquireSlot(c)
    <3>1. Holders = {} /\ slot'
      BY <2>2, Zenon DEF AcquireSlot, SlotAccounted
    <3>2. <<"caller", c>> \in Holders'
      BY <2>2, HolderForms DEF AcquireSlot
    <3>3. \A w \in Holders' : w \in Holders \/ w = <<"caller", c>>
      BY <2>2, HolderForms DEF AcquireSlot
    <3>4. Holders' = {<<"caller", c>>}
      BY <3>1, <3>2, <3>3
    <3>5. \A w : w \in Over' <=> w \in Over
      BY <2>2, OverForms DEF AcquireSlot
    <3>6. Took(<<"caller", c>>)
      BY <3>1, <3>4, <3>5 DEF Took
    <3> QED BY <3>6, Zenon DEF Turned
  <2>3. CASE Leave(c)
    BY <2>3, SameTurn DEF SameHolders, Turned, Leave
  <2>4. CASE RefuseStopping(c)
    <3>1. <<"caller", c>> \in Holders
      BY <2>4, HolderForms DEF RefuseStopping
    <3>2. Holders = {<<"caller", c>>}
      BY <3>1, SoleHolder
    <3>3. \A w \in Holders' : w \in Holders /\ w # <<"caller", c>>
      BY <2>4, HolderForms DEF RefuseStopping
    <3>4. ~slot'
      BY <2>4, Zenon DEF RefuseStopping, GiveBack
    <3>5. \A w : w \in Over' <=> w \in Over
      BY <2>4, OverForms DEF RefuseStopping
    <3>6. Holders' = {} /\ Over' = Over \cup {}
      BY <3>2, <3>3, <3>5
    <3>7. Gave(<<"caller", c>>, {})
      BY <3>2, <3>4, <3>6, Zenon DEF Gave
    <3> QED BY <2>4, <3>7, Zenon DEF Turned
  <2>5. CASE \E o \in Ops : Register(c, o)
    <3>0. PICK o \in Ops : Register(c, o)
      BY <2>5
    <3>1. <<"caller", c>> \in Holders
      BY <3>0, HolderForms DEF Register
    <3>2. Holders = {<<"caller", c>>}
      BY <3>1, SoleHolder
    <3>3. <<"op", o>> \in Holders'
      BY <3>0, HolderForms DEF Register
    <3>4. \A w \in Holders' : w = <<"op", o>> \/ (w \in Holders /\ w # <<"caller", c>>)
      BY <3>0, HolderForms DEF Register
    <3>5. slot' = slot
      BY <3>0 DEF Register
    <3>6. \A w : w \in Over' <=> w \in Over
      BY <3>0, OverForms DEF Register
    <3>7. Handed(<<"caller", c>>, <<"op", o>>)
      BY <3>2, <3>3, <3>4, <3>5, <3>6 DEF Handed
    <3> QED BY <3>0, <3>7, Zenon DEF Turned, Register
  <2>6. CASE BeginGate(c)
    <3>1. <<"caller", c>> \in Holders
      BY <2>6, HolderForms DEF BeginGate
    <3>2. Holders = {<<"caller", c>>}
      BY <3>1, SoleHolder
    <3>3. <<"look", c>> \in Holders'
      BY <2>6, HolderForms DEF BeginGate
    <3>4. \A w \in Holders' : w = <<"look", c>> \/ (w \in Holders /\ w # <<"caller", c>>)
      BY <2>6, HolderForms DEF BeginGate
    <3>5. slot' = slot
      BY <2>6 DEF BeginGate
    <3>6. \A w : w \in Over' <=> w \in Over
      BY <2>6, OverForms DEF BeginGate
    <3>7. Handed(<<"caller", c>>, <<"look", c>>)
      BY <3>2, <3>3, <3>4, <3>5, <3>6 DEF Handed
    <3> QED BY <2>6, <3>7, Zenon DEF Turned, BeginGate
  <2>7. CASE BeginRefused(c)
    <3>1. <<"look", c>> \in Holders
      BY <2>7, HolderForms DEF BeginRefused
    <3>2. Holders = {<<"look", c>>}
      BY <3>1, SoleHolder
    <3>3. \A w \in Holders' : w \in Holders /\ w # <<"look", c>>
      BY <2>7, HolderForms DEF BeginRefused
    <3>4. ~slot'
      BY <2>7, Zenon DEF BeginRefused, GiveBack
    <3>5. \A w : w \in Over' <=> w \in Over
      BY <2>7, OverForms DEF BeginRefused
    <3>6. Holders' = {} /\ Over' = Over \cup {}
      BY <3>2, <3>3, <3>5
    <3>7. Gave(<<"look", c>>, {})
      BY <3>2, <3>4, <3>6, Zenon DEF Gave
    <3> QED BY <2>7, <3>7, Zenon DEF Turned
  <2>8. CASE \E l \in Leases : BeginLease(c, l)
    <3>0. PICK l \in Leases : BeginLease(c, l)
      BY <2>8
    <3>1. <<"look", c>> \in Holders
      BY <3>0, HolderForms DEF BeginLease
    <3>2. Holders = {<<"look", c>>}
      BY <3>1, SoleHolder
    <3>3. <<"lease", l>> \in Holders'
      BY <3>0, HolderForms DEF BeginLease
    <3>4. \A w \in Holders' : w = <<"lease", l>> \/ (w \in Holders /\ w # <<"look", c>>)
      BY <3>0, HolderForms DEF BeginLease
    <3>5. slot' = slot
      BY <3>0 DEF BeginLease
    <3>6. \A w : w \in Over' <=> w \in Over
      BY <3>0, OverForms DEF BeginLease
    <3>7. Handed(<<"look", c>>, <<"lease", l>>)
      BY <3>2, <3>3, <3>4, <3>5, <3>6 DEF Handed
    <3>8. phase[l] # "released"
      BY <3>0 DEF BeginLease
    <3> QED BY <3>7, <3>8, Zenon DEF Turned
  <2>9. CASE FindLease(c, "ending")
    BY <2>9, SameTurn DEF SameHolders, Turned, FindLease
  <2>10. CASE FindLease(c, "session")
    BY <2>10, SameTurn DEF SameHolders, Turned, FindLease
  <2>11. CASE EndRawSession(c)
    BY <2>11, SameTurn DEF SameHolders, Turned, EndRawSession
  <2>12. CASE SessionLock(c)
    BY <2>12, SameTurn DEF SameHolders, Turned, SessionLock
  <2>13. CASE SessionSend(c)
    BY <2>13, SameTurn DEF SameHolders, Turned, SessionSend
  <2>14. CASE SessionReply(c)
    BY <2>14, SameTurn DEF SameHolders, Turned, SessionReply
  <2>15. CASE SessionLeave(c)
    BY <2>15, SameTurn DEF SameHolders, Turned, SessionLeave
  <2>16. CASE SessionRemoved(c)
    BY <2>16, SameTurn DEF SameHolders, Turned, SessionRemoved
  <2>17. CASE ReleaseLease(c)
    <3>1. <<"lease", ref[c]>> \in Holders
      BY <2>17, HolderForms DEF ReleaseLease
    <3>2. Holders = {<<"lease", ref[c]>>}
      BY <3>1, SoleHolder
    <3>3. \A w \in Holders' : w \in Holders /\ w # <<"lease", ref[c]>>
      BY <2>17, HolderForms DEF ReleaseLease
    <3>4. ~slot'
      BY <2>17, Zenon DEF ReleaseLease, GiveBack
    <3>5. \A w : w \in Over' <=> w \in Over \/ w = <<"lease", ref[c]>>
      BY <2>17, OverForms DEF ReleaseLease
    <3>6. Holders' = {} /\ Over' = Over \cup {<<"lease", ref[c]>>}
      BY <3>2, <3>3, <3>5
    <3>7. Gave(<<"lease", ref[c]>>, {<<"lease", ref[c]>>})
      BY <3>2, <3>4, <3>6, Zenon DEF Gave
    <3> QED BY <2>17, <3>7, Zenon DEF Turned, ReleaseLease
  <2> QED BY <1>1, <2>1, <2>2, <2>3, <2>4, <2>5, <2>6, <2>7, <2>8, <2>9, <2>10, <2>11, <2>12, <2>13, <2>14, <2>15, <2>16, <2>17 DEF CallerNext
<1>2. ASSUME NEW o \in Ops, OpNext(o) PROVE Turned
  <2>1. CASE OpRead(o)
    BY <2>1, SameTurn DEF SameHolders, Turned, OpRead
  <2>2. CASE OpRefused(o)
    BY <2>2, SameTurn DEF SameHolders, Turned, OpRefused
  <2>3. CASE OpPrepare(o)
    BY <2>3, SameTurn DEF SameHolders, Turned, OpPrepare
  <2>4. CASE OpUnprepared(o)
    BY <2>4, SameTurn DEF SameHolders, Turned, OpUnprepared
  <2>5. CASE OpPrepared(o)
    BY <2>5, SameTurn DEF SameHolders, Turned, OpPrepared
  <2>6. CASE OpWritten(o)
    BY <2>6, SameTurn DEF SameHolders, Turned, OpWritten
  <2>7. CASE OpDone(o)
    <3>1. <<"op", o>> \in Holders
      BY <2>7, HolderForms DEF OpDone
    <3>2. Holders = {<<"op", o>>}
      BY <3>1, SoleHolder
    <3>3. \A w \in Holders' : w \in Holders /\ w # <<"op", o>>
      BY <2>7, HolderForms DEF OpDone
    <3>4. ~slot'
      BY <2>7, Zenon DEF OpDone, GiveBack
    <3>5. \A w : w \in Over' <=> w \in Over
      BY <2>7, OverForms DEF OpDone
    <3>6. Holders' = {} /\ Over' = Over \cup {}
      BY <3>2, <3>3, <3>5
    <3>7. Gave(<<"op", o>>, {})
      BY <3>2, <3>4, <3>6, Zenon DEF Gave
    <3> QED BY <2>7, <3>7, Zenon DEF Turned
  <2> QED BY <1>2, <2>1, <2>2, <2>3, <2>4, <2>5, <2>6, <2>7 DEF OpNext
<1>3. ASSUME NEW p \in Polls, PollNext(p) PROVE Turned
  <2>1. CASE PollStart(p)
    BY <2>1, SameTurn DEF SameHolders, Turned, PollStart
  <2>2. CASE PollEnter(p)
    BY <2>2, SameTurn DEF SameHolders, Turned, PollEnter
  <2>3. CASE PollTake(p)
    <3>1. CASE slot \/ current # None
      BY <2>3, <3>1, SameTurn DEF SameHolders, Turned, PollTake
    <3>2. CASE ~(slot \/ current # None)
      <4>1. Holders = {} /\ slot'
        BY <2>3, <3>2, Zenon DEF PollTake, SlotAccounted
      <4>2. <<"poll", p>> \in Holders'
        BY <2>3, <3>2, HolderForms DEF PollTake
      <4>3. \A w \in Holders' : w \in Holders \/ w = <<"poll", p>>
        BY <2>3, <3>2, HolderForms DEF PollTake
      <4>4. Holders' = {<<"poll", p>>}
        BY <4>1, <4>2, <4>3
      <4>5. \A w : w \in Over' <=> w \in Over
        BY <2>3, <3>2, OverForms DEF PollTake
      <4>6. Took(<<"poll", p>>)
        BY <4>1, <4>4, <4>5 DEF Took
      <4> QED BY <4>6, Zenon DEF Turned
    <3> QED BY <3>1, <3>2
  <2>4. CASE PollError(p)
    BY <2>4, SameTurn DEF SameHolders, Turned, PollError
  <2>5. CASE PollEnd(p)
    <3>1. <<"poll", p>> \in Holders
      BY <2>5, HolderForms DEF PollEnd
    <3>2. Holders = {<<"poll", p>>}
      BY <3>1, SoleHolder
    <3>3. \A w \in Holders' : w \in Holders /\ w # <<"poll", p>>
      BY <2>5, HolderForms DEF PollEnd
    <3>4. ~slot'
      BY <2>5, Zenon DEF PollEnd, GiveBack
    <3>5. \A w : w \in Over' <=> w \in Over
      BY <2>5, OverForms DEF PollEnd
    <3>6. Holders' = {} /\ Over' = Over \cup {}
      BY <3>2, <3>3, <3>5
    <3>7. Gave(<<"poll", p>>, {})
      BY <3>2, <3>4, <3>6, Zenon DEF Gave
    <3> QED BY <2>5, <3>7, Zenon DEF Turned
  <2> QED BY <1>3, <2>1, <2>2, <2>3, <2>4, <2>5 DEF PollNext
<1>4. ASSUME NEW l \in Leases, LeaseNext(l) PROVE Turned
  <2>1. CASE Expire(l)
    BY <2>1, SameTurn DEF SameHolders, Turned, Expire
  <2>2. CASE WatchLook(l)
    BY <2>2, SameTurn DEF SameHolders, Turned, WatchLook
  <2>3. CASE WatchEnd(l)
    BY <2>3, SameTurn DEF SameHolders, Turned, WatchEnd
  <2>4. CASE WatchRelease(l)
    <3>1. <<"lease", l>> \in Holders
      BY <2>4, HolderForms DEF WatchRelease
    <3>2. Holders = {<<"lease", l>>}
      BY <3>1, SoleHolder
    <3>3. \A w \in Holders' : w \in Holders /\ w # <<"lease", l>>
      BY <2>4, HolderForms DEF WatchRelease
    <3>4. ~slot'
      BY <2>4, Zenon DEF WatchRelease, GiveBack
    <3>5. \A w : w \in Over' <=> w \in Over \/ w = <<"lease", l>>
      BY <2>4, OverForms DEF WatchRelease
    <3>6. Holders' = {} /\ Over' = Over \cup {<<"lease", l>>}
      BY <3>2, <3>3, <3>5
    <3>7. Gave(<<"lease", l>>, {<<"lease", l>>})
      BY <3>2, <3>4, <3>6, Zenon DEF Gave
    <3> QED BY <2>4, <3>7, Zenon DEF Turned
  <2>5. CASE WatchGone(l)
    BY <2>5, SameTurn DEF SameHolders, Turned, WatchGone
  <2> QED BY <1>4, <2>1, <2>2, <2>3, <2>4, <2>5 DEF LeaseNext
<1>5. CASE StopNext
  <2>1. CASE WorkerResume
    BY <2>1, SameTurn DEF SameHolders, Turned, WorkerResume
  <2>2. CASE WorkerExit
    BY <2>2, SameTurn DEF SameHolders, Turned, WorkerExit
  <2>10. CASE WorkerClosed
    BY <2>10, SameTurn DEF SameHolders, Turned, WorkerClosed
  <2>3. CASE StopCall
    BY <2>3, SameTurn DEF SameHolders, Turned, StopCall
  <2>4. CASE StopJoin
    BY <2>4, SameTurn DEF SameHolders, Turned, StopJoin
  <2>5. CASE StopEndLease
    BY <2>5, SameTurn DEF SameHolders, Turned, StopEndLease
  <2>6. CASE StopRelease
    <3>1. <<"lease", stopper>> \in Holders
      BY <2>6, HolderForms DEF StopRelease
    <3>2. Holders = {<<"lease", stopper>>}
      BY <3>1, SoleHolder
    <3>3. \A w \in Holders' : w \in Holders /\ w # <<"lease", stopper>>
      BY <2>6, HolderForms DEF StopRelease
    <3>4. ~slot'
      BY <2>6, Zenon DEF StopRelease, GiveBack
    <3>5. \A w : w \in Over' <=> w \in Over \/ w = <<"lease", stopper>>
      BY <2>6, OverForms DEF StopRelease
    <3>6. Holders' = {} /\ Over' = Over \cup {<<"lease", stopper>>}
      BY <3>2, <3>3, <3>5
    <3>7. Gave(<<"lease", stopper>>, {<<"lease", stopper>>})
      BY <3>2, <3>4, <3>6, Zenon DEF Gave
    <3> QED BY <2>6, <3>7, Zenon DEF Turned, StopRelease
  <2>7. CASE StopGate
    BY <2>7, SameTurn DEF SameHolders, Turned, StopGate
  <2>8. CASE StopDrained
    BY <2>8, SameTurn DEF SameHolders, Turned, StopDrained
  <2>9. CASE StopGiveUp
    BY <2>9, SameTurn DEF SameHolders, Turned, StopGiveUp
  <2> QED BY <1>5, <2>1, <2>2, <2>3, <2>4, <2>5, <2>6, <2>7, <2>8, <2>9, <2>10 DEF StopNext
<1>6. CASE UNCHANGED vars
  BY <1>6, SameTurn DEF vars, SameHolders, Turned
<1> QED BY <1>1, <1>2, <1>3, <1>4, <1>5, <1>6 DEF Next

SlotInv == EnderInv /\ SlotAccounted

LEMMA SlotInit == Init => SlotInv
<1> SUFFICES ASSUME Init PROVE SlotAccounted
  BY EnderInit DEF SlotInv
<1>1. Holders = {}
  BY HolderForms DEF Init
<1>2. ~slot
  BY Zenon DEF Init
<1> QED BY <1>1, <1>2, Zenon DEF SlotAccounted

LEMMA SlotStep == SlotInv /\ [Next]_vars => SlotInv'
<1> SUFFICES ASSUME SlotInv, [Next]_vars PROVE SlotAccounted'
  BY EnderStep DEF SlotInv
<1>1. CASE Holders' = Holders /\ slot' = slot
  BY <1>1, Zenon DEF SlotInv, SlotAccounted
<1>2. ASSUME NEW u, Holders' = {u}, slot' PROVE SlotAccounted'
  <2>1. Holders' # {} /\ \A v, w \in Holders' : v = w
    BY <1>2
  <2> QED BY <1>2, <2>1, Zenon DEF SlotAccounted
<1>3. ASSUME NEW u, Took(u) PROVE SlotAccounted'
  BY <1>2, <1>3, Zenon DEF Took
<1>4. ASSUME NEW u, NEW v, Handed(u, v) PROVE SlotAccounted'
  <2>1. slot /\ slot'
    BY <1>4, Zenon DEF SlotInv, SlotAccounted, Handed
  <2> QED BY <1>2, <1>4, <2>1, Zenon DEF Handed
<1>5. ASSUME NEW u, NEW X, Gave(u, X) PROVE SlotAccounted'
  BY <1>5, Zenon DEF SlotAccounted, Gave
<1> QED BY <1>1, <1>3, <1>4, <1>5, TurnStep, Zenon DEF SlotInv, Turned

LEMMA SlotInvariant == Spec => []SlotInv
BY SlotInit, SlotStep, PTL DEF Spec

(* The slot is taken exactly while one caller, operation, poll or lease    *)
(* holds it (opSlot, reader.go:64-72).                                     *)
THEOREM SlotIsAccounted == Spec => []SlotAccounted
BY SlotInvariant, PTL DEF SlotInv

(* The gate closes once, and not while the slot changes hands.             *)
LEMMA GateStep ==
    TypeOK /\ [Next]_vars =>
        \/ opsClosed' = opsClosed
        \/ ~opsClosed /\ opsClosed' /\ Holders' = Holders /\ Over' = Over
<1> SUFFICES ASSUME TypeOK, [Next]_vars
             PROVE  \/ opsClosed' = opsClosed
                    \/ ~opsClosed /\ opsClosed' /\ Holders' = Holders /\ Over' = Over
  OBVIOUS
<1>1. CASE StopGate
  <2>1. Holders' = Holders /\ Over' = Over
    BY <1>1, SameTurn DEF SameHolders, StopGate, StopStep, callVars, leaseVars
  <2>2. ~opsClosed /\ opsClosed'
    BY <1>1 DEF StopGate, StopStep, opsClosed
  <2> QED BY <2>1, <2>2
<1>2. CASE StopEndLease \/ StopRelease \/ StopCall \/ StopJoin \/ StopDrained \/ StopGiveUp
  BY <1>2, NamesApart DEF TypeOK, StopEndLease, StopRelease, StopCall, StopJoin, StopDrained,
     StopGiveUp, StopStep, StopSteps, opsClosed
<1>3. CASE UNCHANGED stopper
  BY <1>3 DEF opsClosed
<1>4. ASSUME NEW c \in Callers, CallerNext(c) PROVE UNCHANGED stopper
  BY <1>4, Zenon DEF CallerNext, Arrive, AcquireSlot, Leave, RefuseStopping, Register, BeginGate,
     BeginRefused, BeginLease, FindLease, EndRawSession, SessionLock, SessionSend, SessionReply,
     SessionLeave, SessionRemoved, ReleaseLease, runVars
<1>5. ASSUME NEW o \in Ops, OpNext(o) PROVE UNCHANGED stopper
  BY <1>5, Zenon DEF OpNext, OpRead, OpRefused, OpPrepare, OpUnprepared, OpPrepared, OpWritten,
     OpDone, OpStep, runVars
<1>6. ASSUME NEW p \in Polls, PollNext(p) PROVE UNCHANGED stopper
  BY <1>6, Zenon DEF PollNext, PollStart, PollEnter, PollTake, PollError, PollEnd, runVars
<1>7. ASSUME NEW l \in Leases, LeaseNext(l) PROVE UNCHANGED stopper
  BY <1>7, Zenon DEF LeaseNext, Expire, WatchLook, WatchEnd, WatchRelease, WatchGone, runVars
<1> QED
  BY <1>1, <1>2, <1>3, <1>4, <1>5, <1>6, <1>7, Zenon DEF Next, StopNext, WorkerResume, WorkerExit,
     WorkerClosed, vars, runVars

(* The reader gives turns at its card as CardTurn says: whatever the slot  *)
(* protocol of reader.go and reader_lease.go does is a step of CardTurn by *)
(* the one who may take it, work starts only before the gate closed, and a *)
(* lease that ended never has the slot again.                              *)
THEOREM ReaderTakesTurns == Spec => TakesTurns
<1> USE DEF Over
<1>1. Init => Turn!Init
  BY HolderForms, OverForms DEF Init, Turn!Init, opsClosed
<1>2. ASSUME SlotInv, [Next]_vars PROVE [Turn!Next]_(Turn!turnVars)
  <2> USE DEF Turn!Users
  <2>1. Turned
    BY <1>2, TurnStep DEF SlotInv
  <2>2. CASE ~opsClosed /\ opsClosed' /\ Holders' = Holders /\ Over' = Over
    BY <2>2, Zenon DEF Turn!Next, Turn!Shut
  <2>3. CASE opsClosed' = opsClosed
    <3>1. CASE Holders' = Holders /\ Over' = Over
      BY <2>3, <3>1, Zenon DEF Turn!turnVars
    <3>2. ASSUME NEW c \in Callers, Took(<<"caller", c>>) PROVE Turn!Next
      <4>1. <<"caller", c>> \in {"caller"} \X Callers
        OBVIOUS
      <4>2. Turn!Take(<<"caller", c>>)
        BY <2>3, <3>2, <4>1, Zenon DEF Turn!Take, Took
      <4> QED BY <4>1, <4>2, Zenon DEF Turn!Next
    <3>3. ASSUME NEW p \in Polls, Took(<<"poll", p>>) PROVE Turn!Next
      <4>1. <<"poll", p>> \in {"poll"} \X Polls
        OBVIOUS
      <4>2. Turn!Take(<<"poll", p>>)
        BY <2>3, <3>3, <4>1, Zenon DEF Turn!Take, Took
      <4> QED BY <4>1, <4>2, Zenon DEF Turn!Next
    <3>4. ASSUME NEW c \in Callers, NEW o \in Ops, ~opsClosed, Handed(<<"caller", c>>, <<"op", o>>)
          PROVE  Turn!Next
      <4>1. <<"caller", c>> \in {"caller"} \X Callers /\ <<"op", o>> \in {"op"} \X Ops
        OBVIOUS
      <4>2. Turn!Begin(<<"caller", c>>, <<"op", o>>)
        BY <2>3, <3>4, <4>1, Zenon DEF Turn!Begin, Handed
      <4> QED BY <4>1, <4>2, Zenon DEF Turn!Next
    <3>5. ASSUME NEW c \in Callers, NEW d \in Callers, ~opsClosed,
                 Handed(<<"caller", c>>, <<"look", d>>)
          PROVE  Turn!Next
      <4>1. <<"caller", c>> \in {"caller"} \X Callers /\ <<"look", d>> \in {"look"} \X Callers
        OBVIOUS
      <4>2. Turn!Begin(<<"caller", c>>, <<"look", d>>)
        BY <2>3, <3>5, <4>1, Zenon DEF Turn!Begin, Handed
      <4> QED BY <4>1, <4>2, Zenon DEF Turn!Next
    <3>6. ASSUME NEW c \in Callers, NEW l \in Leases, phase[l] # "released",
                 Handed(<<"look", c>>, <<"lease", l>>)
          PROVE  Turn!Next
      <4>1. <<"look", c>> \in {"look"} \X Callers /\ <<"lease", l>> \in {"lease"} \X Leases
        OBVIOUS
      <4>2. <<"lease", l>> \notin Over
        BY <3>6, OverForms
      <4>3. Turn!Open(<<"look", c>>, <<"lease", l>>)
        BY <2>3, <3>6, <4>1, <4>2, Zenon DEF Turn!Open, Handed
      <4> QED BY <4>1, <4>3, Zenon DEF Turn!Next
    <3>7. ASSUME NEW c \in Callers, NEW k \in {"caller", "look"}, Gave(<<k, c>>, {}) PROVE Turn!Next
      <4>1. <<k, c>> \in ({"caller"} \X Callers) \cup ({"look"} \X Callers)
        OBVIOUS
      <4>2. {<<k, c>>} \cap ({"lease"} \X Leases) = {}
        OBVIOUS
      <4>3. Turn!Yield(<<k, c>>)
        BY <2>3, <3>7, <4>2, Zenon DEF Turn!Yield, Gave
      <4> QED BY <4>1, <4>3, Zenon DEF Turn!Next
    <3>8. ASSUME NEW o \in Ops, Gave(<<"op", o>>, {}) PROVE Turn!Next
      <4>1. <<"op", o>> \in {"op"} \X Ops
        OBVIOUS
      <4>2. {<<"op", o>>} \cap ({"lease"} \X Leases) = {}
        OBVIOUS
      <4>3. Turn!Yield(<<"op", o>>)
        BY <2>3, <3>8, <4>2, Zenon DEF Turn!Yield, Gave
      <4> QED BY <4>1, <4>3, Zenon DEF Turn!Next
    <3>9. ASSUME NEW p \in Polls, Gave(<<"poll", p>>, {}) PROVE Turn!Next
      <4>1. <<"poll", p>> \in {"poll"} \X Polls
        OBVIOUS
      <4>2. {<<"poll", p>>} \cap ({"lease"} \X Leases) = {}
        OBVIOUS
      <4>3. Turn!Yield(<<"poll", p>>)
        BY <2>3, <3>9, <4>2, Zenon DEF Turn!Yield, Gave
      <4> QED BY <4>1, <4>3, Zenon DEF Turn!Next
    <3>10. ASSUME NEW l \in Leases, Gave(<<"lease", l>>, {<<"lease", l>>}) PROVE Turn!Next
      <4>1. <<"lease", l>> \in {"lease"} \X Leases
        OBVIOUS
      <4>2. {<<"lease", l>>} \cap ({"lease"} \X Leases) = {<<"lease", l>>}
        OBVIOUS
      <4>3. Turn!Yield(<<"lease", l>>)
        BY <2>3, <3>10, <4>2, Zenon DEF Turn!Yield, Gave
      <4> QED BY <4>1, <4>3, Zenon DEF Turn!Next
    <3> QED BY <2>1, <3>1, <3>2, <3>3, <3>4, <3>5, <3>6, <3>7, <3>8, <3>9, <3>10 DEF Turned
  <2> QED BY <1>2, <2>2, <2>3, GateStep DEF SlotInv, EnderInv
<1> QED BY <1>1, <1>2, SlotInvariant, PTL DEF Spec, TakesTurns, Turn!Spec

-----------------------------------------------------------------------------
(* What the slot buys.                                                     *)

(* One goroutine talks to the card, unless a lease was ended under an      *)
(* exchange (OnCard, against watchLease, EndRawSession and Stop).          *)
THEOREM CardIsExclusive == Spec => []CardExclusive
<1>1. SlotInv => CardExclusive
  <2> SUFFICES ASSUME SlotInv, NEW u \in OnCard, NEW v \in OnCard, u # v,
                      \A c \in Callers :
                         Orphaned(c) => u # <<"caller", c>> /\ v # <<"caller", c>>
               PROVE  FALSE
    BY DEF CardExclusive
  <2> DEFINE By(w, h) ==
         \/ w = h
         \/ \E c \in CallersAt({"tagging"}) : w = <<"caller", c>> /\ h = <<"look", c>>
         \/ \E c \in CallersAt({"exchanging"}) : w = <<"caller", c>> /\ h = <<"lease", ref[c]>>
  <2>1. \A w \in {u, v} : \E h \in Holders : By(w, h)
    <3>1. ASSUME NEW c \in CallersAt({"exchanging"}), ~Orphaned(c)
          PROVE  <<"lease", ref[c]>> \in Holders
      BY <3>1, HolderForms DEF CallersAt, Orphaned, SlotInv, EnderInv, RefNamed
    <3>2. \A c \in CallersAt({"tagging"}) : <<"look", c>> \in Holders
      BY HolderForms DEF CallersAt
    <3>3. ASSUME NEW w \in {u, v}, \A c \in Callers : w # <<"caller", c>> PROVE w \in Holders
      BY <3>3, HolderForms DEF OnCard, CallersAt, OpsAt, PollsAt, OpSteps
    <3>4. ASSUME NEW w \in {u, v}, NEW c \in Callers, w = <<"caller", c>>
          PROVE  c \in CallersAt({"tagging"}) \cup CallersAt({"exchanging"})
      BY <3>4 DEF OnCard, CallersAt
    <3> QED BY <3>1, <3>2, <3>3, <3>4
  <2>2. PICK h \in Holders : By(u, h) /\ By(v, h)
    <3>1. \A x, y \in Holders : x = y
      BY DEF SlotInv, SlotAccounted
    <3>2. PICK h \in Holders : By(u, h)
      BY <2>1
    <3>3. PICK k \in Holders : By(v, k)
      BY <2>1
    <3> HIDE DEF By
    <3> QED BY <3>1, <3>2, <3>3
  <2>3. \A w \in {u, v}, x \in Callers \cup Leases : w # <<"lease", x>> /\ w # <<"look", x>>
    BY DEF OnCard
  <2>4. \A c, d \in CallersAt({"exchanging"}) : ref[c] = ref[d] => c = d
    BY DEF SlotInv, EnderInv, OneInExec, CallersAt, InExec
  <2>5. \A c \in CallersAt({"exchanging"}) : ref[c] \in Leases
    BY DEF SlotInv, EnderInv, RefNamed, CallersAt
  <2>6. CASE u = h
    BY <2>2, <2>3, <2>5, <2>6 DEF CallersAt
  <2>7. ASSUME NEW c \in CallersAt({"tagging"}), u = <<"caller", c>>, h = <<"look", c>> PROVE FALSE
    BY <2>2, <2>3, <2>7 DEF CallersAt
  <2>8. ASSUME NEW c \in CallersAt({"exchanging"}), u = <<"caller", c>>, h = <<"lease", ref[c]>>
        PROVE  FALSE
    BY <2>2, <2>3, <2>4, <2>5, <2>8
  <2> QED BY <2>2, <2>6, <2>7, <2>8
<1> QED BY <1>1, SlotInvariant, PTL

(* Once Stop waits for the operations, none is added (reader.go:73-78).    *)
THEOREM NoAddAfterGate == Spec => NoAddDuringWait
<1>1. TypeOK /\ [Next]_vars => (opsClosed => opsWg' <= opsWg)
  <2> SUFFICES ASSUME TypeOK, [Next]_vars, opsClosed PROVE opsWg' = opsWg \/ opsWg' = opsWg - 1
    BY SMT DEF TypeOK
  <2> USE DEF callVars, runVars, leaseVars, OpStep, StopStep
  <2>1. ASSUME NEW c \in Callers, CallerNext(c) PROVE opsWg' = opsWg \/ opsWg' = opsWg - 1
    BY <2>1, Zenon DEF CallerNext, Arrive, AcquireSlot, Leave, RefuseStopping, Register, BeginGate,
          BeginRefused, BeginLease, FindLease, EndRawSession, SessionLock, SessionSend,
          SessionReply, SessionLeave, SessionRemoved, ReleaseLease
  <2>2. ASSUME NEW o \in Ops, OpNext(o) PROVE opsWg' = opsWg \/ opsWg' = opsWg - 1
    BY <2>2, Zenon DEF OpNext, OpRead, OpRefused, OpPrepare, OpUnprepared, OpPrepared, OpWritten, OpDone
  <2>3. ASSUME NEW p \in Polls, PollNext(p) PROVE opsWg' = opsWg \/ opsWg' = opsWg - 1
    BY <2>3, Zenon DEF PollNext, PollStart, PollEnter, PollTake, PollError, PollEnd
  <2>4. ASSUME NEW l \in Leases, LeaseNext(l) PROVE opsWg' = opsWg \/ opsWg' = opsWg - 1
    BY <2>4, Zenon DEF LeaseNext, Expire, WatchLook, WatchEnd, WatchRelease, WatchGone
  <2>5. CASE StopNext
    BY <2>5, Zenon DEF StopNext, WorkerResume, WorkerExit, WorkerClosed, StopCall, StopJoin, StopEndLease,
          StopRelease, StopGate, StopDrained, StopGiveUp
  <2>6. CASE UNCHANGED vars
    BY <2>6, Zenon DEF vars
  <2> QED BY <2>1, <2>2, <2>3, <2>4, <2>5, <2>6, Zenon DEF Next
<1> QED BY <1>1, TypeCorrect, PTL DEF Spec, NoAddDuringWait

(* No write loses its mark: isWriting stays set from the look for the tag  *)
(* to the end of the write (prepareCardForWrite, handleDeviceErrors).      *)
THEOREM WriteIsShielded == Spec => []WriteShielded
<1>1. Init => WriteShielded
  BY DEF Init, WriteShielded, OpsAt
<1>2. SlotInv /\ WriteShielded /\ [Next]_vars => WriteShielded'
  <2> SUFFICES ASSUME SlotInv, WriteShielded, [Next]_vars,
                      NEW o \in Ops, op'[o] \in {"preparing", "writing"}
               PROVE  isWriting'
    BY Zenon DEF WriteShielded, OpsAt
  <2>1. TypeOK /\ \A x, y \in Holders : x = y
    BY DEF SlotInv, EnderInv, SlotAccounted
  <2>2. op[o] \in {"preparing", "writing"} => isWriting
    BY DEF WriteShielded, OpsAt
  <2>3. op[o] \in {"preparing", "writing"} => <<"op", o>> \in Holders
    BY HolderForms DEF OpSteps
  <2> USE DEF callVars, runVars, leaseVars, OpStep, StopStep
  <2>4. ASSUME NEW c \in Callers, CallerNext(c) PROVE isWriting'
    <3>1. isWriting' = isWriting
      BY <2>4, Zenon DEF CallerNext, Arrive, AcquireSlot, Leave, RefuseStopping, Register, BeginGate,
            BeginRefused, BeginLease, FindLease, EndRawSession, SessionLock, SessionSend,
            SessionReply, SessionLeave, SessionRemoved, ReleaseLease
    <3>2. CASE op' = op
      BY <3>1, <3>2, <2>2, Zenon
    <3>3. op' = op \/ \E r \in Ops : Register(c, r)
      BY <2>4, Zenon DEF CallerNext, Arrive, AcquireSlot, Leave, RefuseStopping, BeginGate,
            BeginRefused, BeginLease, FindLease, EndRawSession, SessionLock, SessionSend,
            SessionReply, SessionLeave, SessionRemoved, ReleaseLease
    <3>4. (\E r \in Ops : Register(c, r)) => op[o] \in {"preparing", "writing"}
      BY <2>1 DEF Register, TypeOK
    <3> QED BY <3>1, <3>2, <3>3, <3>4, <2>2, Zenon
  <2>5. ASSUME NEW r \in Ops, OpNext(r) PROVE isWriting'
    <3>1. CASE OpPrepare(r)
      BY <3>1, Zenon DEF OpPrepare
    <3>2. CASE OpWritten(r)
      <4>1. <<"op", r>> \in Holders
        BY <3>2, HolderForms DEF OpWritten, OpSteps
      <4>2. op[o] \in {"preparing", "writing"} \/ o = r
        BY <3>2, <2>1 DEF OpWritten, TypeOK
      <4>3. o = r
        BY <4>1, <4>2, <2>1, <2>3
      <4> QED BY <3>2, <4>3, <2>1 DEF OpWritten, TypeOK
    <3>3. CASE OpRead(r) \/ OpRefused(r) \/ OpUnprepared(r) \/ OpPrepared(r) \/ OpDone(r)
      <4>1. op[o] \in {"preparing", "writing"}
        BY <3>3, <2>1 DEF OpRead, OpRefused, OpUnprepared, OpPrepared, OpDone, TypeOK
      <4>2. isWriting' = isWriting
        BY <3>3, Zenon DEF OpRead, OpRefused, OpUnprepared, OpPrepared, OpDone
      <4> QED BY <4>1, <4>2, <2>2, Zenon
    <3> QED BY <2>5, <3>1, <3>2, <3>3, Zenon DEF OpNext
  <2>6. ASSUME NEW p \in Polls, PollNext(p) PROVE isWriting'
    <3>1. op[o] \in {"preparing", "writing"}
      BY <2>6 DEF PollNext, PollStart, PollEnter, PollTake, PollError, PollEnd
    <3>2. poll[p] = "polling" => <<"poll", p>> \in Holders
      BY HolderForms
    <3>3. ~PollError(p)
      BY <3>1, <3>2, <2>1, <2>3 DEF PollError
    <3>4. isWriting' = isWriting
      BY <2>6, <3>3, Zenon DEF PollNext, PollStart, PollEnter, PollTake, PollEnd
    <3> QED BY <3>1, <3>4, <2>2, Zenon
  <2>7. ASSUME NEW l \in Leases, LeaseNext(l) PROVE isWriting'
    <3>1. op' = op /\ isWriting' = isWriting
      BY <2>7, Zenon DEF LeaseNext, Expire, WatchLook, WatchEnd, WatchRelease, WatchGone
    <3> QED BY <3>1, <2>2, Zenon
  <2>8. CASE StopNext
    <3>1. op' = op /\ isWriting' = isWriting
      BY <2>8, Zenon DEF StopNext, WorkerResume, WorkerExit, WorkerClosed, StopCall, StopJoin,
            StopEndLease, StopRelease, StopGate, StopDrained, StopGiveUp
    <3> QED BY <3>1, <2>2, Zenon
  <2>9. CASE UNCHANGED vars
    BY <2>9, <2>2, Zenon DEF vars
  <2> QED BY <2>4, <2>5, <2>6, <2>7, <2>8, <2>9, Zenon DEF Next
<1> QED BY <1>1, <1>2, SlotInvariant, PTL DEF Spec

(* While a lease holds the slot the reader names it, and an ended lease    *)
(* does not stay named (BeginRawSession, endLease, doPoll's early return). *)
THEOREM LeaseIsNamed == Spec => []LeaseNamed
<1>1. Init => LeaseNamed
  BY DEF Init, LeaseNamed
<1>2. SlotInv /\ LeaseNamed /\ [Next]_vars => LeaseNamed'
  <2> SUFFICES ASSUME SlotInv, LeaseNamed, [Next]_vars PROVE LeaseNamed'
    OBVIOUS
  <2>0. \A k, l \in LeasesAt({"held", "ending"}) : k = l
    <3>1. \A l \in LeasesAt({"held", "ending"}) : <<"lease", l>> \in Holders
      BY DEF Holders
    <3> QED BY <3>1 DEF SlotInv, SlotAccounted
  <2>1. \A c \in CallersAt({"tagging"}) : LeasesAt({"held", "ending"}) = {}
    <3>1. \A c \in CallersAt({"tagging"}) : <<"look", c>> \in Holders
      BY DEF Holders, CallersAt
    <3>2. \A l \in LeasesAt({"held", "ending"}) : <<"lease", l>> \in Holders
      BY DEF Holders
    <3> QED BY <3>1, <3>2 DEF SlotInv, SlotAccounted
  <2> USE NamesApart DEF SlotInv, EnderInv, TypeOK, RefNamed, EnderMarked, LeaseNamed, CallersAt,
          LeasesAt, MarkEnded, GiveBack, Done, Move, OpStep, StopStep, callVars, runVars, leaseVars
  <2>2. ASSUME NEW c \in Callers, CallerNext(c) PROVE LeaseNamed'
    <3>1. CASE \E l \in Leases : BeginLease(c, l)
      BY <3>1, <2>1 DEF BeginLease
    <3>2. CASE EndRawSession(c)
      BY <3>2 DEF EndRawSession
    <3>3. CASE SessionRemoved(c)
      BY <3>3 DEF SessionRemoved
    <3>4. CASE ReleaseLease(c)
      BY <3>4, <2>0 DEF ReleaseLease
    <3>5. CASE UNCHANGED <<current, phase>>
      BY <3>5
    <3> QED BY <2>2, <3>1, <3>2, <3>3, <3>4, <3>5, Zenon DEF CallerNext, Arrive, AcquireSlot, Leave,
            RefuseStopping, Register, BeginGate, BeginRefused, FindLease, SessionLock,
            SessionSend, SessionReply, SessionLeave
  <2>3. ASSUME NEW l \in Leases, LeaseNext(l) PROVE LeaseNamed'
    BY <2>3, <2>0 DEF LeaseNext, Expire, WatchLook, WatchEnd, WatchRelease, WatchGone
  <2>4. CASE StopEndLease
    BY <2>4 DEF StopEndLease
  <2>5. CASE StopRelease
    BY <2>5, <2>0 DEF StopRelease
  <2>6. CASE UNCHANGED <<current, phase>>
    BY <2>6
  <2> QED
    BY <2>2, <2>3, <2>4, <2>5, <2>6, Zenon DEF Next, vars, OpNext, OpRead, OpRefused, OpPrepare,
       OpUnprepared, OpPrepared, OpWritten, OpDone, PollNext, PollStart, PollEnter, PollTake,
       PollError, PollEnd, StopNext, WorkerResume, WorkerExit, WorkerClosed, StopCall, StopJoin, StopGate,
       StopDrained, StopGiveUp
<1> QED BY <1>1, <1>2, SlotInvariant, PTL DEF Spec

(* What a caller holds is its own: reader.go's slot, lease and isWriting   *)
(* together.                                                               *)
THEOREM CardIsUndisturbed == Spec => []CardUndisturbed
BY SlotIsAccounted, CardIsExclusive, LeaseIsNamed, WriteIsShielded, PTL DEF CardUndisturbed

-----------------------------------------------------------------------------
(* What Stop waits for.                                                    *)

(* The goroutines opsWg counts: an operation, a caller that looks at the   *)
(* card for its lease, and a lease's watcher.                              *)
Watching == {"selecting", "locking", "expiring", "releasing"}
Counted ==
    ({"caller"} \X CallersAt({"tagging"}))
      \cup ({"op"} \X OpsAt(OpSteps \ {"idle"}))
      \cup ({"watch"} \X {l \in Leases : watch[l] \in Watching})

(* A lease has its watcher from its opening, and while it is held.         *)
LeaseWatched ==
    \A l \in Leases :
        /\ phase[l] = "none" <=> watch[l] = "none"
        /\ phase[l] = "held" => watch[l] \in {"selecting", "locking", "expiring"}

(* The counter is exact, so that what it waits for is all there is.        *)
CountExact == IsFiniteSet(Counted) /\ opsWg = Cardinality(Counted)

WaitInv ==
    /\ EnderInv /\ LeaseWatched /\ CountExact
    /\ stopper = "drained" => Counted = {}

LEMMA CountedForms ==
    /\ \A w : w \in Counted <=>
          \/ \E c \in Callers : w = <<"caller", c>> /\ at[c] = "tagging"
          \/ \E o \in Ops : w = <<"op", o>> /\ op[o] \in OpSteps \ {"idle"}
          \/ \E l \in Leases : w = <<"watch", l>> /\ watch[l] \in Watching
    /\ \A w : w \in Counted' <=>
          \/ \E c \in Callers : w = <<"caller", c>> /\ at'[c] = "tagging"
          \/ \E o \in Ops : w = <<"op", o>> /\ op'[o] \in OpSteps \ {"idle"}
          \/ \E l \in Leases : w = <<"watch", l>> /\ watch'[l] \in Watching
BY DEF Counted, CallersAt, OpsAt

(* The same goroutines before and after a step.                            *)
SameCounted ==
    /\ \A c \in Callers : at'[c] = "tagging" <=> at[c] = "tagging"
    /\ \A o \in Ops : op'[o] \in OpSteps \ {"idle"} <=> op[o] \in OpSteps \ {"idle"}
    /\ \A l \in Leases : watch'[l] \in Watching <=> watch[l] \in Watching

LEMMA SameCount == SameCounted => Counted' = Counted
BY CountedForms DEF SameCounted

(* What a step may do with the count.                                      *)
Kept   == Counted' = Counted /\ opsWg' = opsWg
Added(x)  == x \notin Counted /\ Counted' = Counted \cup {x} /\ opsWg' = opsWg + 1 /\ ~opsClosed
Dropped(x) == x \in Counted /\ Counted' = Counted \ {x} /\ opsWg' = opsWg - 1
Passed(x, y) ==
    x \in Counted /\ y \notin Counted /\ Counted' = (Counted \ {x}) \cup {y} /\ opsWg' = opsWg
CountMoves ==
    Kept \/ (\E x : Added(x)) \/ (\E x : Dropped(x)) \/ (\E x, y : Passed(x, y))

LEMMA CountStep == EnderInv /\ LeaseWatched /\ [Next]_vars => CountMoves
<1> SUFFICES ASSUME EnderInv, LeaseWatched, [Next]_vars PROVE CountMoves
  OBVIOUS
<1> USE DEF EnderInv, TypeOK, OpSteps, CallerSteps, Move, MarkEnded, GiveBack, Done, OpStep, StopStep,
        callVars, runVars, leaseVars
<1>1. ASSUME NEW c \in Callers, CallerNext(c) PROVE CountMoves
  <2>1. ASSUME NEW o \in Ops, Register(c, o) PROVE CountMoves
    <3>1. <<"op", o>> \notin Counted
      BY <2>1, CountedForms DEF Register
    <3>2. \A w : w \in Counted' <=> w \in Counted \/ w = <<"op", o>>
      BY <2>1, CountedForms DEF Register
    <3> QED BY <2>1, <3>1, <3>2 DEF CountMoves, Added, Register
  <2>2. CASE BeginGate(c)
    <3>1. <<"caller", c>> \notin Counted
      BY <2>2, CountedForms DEF BeginGate
    <3>2. \A w : w \in Counted' <=> w \in Counted \/ w = <<"caller", c>>
      BY <2>2, CountedForms DEF BeginGate
    <3> QED BY <2>2, <3>1, <3>2 DEF CountMoves, Added, BeginGate
  <2>3. CASE BeginRefused(c)
    <3>1. <<"caller", c>> \in Counted
      BY <2>3, CountedForms DEF BeginRefused
    <3>2. \A w : w \in Counted' <=> w \in Counted /\ w # <<"caller", c>>
      BY <2>3, CountedForms DEF BeginRefused
    <3> QED BY <2>3, <3>1, <3>2 DEF CountMoves, Dropped, BeginRefused
  <2>4. ASSUME NEW l \in Leases, BeginLease(c, l) PROVE CountMoves
    <3>1. <<"caller", c>> \in Counted
      BY <2>4, CountedForms DEF BeginLease
    <3>2. <<"watch", l>> \notin Counted
      BY <2>4, CountedForms DEF BeginLease, LeaseWatched, Watching
    <3>3. \A w : w \in Counted' <=> (w \in Counted /\ w # <<"caller", c>>) \/ w = <<"watch", l>>
      BY <2>4, CountedForms DEF BeginLease, Watching
    <3> QED BY <2>4, <3>1, <3>2, <3>3 DEF CountMoves, Passed, BeginLease
  <2>5. CASE Arrive(c) \/ AcquireSlot(c) \/ Leave(c) \/ RefuseStopping(c)
    BY <2>5, SameCount DEF SameCounted, CountMoves, Kept, Arrive, AcquireSlot, Leave, RefuseStopping
  <2>6. CASE FindLease(c, "ending") \/ FindLease(c, "session") \/ EndRawSession(c)
    BY <2>6, SameCount DEF SameCounted, CountMoves, Kept, FindLease, EndRawSession
  <2>7. CASE SessionLock(c) \/ SessionSend(c) \/ SessionReply(c)
    BY <2>7, SameCount DEF SameCounted, CountMoves, Kept, SessionLock, SessionSend, SessionReply
  <2>8. CASE SessionLeave(c) \/ SessionRemoved(c) \/ ReleaseLease(c)
    BY <2>8, SameCount DEF SameCounted, CountMoves, Kept, SessionLeave, SessionRemoved, ReleaseLease
  <2> QED BY <1>1, <2>1, <2>2, <2>3, <2>4, <2>5, <2>6, <2>7, <2>8 DEF CallerNext
<1>2. ASSUME NEW o \in Ops, OpNext(o) PROVE CountMoves
  <2>1. CASE OpDone(o)
    <3>1. <<"op", o>> \in Counted
      BY <2>1, CountedForms DEF OpDone
    <3>2. \A w : w \in Counted' <=> w \in Counted /\ w # <<"op", o>>
      BY <2>1, CountedForms DEF OpDone
    <3> QED BY <2>1, <3>1, <3>2 DEF CountMoves, Dropped, OpDone
  <2>2. CASE OpRead(o) \/ OpRefused(o) \/ OpPrepare(o)
    BY <2>2, SameCount DEF SameCounted, CountMoves, Kept, OpRead, OpRefused, OpPrepare
  <2>3. CASE OpUnprepared(o) \/ OpPrepared(o) \/ OpWritten(o)
    BY <2>3, SameCount DEF SameCounted, CountMoves, Kept, OpUnprepared, OpPrepared, OpWritten
  <2> QED BY <1>2, <2>1, <2>2, <2>3 DEF OpNext
<1>3. ASSUME NEW p \in Polls, PollNext(p) PROVE CountMoves
  BY <1>3, SameCount DEF SameCounted, CountMoves, Kept, PollNext, PollStart, PollEnter, PollTake,
     PollError, PollEnd
<1>4. ASSUME NEW l \in Leases, LeaseNext(l) PROVE CountMoves
  <2>1. CASE WatchRelease(l) \/ WatchGone(l)
    <3>1. <<"watch", l>> \in Counted
      BY <2>1, CountedForms DEF WatchRelease, WatchGone, Watching
    <3>2. \A w : w \in Counted' <=> w \in Counted /\ w # <<"watch", l>>
      BY <2>1, CountedForms DEF WatchRelease, WatchGone, Watching
    <3>3. opsWg' = opsWg - 1
      BY <2>1 DEF WatchRelease, WatchGone
    <3> QED BY <3>1, <3>2, <3>3 DEF CountMoves, Dropped
  <2>2. CASE Expire(l) \/ WatchLook(l) \/ WatchEnd(l)
    BY <2>2, SameCount DEF SameCounted, CountMoves, Kept, Expire, WatchLook, WatchEnd, Watching
  <2> QED BY <1>4, <2>1, <2>2 DEF LeaseNext
<1>5. CASE StopNext
  BY <1>5, SameCount DEF SameCounted, CountMoves, Kept, StopNext, WorkerResume, WorkerExit, WorkerClosed, StopCall,
     StopJoin, StopEndLease, StopRelease, StopGate, StopDrained, StopGiveUp
<1>6. CASE UNCHANGED vars
  BY <1>6, SameCount DEF SameCounted, CountMoves, Kept, vars
<1> QED BY <1>1, <1>2, <1>3, <1>4, <1>5, <1>6 DEF Next

LEMMA LeaseWatchedStep == EnderInv /\ LeaseWatched /\ [Next]_vars => LeaseWatched'
<1> SUFFICES ASSUME EnderInv, LeaseWatched, [Next]_vars PROVE LeaseWatched'
  OBVIOUS
<1> USE NamesApart DEF EnderInv, TypeOK, EnderMarked, RefNamed, CallersAt, LeaseWatched, Move, MarkEnded,
        GiveBack, Done, OpStep, StopStep, callVars, runVars, leaseVars
<1>1. ASSUME NEW c \in Callers, CallerNext(c) PROVE LeaseWatched'
  <2>1. CASE UNCHANGED <<phase, watch>>
    BY <2>1
  <2>2. ASSUME NEW l \in Leases, BeginLease(c, l) PROVE LeaseWatched'
    BY <2>2 DEF BeginLease
  <2>3. CASE EndRawSession(c)
    BY <2>3 DEF EndRawSession
  <2>4. CASE SessionRemoved(c)
    BY <2>4 DEF SessionRemoved
  <2>5. CASE ReleaseLease(c)
    BY <2>5 DEF ReleaseLease
  <2> QED BY <1>1, <2>1, <2>2, <2>3, <2>4, <2>5, Zenon DEF CallerNext, Arrive, AcquireSlot, Leave,
          RefuseStopping, Register, BeginGate, BeginRefused, FindLease, SessionLock, SessionSend,
          SessionReply, SessionLeave
<1>2. ASSUME NEW l \in Leases, LeaseNext(l) PROVE LeaseWatched'
  BY <1>2 DEF LeaseNext, Expire, WatchLook, WatchEnd, WatchRelease, WatchGone
<1>3. CASE StopEndLease
  BY <1>3 DEF StopEndLease
<1>4. CASE StopRelease
  BY <1>4 DEF StopRelease
<1>5. CASE UNCHANGED <<phase, watch>>
  BY <1>5
<1> QED
  BY <1>1, <1>2, <1>3, <1>4, <1>5, Zenon DEF Next, vars, OpNext, OpRead, OpRefused, OpPrepare,
     OpUnprepared, OpPrepared, OpWritten, OpDone, PollNext, PollStart, PollEnter, PollTake,
     PollError, PollEnd, StopNext, WorkerResume, WorkerExit, WorkerClosed, StopCall, StopJoin, StopGate,
     StopDrained, StopGiveUp

LEMMA CountExactStep == TypeOK /\ CountExact /\ CountMoves => CountExact'
<1> SUFFICES ASSUME TypeOK, CountExact, CountMoves PROVE CountExact'
  OBVIOUS
<1>0. IsFiniteSet(Counted) /\ opsWg = Cardinality(Counted) /\ opsWg \in Int
  BY DEF CountExact, TypeOK
<1>1. CASE Kept
  BY <1>0, <1>1 DEF Kept, CountExact
<1>2. ASSUME NEW x, Added(x) PROVE CountExact'
  <2>1. IsFiniteSet(Counted \cup {x}) /\ Cardinality(Counted \cup {x}) = Cardinality(Counted) + 1
    BY <1>0, <1>2, FS_AddElement, Zenon DEF Added
  <2> QED BY <1>0, <1>2, <2>1 DEF Added, CountExact
<1>3. ASSUME NEW x, Dropped(x) PROVE CountExact'
  <2>1. IsFiniteSet(Counted \ {x}) /\ Cardinality(Counted \ {x}) = Cardinality(Counted) - 1
    BY <1>0, <1>3, FS_RemoveElement, Zenon DEF Dropped
  <2> QED BY <1>0, <1>3, <2>1 DEF Dropped, CountExact
<1>4. ASSUME NEW x, NEW y, Passed(x, y) PROVE CountExact'
  <2> DEFINE Left == Counted \ {x}
  <2>1. IsFiniteSet(Left) /\ Cardinality(Left) = Cardinality(Counted) - 1
    BY <1>0, <1>4, FS_RemoveElement, Zenon DEF Passed
  <2>2. y \notin Left
    BY <1>4 DEF Passed
  <2>3. IsFiniteSet(Left \cup {y}) /\ Cardinality(Left \cup {y}) = Cardinality(Left) + 1
    BY <2>1, <2>2, FS_AddElement, Zenon
  <2>4. Counted' = Left \cup {y} /\ opsWg' = opsWg
    BY <1>4 DEF Passed
  <2> HIDE DEF Left
  <2> QED BY <1>0, <2>1, <2>3, <2>4 DEF CountExact
<1> QED BY <1>1, <1>2, <1>3, <1>4 DEF CountMoves

LEMMA WaitStep == WaitInv /\ [Next]_vars => WaitInv'
<1> SUFFICES ASSUME WaitInv, [Next]_vars PROVE WaitInv'
  OBVIOUS
<1>1. EnderInv' /\ LeaseWatched' /\ CountMoves /\ CountExact'
  BY EnderStep, LeaseWatchedStep, CountStep, CountExactStep DEF WaitInv, EnderInv
<1>2. ASSUME stopper' = "drained" PROVE Counted' = {}
  <2>1. CASE stopper = "drained"
    <3>1. Counted = {} /\ opsClosed
      BY <2>1 DEF WaitInv, opsClosed
    <3>2. Kept
      BY <1>1, <3>1 DEF CountMoves, Added, Dropped, Passed
    <3> QED BY <3>1, <3>2 DEF Kept
  <2>2. CASE stopper # "drained"
    <3>1. StopDrained
      BY <1>2, <2>2, NamesApart DEF WaitInv, EnderInv, TypeOK, StopSteps, vars, Next, CallerNext, OpNext,
         PollNext, LeaseNext, StopNext, Arrive, AcquireSlot, Leave, RefuseStopping, Register, BeginGate,
         BeginRefused, BeginLease, FindLease, EndRawSession, SessionLock, SessionSend, SessionReply,
         SessionLeave, SessionRemoved, ReleaseLease, OpRead, OpRefused, OpPrepare, OpUnprepared,
         OpPrepared, OpWritten, OpDone, PollStart, PollEnter, PollTake, PollError, PollEnd, Expire,
         WatchLook, WatchEnd, WatchRelease, WatchGone, WorkerResume, WorkerExit, WorkerClosed, StopCall, StopJoin,
         StopEndLease, StopRelease, StopGate, StopGiveUp, OpStep, StopStep, callVars, runVars, leaseVars
    <3>2. opsWg = 0 /\ Counted' = Counted
      BY <3>1, SameCount DEF StopDrained, StopStep, SameCounted, callVars, leaseVars
    <3> QED BY <3>2, FS_EmptySet DEF WaitInv, CountExact
  <2> QED BY <2>1, <2>2
<1> QED BY <1>1, <1>2 DEF WaitInv

LEMMA WaitInit == Init => WaitInv
<1> SUFFICES ASSUME Init PROVE LeaseWatched /\ CountExact /\ Counted = {}
  BY EnderInit DEF WaitInv
<1>1. Counted = {}
  BY CountedForms DEF Init, OpSteps, Watching
<1>2. LeaseWatched
  BY DEF Init, LeaseWatched
<1>3. opsWg = 0
  BY DEF Init
<1> QED BY <1>1, <1>2, <1>3, FS_EmptySet DEF CountExact

(* A Stop that saw the counter at zero left nothing behind that opsWg      *)
(* counts: no operation, no look at the card for a lease, no lease and no  *)
(* watcher of one (drainOperations, reader.go:340-372).                    *)
THEOREM DrainedStopIsQuiet == Spec => []DrainedIsQuiet
<1>1. WaitInv => DrainedIsQuiet
  <2> SUFFICES ASSUME WaitInv, stopper = "drained" PROVE
         /\ OpsAt(OpSteps \ {"idle"}) = {} /\ CallersAt({"tagging"}) = {} /\ LeasesAt({"held"}) = {}
         /\ \A l \in Leases : watch[l] \in {"none", "gone"}
    BY DEF DrainedIsQuiet
  <2>1. Counted = {}
    BY DEF WaitInv
  <2>2. \A l \in Leases : watch[l] \in {"none", "gone"}
    BY <2>1, CountedForms DEF WaitInv, EnderInv, TypeOK, WatchSteps, Watching
  <2>3. OpsAt(OpSteps \ {"idle"}) = {} /\ CallersAt({"tagging"}) = {}
    BY <2>1, CountedForms DEF OpsAt, CallersAt
  <2>4. LeasesAt({"held"}) = {}
    BY <2>2 DEF WaitInv, LeaseWatched, LeasesAt
  <2> QED BY <2>2, <2>3, <2>4
<1> QED BY <1>1, WaitInit, WaitStep, PTL DEF Spec

-----------------------------------------------------------------------------
(* Writing and locking a card.                                             *)

(* The keys tried, how a call may end, and the commands there are.          *)
TriedKeys == {KeysToTry[i] : i \in DOMAIN KeysToTry}
Ends == {"ok", "failed", "gone", "readOnly", "notSupported", "capacity"}

Commands ==
    [ins : {"read"}, at : Cells] \cup [ins : {"write"}, at : Int, msg : Messages]
    \cup [ins : {"readLock", "setLock"}, at : {"static", "dynamic"}]
    \cup [ins : {"auth"}, at : Int, key : TriedKeys, asB : BOOLEAN, rest : Seq(TriedKeys)]
    \cup [ins : {"trailer"}, at : Int, to : {"mad", "ndef"}]
    \cup [ins : {"selectFile"}, at : {"cc", "ndef"}]
    \cup [ins : {"fit", "enter", "cannot", "selectApp", "readCC", "select", "settings", "auth1", "auth2", "change"}]

(* The stages that read, and what each family sends at each stage.          *)
ReadsAt(st) == st \in {"resolve", "verify"}

Issued(family, st) ==
    CASE family = "page"    -> (IF ReadsAt(st) THEN {"read"} ELSE IF st = "write" THEN {"readLock", "fit", "write"}
                                ELSE {"readLock", "setLock"})
      [] family = "classic" -> (IF ReadsAt(st) THEN {"auth", "read"} ELSE {"fit", "auth", "write", "trailer"})
      [] family = "type4"   -> {"selectApp", "selectFile", "readCC"} \cup
                               (IF ReadsAt(st) THEN {"read"} ELSE {"fit", "write"})
      [] family = "desfire" -> {"select", "settings", "enter", "auth1", "auth2"} \cup
                               (IF ReadsAt(st) THEN {"read"}
                                ELSE IF st = "write" THEN {"write"} ELSE {"change", "cannot"})

Issues(c, st, q) ==
    /\ q \in Seq(Commands)
    /\ \A k \in DOMAIN q : /\ q[k].ins \in Issued(Family(c.kind), st)
                           /\ st = "write" /\ q[k].ins = "readLock" => q[k].at = "static"

(* The reads to come take the cells in order from the n-th on. *)
Reads(q, k) == k \in DOMAIN q /\ q[k].ins = "read"
InOrder(q, n) ==
    /\ \A k \in DOMAIN q : Reads(q, k) => q[k].at > n
    /\ \A k \in DOMAIN q : Reads(q, k) /\ q[k].at > n + 1 =>
          \E j \in 1..k - 1 : Reads(q, j) /\ q[j].at = q[k].at - 1
    /\ \A j, k \in DOMAIN q : Reads(q, j) /\ Reads(q, k) /\ q[j].at = q[k].at => j = k

(* What has been read is what the card's first cells hold.                  *)
HeardSoFar(c, h) ==
    h \in Seq(Messages) /\ Len(h) <= Chunks /\ \A i \in 1..Len(h) : h[i] = c.cells[i]
ReadsTrue(c, q, h) ==
    /\ HeardSoFar(c, h)
    /\ InOrder(q, Len(h))
    /\ \A k \in DOMAIN q : q[k].ins = "enter" => h = << >> /\ \A j \in DOMAIN q : ~Reads(q, j)

(* A card that stores inverted bytes holds no message once written to. *)
Spoils(c, st, q) ==
    Family(c.kind) = "page" /\ c.corrupt =>
        /\ st = "write" => c.cells[1] = Garbage \/ \E k \in DOMAIN q : q[k].ins = "write" /\ q[k].at = 1
        /\ st = "verify" => c.cells[1] = Garbage

(* The lock bytes a lock has still to set. *)
Sets(q, k, which) == k \in DOMAIN q /\ q[k].ins = "setLock" /\ q[k].at = which
PageLocks(c, q) ==
    /\ HasDynamic(c.kind) \/ c.kind = "Ultralight"
    /\ ~c.corrupt =>
        /\ c.static \/ \E k \in DOMAIN q : Sets(q, k, "static")
        /\ HasDynamic(c.kind) => c.dynamic \/ \E k \in DOMAIN q : Sets(q, k, "dynamic")
    /\ \A j, k \in DOMAIN q : Sets(q, j, "static") /\ Sets(q, k, "dynamic") => k < j
DesfireLocks(q) == q # << >> /\ q[Len(q)].ins \in {"enter", "change", "cannot"}
Locks(c, q) ==
    \/ Family(c.kind) = "page" /\ PageLocks(c, q)
    \/ Family(c.kind) = "desfire" /\ DesfireLocks(q)

(* A sector that no key is known to open is still to be opened before any is changed. *)
OpensAhead(q, s) ==
    \E k \in DOMAIN q : /\ q[k].ins = "auth" /\ q[k].at = s
                        /\ \A j \in 1..k - 1 : q[j].ins \notin {"write", "trailer"}
FormatSafe(c, q) == \A s \in 0..Chunks : Opens(c.trailers[s]) \/ OpensAhead(q, s)

(* The card is one there is, and the driver knows of it what is so: a right *)
(* to write that it takes for withheld is withheld.                         *)
CardOK(c) == c \in Cards /\ (Family(c.kind) = "page" => NotHalfLocked(c))

DriverOK(c, d) ==
    /\ d \in [held : BOOLEAN, probed : BOOLEAN, rights : Rights \cup [{} -> {""}],
              session : {"none", "open", "adrift"}]
    /\ d.probed => d.rights \in Rights
    /\ Family(c.kind) = "desfire" /\ d.probed /\ d.rights.write = "never" => c.rights.write = "never"

(* What is asked for, and what a verified write has left for the lock.      *)
Holds(c, m) == \A i \in 1..Need(m) : c.cells[i] = m

TaskOK(c, st, o) ==
    /\ o \in [req : Operations, data : Messages, attempt : Nat, sure : BOOLEAN, from : Int, sound : BOOLEAN]
    /\ o.req.msg \notin {Blank, Garbage}
    /\ o.req.force => c.kind = "Classic"
    /\ st \in {"write", "verify"} => o.data \notin {Blank, Garbage}
    /\ st = "lock" /\ o.sure => Holds(c, o.data) /\ (Family(c.kind) = "page" => ~c.corrupt)

(* What is left to send of an operation under way, with what it has heard.  *)
Plan(c, st, q, h, o) ==
    /\ Issues(c, st, q)
    /\ ReadsAt(st) => ReadsTrue(c, q, h)
    /\ Spoils(c, st, q)
    /\ st = "lock" => Locks(c, q)
    /\ st = "write" /\ o.req.force => FormatSafe(c, q)

(* What a caller may be told.                                               *)
Words ==
    [kind : {"write", "lock"}, result : Ends \cup {"success", "notLocked"}, data : Messages, sure : BOOLEAN,
     locked : BOOLEAN, attempts : Nat, met : Int, fits : BOOLEAN, sound : BOOLEAN]

(* The inductive invariant: the operation under way has a plan that, carried *)
(* out, makes its report true, and the last report is true already.          *)
WriteInv ==
    /\ stage \in {"idle", "resolve", "write", "verify", "lock"}
    /\ CardOK(card) /\ DriverOK(card, drv)
    /\ faults \in Nat
    /\ stage = "idle" => todo = << >>
    /\ stage # "idle" =>
        last = NoWord /\ todo # << >> /\ TaskOK(card, stage, task) /\ Plan(card, stage, todo, heard, task)
    /\ last # NoWord => ReportedIsThere
    /\ last = NoWord \/ last \in Words

(* A command carries what its instruction needs, each within its range. *)
LEMMA CommandForms ==
    ASSUME NEW cmd \in Commands
    PROVE  /\ cmd.ins = "read" => cmd.at \in Cells
           /\ cmd.ins = "write" => cmd.at \in Int /\ cmd.msg \in Messages
           /\ cmd.ins \in {"readLock", "setLock"} => cmd.at \in {"static", "dynamic"}
           /\ cmd.ins = "auth" => /\ cmd.at \in Int /\ cmd.key \in TriedKeys /\ cmd.asB \in BOOLEAN
                                  /\ cmd.rest \in Seq(TriedKeys)
                                  /\ cmd = [ins |-> "auth", at |-> cmd.at, key |-> cmd.key, asB |-> cmd.asB,
                                            rest |-> cmd.rest]
           /\ cmd.ins = "trailer" => cmd.at \in Int /\ cmd.to \in {"mad", "ndef"}
           /\ cmd.ins = "selectFile" => cmd.at \in {"cc", "ndef"}
BY DEF Commands

(* Commands left, and the first of them gone. *)
LEMMA TailIs ==
    ASSUME NEW q \in Seq(Commands), q # << >>
    PROVE  /\ Tail(q) \in Seq(Commands) /\ Len(q) \in Nat \ {0}
           /\ Len(Tail(q)) = Len(q) - 1
           /\ DOMAIN q = 1..Len(q) /\ DOMAIN Tail(q) = 1..Len(q) - 1
           /\ Head(q) = q[1] /\ q[1] \in Commands
           /\ \A i \in 1..Len(q) - 1 : i + 1 \in DOMAIN q /\ Tail(q)[i] = q[i + 1]
           /\ Tail(q) = << >> <=> Len(q) = 1
<1>1. Len(q) \in Nat \ {0} /\ DOMAIN q = 1..Len(q)
  BY EmptySeq, LenProperties
<1>2. Tail(q) \in Seq(Commands) /\ Len(Tail(q)) = Len(q) - 1 /\ \A i \in 1..Len(Tail(q)) : Tail(q)[i] = q[i + 1]
  BY HeadTailProperties
<1>3. DOMAIN Tail(q) = 1..Len(q) - 1
  BY <1>2, LenProperties
<1>4. Head(q) = q[1] /\ q[1] \in Commands
  BY <1>1, ElementOfSeq
<1>5. Tail(q) = << >> <=> Len(q) = 1
  BY <1>1, <1>2, EmptySeq
<1> QED BY <1>1, <1>2, <1>3, <1>4, <1>5

(* What is left of a stage's commands are commands of that stage. *)
LEMMA IssuesTail ==
    ASSUME NEW c, NEW c2, NEW st, NEW q, Issues(c, st, q), q # << >>, c2.kind = c.kind
    PROVE  /\ Issues(c2, st, Tail(q)) /\ Head(q) \in Commands
           /\ Head(q).ins \in Issued(Family(c.kind), st)
           /\ st = "write" /\ Head(q).ins = "readLock" => Head(q).at = "static"
<1>1. /\ q \in Seq(Commands)
      /\ \A k \in DOMAIN q : /\ q[k].ins \in Issued(Family(c.kind), st)
                             /\ st = "write" /\ q[k].ins = "readLock" => q[k].at = "static"
  BY DEF Issues
<1>2. \A k \in DOMAIN Tail(q) : /\ Tail(q)[k].ins \in Issued(Family(c.kind), st)
                                /\ st = "write" /\ Tail(q)[k].ins = "readLock" => Tail(q)[k].at = "static"
  <2>1. \A k \in DOMAIN Tail(q) : k + 1 \in DOMAIN q /\ Tail(q)[k] = q[k + 1]
    BY <1>1, TailIs
  <2> TAKE k \in DOMAIN Tail(q)
  <2>2. k + 1 \in DOMAIN q /\ Tail(q)[k] = q[k + 1]
    BY <2>1
  <2> QED BY <1>1, <2>2
<1>3. 1 \in DOMAIN q /\ Head(q) = q[1] /\ Head(q) \in Commands /\ Tail(q) \in Seq(Commands)
  BY <1>1, TailIs
<1> QED BY <1>1, <1>2, <1>3 DEF Issues

(* A command that reads nothing leaves the reads to come in order. *)
LEMMA OrderTail ==
    ASSUME NEW q \in Seq(Commands), q # << >>, NEW n \in Nat, InOrder(q, n), Head(q).ins # "read"
    PROVE  InOrder(Tail(q), n)
<1> PICK l \in Nat \ {0} : l = Len(q)
  BY TailIs
<1> DEFINE t == Tail(q)
<1>1. /\ DOMAIN q = 1..l /\ DOMAIN t = 1..l - 1 /\ \A i \in 1..l - 1 : i + 1 \in 1..l /\ t[i] = q[i + 1]
      /\ q[1].ins # "read"
  BY TailIs
<1> HIDE DEF t
<1>2. ASSUME NEW k \in DOMAIN t, Reads(t, k)
      PROVE  t[k].at > n /\ (t[k].at > n + 1 => \E j \in 1..k - 1 : Reads(t, j) /\ t[j].at = t[k].at - 1)
  <2>1. k + 1 \in DOMAIN q /\ Reads(q, k + 1) /\ q[k + 1] = t[k]
    BY <1>1, <1>2 DEF Reads
  <2>2. t[k].at > n
    BY <2>1 DEF InOrder
  <2>3. ASSUME t[k].at > n + 1
        PROVE  \E j \in 1..k - 1 : Reads(t, j) /\ t[j].at = t[k].at - 1
    <3>1. PICK j \in 1..(k + 1) - 1 : Reads(q, j) /\ q[j].at = q[k + 1].at - 1
      BY <2>1, <2>3 DEF InOrder
    <3>2. j # 1
      BY <1>1, <3>1 DEF Reads
    <3>3. j - 1 \in 1..k - 1 /\ j - 1 \in 1..l - 1 /\ (j - 1) + 1 = j
      BY <1>1, <3>1, <3>2
    <3>4. t[j - 1] = q[j] /\ Reads(t, j - 1)
      BY <1>1, <3>1, <3>3 DEF Reads
    <3> QED BY <2>1, <3>1, <3>3, <3>4
  <2> QED BY <2>2, <2>3
<1>3. ASSUME NEW j \in DOMAIN t, NEW k \in DOMAIN t, Reads(t, j), Reads(t, k), t[j].at = t[k].at
      PROVE  j = k
  <2>1. j + 1 \in DOMAIN q /\ k + 1 \in DOMAIN q /\ Reads(q, j + 1) /\ Reads(q, k + 1) /\ q[j + 1].at = q[k + 1].at
    BY <1>1, <1>3 DEF Reads
  <2>2. j + 1 = k + 1
    BY <2>1 DEF InOrder
  <2> QED BY <1>1, <2>2
<1> QED BY <1>2, <1>3 DEF InOrder, t

(* The first read of those in order is of the next cell, and the others follow it. *)
LEMMA OrderRead ==
    ASSUME NEW q \in Seq(Commands), q # << >>, NEW n \in Nat, InOrder(q, n), Head(q).ins = "read"
    PROVE  Head(q).at = n + 1 /\ InOrder(Tail(q), n + 1)
<1> PICK l \in Nat \ {0} : l = Len(q)
  BY TailIs
<1> DEFINE t == Tail(q)
<1>1. /\ DOMAIN q = 1..l /\ DOMAIN t = 1..l - 1 /\ \A i \in 1..l - 1 : i + 1 \in 1..l /\ t[i] = q[i + 1]
      /\ Head(q) = q[1] /\ Reads(q, 1)
  BY TailIs DEF Reads
<1> HIDE DEF t
<1>2. \A k \in DOMAIN q : Reads(q, k) => q[k].at \in Nat
  BY CommandForms, ElementOfSeq, TailIs, ChunksAssumption DEF Reads, Cells
<1>3. q[1].at = n + 1
  <2>1. q[1].at > n
    BY <1>1 DEF InOrder
  <2>2. ~ (q[1].at > n + 1)
    <3> SUFFICES ASSUME q[1].at > n + 1 PROVE FALSE
      OBVIOUS
    <3>1. PICK j \in 1..1 - 1 : TRUE
      BY <1>1 DEF InOrder
    <3> QED BY <3>1
  <2> QED BY <1>1, <1>2, <2>1, <2>2
<1>4. ASSUME NEW k \in DOMAIN t, Reads(t, k)
      PROVE  t[k].at > n + 1 /\ (t[k].at > n + 1 + 1 => \E j \in 1..k - 1 : Reads(t, j) /\ t[j].at = t[k].at - 1)
  <2>1. k + 1 \in DOMAIN q /\ Reads(q, k + 1) /\ q[k + 1] = t[k]
    BY <1>1, <1>4 DEF Reads
  <2>2. t[k].at > n /\ t[k].at \in Nat
    BY <1>2, <2>1 DEF InOrder
  <2>3. t[k].at # n + 1
    <3> SUFFICES ASSUME t[k].at = n + 1 PROVE FALSE
      OBVIOUS
    <3>1. 1 = k + 1
      BY <1>1, <1>3, <2>1 DEF InOrder
    <3> QED BY <1>1, <3>1
  <2>4. ASSUME t[k].at > n + 1 + 1
        PROVE  \E j \in 1..k - 1 : Reads(t, j) /\ t[j].at = t[k].at - 1
    <3>1. t[k].at > n + 1
      BY <2>2, <2>4
    <3>2. PICK j \in 1..(k + 1) - 1 : Reads(q, j) /\ q[j].at = q[k + 1].at - 1
      BY <2>1, <3>1 DEF InOrder
    <3>3. j # 1
      BY <1>3, <2>1, <2>2, <2>4, <3>2
    <3>4. j - 1 \in 1..k - 1 /\ j - 1 \in 1..l - 1 /\ (j - 1) + 1 = j
      BY <1>1, <3>2, <3>3
    <3>5. t[j - 1] = q[j] /\ Reads(t, j - 1)
      BY <1>1, <3>2, <3>4 DEF Reads
    <3> QED BY <2>1, <3>2, <3>4, <3>5
  <2> QED BY <2>2, <2>3, <2>4
<1>5. ASSUME NEW j \in DOMAIN t, NEW k \in DOMAIN t, Reads(t, j), Reads(t, k), t[j].at = t[k].at
      PROVE  j = k
  <2>1. j + 1 \in DOMAIN q /\ k + 1 \in DOMAIN q /\ Reads(q, j + 1) /\ Reads(q, k + 1) /\ q[j + 1].at = q[k + 1].at
    BY <1>1, <1>5 DEF Reads
  <2>2. j + 1 = k + 1
    BY <2>1 DEF InOrder
  <2> QED BY <1>1, <2>2
<1> QED BY <1>1, <1>3, <1>4, <1>5 DEF InOrder, t

(* Nothing of the NDEF area can be written any more. *)
Whole(c) ==
    CASE Family(c.kind) = "page"    -> \A i \in Cells : LockedPage(c, i)
      [] Family(c.kind) = "desfire" -> c.rights.write = "never"
      [] OTHER                      -> FALSE

(* WhollyLocked is said of the card at hand; Whole of any. *)
LEMMA WhollyLockedIs == WhollyLocked <=> Whole(card)
BY DEF WhollyLocked, Whole

(* A card is of one of the four families, and what its family makes it. *)
LEMMA Families ==
    ASSUME NEW c \in Cards
    PROVE  /\ Family(c.kind) \in {"page", "classic", "type4", "desfire"}
           /\ Family(c.kind) = "page" => c \in PageCards
           /\ Family(c.kind) = "classic" => c \in ClassicCards /\ c.kind = "Classic"
           /\ c.kind = "Classic" => Family(c.kind) = "classic"
           /\ Family(c.kind) = "type4" => c \in Type4Cards
           /\ Family(c.kind) = "desfire" => c \in DESFireCards
           /\ c.cells \in Filled
<1>1. CASE c \in PageCards
  <2>1. c.kind \in {"NTAG213", "NTAG215", "NTAG216", "Ultralight", "UltralightC", "UltralightEV1"}
    BY <1>1 DEF PageCards, NTAGs, Ultralights
  <2>2. Family(c.kind) = "page" /\ c.kind # "Classic"
    BY <2>1 DEF Family, NTAGs, Ultralights, DESFires
  <2>3. c.cells \in Filled
    BY <1>1, <2>1 DEF PageCards
  <2> QED BY <1>1, <2>2, <2>3
<1>2. CASE c \in ClassicCards
  <2>1. c.kind = "Classic"
    BY <1>2 DEF ClassicCards
  <2>2. Family(c.kind) = "classic"
    BY <2>1 DEF Family, NTAGs, Ultralights, DESFires
  <2>3. c.cells \in Filled
    BY <1>2 DEF ClassicCards
  <2> QED BY <1>2, <2>1, <2>2, <2>3
<1>3. CASE c \in Type4Cards
  <2>1. c.kind = "Type4"
    BY <1>3 DEF Type4Cards
  <2>2. Family(c.kind) = "type4"
    BY <2>1 DEF Family, NTAGs, Ultralights, DESFires
  <2>3. c.cells \in Filled
    BY <1>3 DEF Type4Cards
  <2> QED BY <1>3, <2>1, <2>2, <2>3
<1>4. CASE c \in DESFireCards
  <2>1. c.kind \in {"DESFireEV1", "DESFireEV2"}
    BY <1>4 DEF DESFireCards, DESFires
  <2>2. Family(c.kind) = "desfire" /\ c.kind # "Classic"
    BY <2>1 DEF Family, NTAGs, Ultralights, DESFires
  <2>3. c.cells \in Filled
    BY <1>4, <2>1 DEF DESFireCards
  <2> QED BY <1>4, <2>2, <2>3
<1> QED BY <1>1, <1>2, <1>3, <1>4 DEF Cards

(* An unwritten cell and one stored inverted hold messages like any other. *)
LEMMA NothingSaid == Blank \in Messages /\ Garbage \in Messages /\ Blank # Garbage
BY DEF Blank, Garbage, Messages

(* Writing one cell leaves the others as they were (Put). *)
LEMMA PutFills ==
    ASSUME NEW f \in Filled, NEW i, NEW m \in Messages
    PROVE  /\ [f EXCEPT ![i] = m] \in Filled
           /\ \A j \in Cells : [f EXCEPT ![i] = m][j] = IF j = i THEN m ELSE f[j]
BY DEF Filled

-----------------------------------------------------------------------------
(* Pages *)

(* A page written: refused where it is locked, Garbage where the card inverts (WriteMem). *)
LEMMA PageWrites ==
    ASSUME NEW c \in PageCards, NEW cmd \in Commands, cmd.ins = "write"
    PROVE  LET a == PageAnswer(c, cmd) IN
           /\ a.card \in PageCards
           /\ a.card.kind = c.kind /\ a.card.corrupt = c.corrupt /\ a.card.static = c.static
           /\ a.card.dynamic = c.dynamic
           /\ a.how \in {"ok", "refused"}
           /\ a.how = "refused" => a.card = c
           /\ a.how = "ok" => a.card.cells = [c.cells EXCEPT ![cmd.at] = IF c.corrupt THEN Garbage ELSE cmd.msg]
<1> DEFINE m == IF c.corrupt THEN Garbage ELSE cmd.msg
<1>1. m \in Messages
  BY CommandForms, NothingSaid
<1>2. PageAnswer(c, cmd) = WriteMem(c, cmd)
  BY DEF PageAnswer
<1>3. CASE LockedPage(c, cmd.at)
  BY <1>2, <1>3 DEF WriteMem, Refuses
<1>4. CASE ~LockedPage(c, cmd.at)
  <2>1. c.cells \in Filled
    BY DEF PageCards
  <2>2. PICK f \in Filled : f = [c.cells EXCEPT ![cmd.at] = m]
    BY <1>1, <2>1, PutFills
  <2>3. PICK x : x = [c EXCEPT !.cells = f]
    OBVIOUS
  <2>4. WriteMem(c, cmd) = [card |-> x, how |-> "ok", value |-> Blank]
    BY <1>4, <2>2, <2>3 DEF WriteMem, Accepts, Says, Put
  <2>5. x \in PageCards
    BY <2>3 DEF PageCards
  <2>6. /\ x.kind = c.kind /\ x.corrupt = c.corrupt /\ x.static = c.static /\ x.dynamic = c.dynamic
        /\ x.cells = f
    BY <2>3 DEF PageCards
  <2> HIDE DEF m
  <2>7. WriteMem(c, cmd).card = x /\ WriteMem(c, cmd).how = "ok"
    BY <2>4
  <2> QED BY <1>2, <2>2, <2>5, <2>6, <2>7 DEF m
<1> QED BY <1>3, <1>4

(* A page or a lock byte read leaves the card as it is (PageAnswer). *)
LEMMA PageReads ==
    ASSUME NEW c \in PageCards, NEW cmd \in Commands, cmd.ins \in {"read", "readLock"}
    PROVE  LET a == PageAnswer(c, cmd) IN
           /\ a.card = c /\ a.how = "ok"
           /\ cmd.ins = "read" => a.value = c.cells[cmd.at]
           /\ cmd.ins = "readLock" /\ cmd.at = "static" => a.value = c.static
BY DEF PageAnswer, Says

(* Lock bytes are only ever set, and a card that inverts sets none (SetLock). *)
LEMMA PageSets ==
    ASSUME NEW c \in PageCards, NEW cmd \in Commands, cmd.ins = "setLock"
    PROVE  LET a == PageAnswer(c, cmd) IN
           /\ a.card \in PageCards /\ a.how = "ok"
           /\ a.card.kind = c.kind /\ a.card.corrupt = c.corrupt /\ a.card.cells = c.cells
           /\ a.card.static = IF cmd.at = "static" /\ ~c.corrupt THEN TRUE ELSE c.static
           /\ a.card.dynamic = IF cmd.at = "dynamic" /\ ~c.corrupt THEN TRUE ELSE c.dynamic
<1>1. PageAnswer(c, cmd) = [card |-> SetLock(c, cmd.at), how |-> "ok", value |-> Blank]
  BY DEF PageAnswer, Accepts, Says
<1>2. c.corrupt \in BOOLEAN /\ c.static \in BOOLEAN /\ c.dynamic \in BOOLEAN
  BY DEF PageCards
<1>3. CASE cmd.at = "static"
  <2>1. PICK b \in BOOLEAN : b = IF ~c.corrupt THEN TRUE ELSE c.static
    BY <1>2
  <2>2. (c.static \/ ~c.corrupt) = b
    BY <1>2, <2>1
  <2>3. PICK x : x = [c EXCEPT !.static = b]
    OBVIOUS
  <2>4. SetLock(c, cmd.at) = x
    BY <1>3, <2>2, <2>3 DEF SetLock
  <2>5. /\ x \in PageCards /\ x.kind = c.kind /\ x.corrupt = c.corrupt
        /\ x.cells = c.cells /\ x.dynamic = c.dynamic /\ x.static = b
    BY <2>3 DEF PageCards
  <2>6. PageAnswer(c, cmd).card = x /\ PageAnswer(c, cmd).how = "ok"
    BY <1>1, <2>4
  <2> QED BY <1>3, <2>1, <2>5, <2>6
<1>4. CASE cmd.at = "dynamic"
  <2>1. PICK b \in BOOLEAN : b = IF ~c.corrupt THEN TRUE ELSE c.dynamic
    BY <1>2
  <2>2. (c.dynamic \/ ~c.corrupt) = b
    BY <1>2, <2>1
  <2>3. PICK x : x = [c EXCEPT !.dynamic = b]
    OBVIOUS
  <2>4. SetLock(c, cmd.at) = x
    BY <1>4, <2>2, <2>3 DEF SetLock
  <2>5. /\ x \in PageCards /\ x.kind = c.kind /\ x.corrupt = c.corrupt
        /\ x.cells = c.cells /\ x.static = c.static /\ x.dynamic = b
    BY <2>3 DEF PageCards
  <2>6. PageAnswer(c, cmd).card = x /\ PageAnswer(c, cmd).how = "ok"
    BY <1>1, <2>4
  <2> QED BY <1>4, <2>1, <2>5, <2>6
<1> QED BY <1>3, <1>4, CommandForms

-----------------------------------------------------------------------------
(* Classic *)

(* What a card keeps over an authentication. *)
Untouched(c, c2) == [c2 EXCEPT !.authed = -1, !.asB = FALSE] = [c EXCEPT !.authed = -1, !.asB = FALSE]

(* An authentication touches nothing but the card's own note of it, and succeeds only
   with a key of the trailer (Authenticate). *)
LEMMA ClassicOpens ==
    ASSUME NEW c \in ClassicCards, NEW cmd \in Commands, cmd.ins = "auth"
    PROVE  LET a == ClassicAnswer(c, cmd) IN
           /\ a.card \in ClassicCards /\ a.card.kind = c.kind
           /\ a.how \in {"ok", "refused"}
           /\ a.card.cells = c.cells /\ a.card.trailers = c.trailers /\ Untouched(c, a.card)
           /\ a.how = "ok" => cmd.key \in {c.trailers[cmd.at].a, c.trailers[cmd.at].b}
<1>1. ClassicAnswer(c, cmd) = Authenticate(c, cmd)
  BY DEF ClassicAnswer
<1>2. CASE cmd.key = IF cmd.asB THEN c.trailers[cmd.at].b ELSE c.trailers[cmd.at].a
  <2>1. PICK x : x = [c EXCEPT !.authed = cmd.at, !.asB = cmd.asB]
    OBVIOUS
  <2>2. Authenticate(c, cmd) = [card |-> x, how |-> "ok", value |-> Blank]
    BY <1>2, <2>1 DEF Authenticate, Accepts, Says
  <2>3. cmd.at \in Int /\ cmd.asB \in BOOLEAN
    BY CommandForms
  <2>4. x \in ClassicCards /\ x.kind = c.kind /\ x.cells = c.cells /\ x.trailers = c.trailers
    BY <2>1, <2>3 DEF ClassicCards
  <2>5. Untouched(c, x)
    BY <2>1 DEF Untouched, ClassicCards
  <2>6. Authenticate(c, cmd).card = x /\ Authenticate(c, cmd).how = "ok"
    BY <2>2
  <2>7. cmd.key \in {c.trailers[cmd.at].a, c.trailers[cmd.at].b}
    BY <1>2
  <2> QED BY <1>1, <2>4, <2>5, <2>6, <2>7
<1>3. CASE cmd.key # IF cmd.asB THEN c.trailers[cmd.at].b ELSE c.trailers[cmd.at].a
  <2>1. Authenticate(c, cmd) = [card |-> c, how |-> "refused", value |-> Blank]
    BY <1>3 DEF Authenticate, Refuses
  <2>2. Authenticate(c, cmd).card = c /\ Authenticate(c, cmd).how = "refused"
    BY <2>1
  <2> QED BY <1>1, <2>2 DEF Untouched
<1> QED BY <1>2, <1>3

(* A block read leaves a Classic as it is, and answers what the cell holds. *)
LEMMA ClassicReads ==
    ASSUME NEW c \in ClassicCards, NEW cmd \in Commands, cmd.ins = "read"
    PROVE  LET a == ClassicAnswer(c, cmd) IN
           /\ a.card = c /\ a.how \in {"ok", "refused"}
           /\ a.how = "ok" => a.value = c.cells[cmd.at]
<1>1. CASE c.authed # cmd.at
  BY <1>1 DEF ClassicAnswer, Refuses
<1>2. CASE c.authed = cmd.at
  BY <1>2 DEF ClassicAnswer, Says
<1> QED BY <1>1, <1>2

(* The trailers a format writes keep the factory's Key B, which is always tried. *)
LEMMA FormatTrailers ==
    \A to \in {"mad", "ndef"} : Formats[to] \in SectorTrailers /\ Formats[to].b = "factory"
BY KeysAssumption DEF Formats, Trailer, SectorTrailers

(* A Classic written keeps each trailer, or gives it the factory's Key B. *)
LEMMA ClassicWrites ==
    ASSUME NEW c \in ClassicCards, NEW cmd \in Commands, cmd.ins \in {"write", "trailer"}
    PROVE  LET a == ClassicAnswer(c, cmd) IN
           /\ a.card \in ClassicCards /\ a.card.kind = c.kind
           /\ a.how \in {"ok", "refused"}
           /\ \A s \in 0..Chunks : \/ a.card.trailers[s] = c.trailers[s]
                                   \/ a.card.trailers[s].b = "factory"
<1> DEFINE a == ClassicAnswer(c, cmd)
<1>1. CASE a = [card |-> c, how |-> "refused", value |-> Blank]
  <2>1. a.card = c /\ a.how = "refused"
    BY <1>1
  <2> HIDE DEF a
  <2> QED BY <2>1 DEF a
<1>2. CASE a = [card |-> [c EXCEPT !.mad = TRUE], how |-> "ok", value |-> Blank]
  <2>1. PICK x : x = [c EXCEPT !.mad = TRUE]
    OBVIOUS
  <2>2. a.card = x /\ a.how = "ok"
    BY <1>2, <2>1
  <2>3. x \in ClassicCards /\ x.kind = c.kind /\ x.trailers = c.trailers
    BY <2>1 DEF ClassicCards
  <2> HIDE DEF a
  <2> QED BY <2>2, <2>3 DEF a
<1>3. CASE cmd.ins = "write" /\ a = [card |-> [c EXCEPT !.cells[cmd.at] = cmd.msg], how |-> "ok", value |-> Blank]
  <2>1. cmd.msg \in Messages /\ c.cells \in Filled
    BY <1>3, CommandForms DEF ClassicCards
  <2>2. PICK f \in Filled : f = [c.cells EXCEPT ![cmd.at] = cmd.msg]
    BY <2>1, PutFills
  <2>3. PICK x : x = [c EXCEPT !.cells = f]
    OBVIOUS
  <2>4. a.card = x /\ a.how = "ok"
    BY <1>3, <2>2, <2>3
  <2>5. x \in ClassicCards /\ x.kind = c.kind /\ x.trailers = c.trailers
    BY <2>3 DEF ClassicCards
  <2> HIDE DEF a
  <2> QED BY <2>4, <2>5 DEF a
<1>4. CASE /\ cmd.ins = "trailer"
           /\ a = [card |-> [c EXCEPT !.trailers[cmd.at] = Formats[cmd.to]], how |-> "ok", value |-> Blank]
  <2>1. cmd.to \in {"mad", "ndef"}
    BY <1>4, CommandForms
  <2>2. PICK v \in SectorTrailers : v = Formats[cmd.to] /\ v.b = "factory"
    BY <2>1, FormatTrailers
  <2>3. PICK f : f = [c.trailers EXCEPT ![cmd.at] = v]
    OBVIOUS
  <2>4. c.trailers \in [0..Chunks -> SectorTrailers]
    BY DEF ClassicCards
  <2>5. /\ f \in [0..Chunks -> SectorTrailers]
        /\ \A s \in 0..Chunks : f[s] = c.trailers[s] \/ f[s] = v
    BY <2>2, <2>3, <2>4
  <2>6. PICK x : x = [c EXCEPT !.trailers = f]
    OBVIOUS
  <2>7. a.card = x /\ a.how = "ok"
    BY <1>4, <2>2, <2>3, <2>6
  <2>8. x \in ClassicCards /\ x.kind = c.kind /\ x.trailers = f
    BY <2>5, <2>6 DEF ClassicCards
  <2> HIDE DEF a
  <2> QED BY <2>2, <2>5, <2>7, <2>8 DEF a
<1>5. \/ a = [card |-> c, how |-> "refused", value |-> Blank]
      \/ a = [card |-> [c EXCEPT !.mad = TRUE], how |-> "ok", value |-> Blank]
      \/ cmd.ins = "write" /\ a = [card |-> [c EXCEPT !.cells[cmd.at] = cmd.msg], how |-> "ok", value |-> Blank]
      \/ /\ cmd.ins = "trailer"
         /\ a = [card |-> [c EXCEPT !.trailers[cmd.at] = Formats[cmd.to]], how |-> "ok", value |-> Blank]
  <2>1. CASE c.authed # cmd.at
    BY <2>1 DEF ClassicAnswer, Refuses
  <2>2. CASE c.authed = cmd.at /\ cmd.ins = "write"
    BY <2>2 DEF ClassicAnswer, Refuses, Accepts, Says, Put
  <2>3. CASE c.authed = cmd.at /\ cmd.ins = "trailer"
    BY <2>3 DEF ClassicAnswer, Refuses, Accepts, Says
  <2> QED BY <2>1, <2>2, <2>3
<1> HIDE DEF a
<1> QED BY <1>1, <1>2, <1>3, <1>4, <1>5 DEF a

-----------------------------------------------------------------------------
(* Type 4 *)

(* A Type 4 card's cells change by a write alone, and are answered as they are. *)
LEMMA Type4Answers ==
    ASSUME NEW c \in Type4Cards, NEW cmd \in Commands,
           cmd.ins \in {"selectApp", "selectFile", "readCC", "read", "write"}
    PROVE  LET a == Type4Answer(c, cmd) IN
           /\ a.card \in Type4Cards /\ a.card.kind = c.kind
           /\ a.how \in {"ok", "refused"}
           /\ cmd.ins # "write" => a.card.cells = c.cells
           /\ cmd.ins = "read" /\ a.how = "ok" => a.value = c.cells[cmd.at]
<1> DEFINE a == Type4Answer(c, cmd)
<1>1. CASE cmd.ins \in {"readCC", "read"}
  <2>1. a.card = c /\ a.how \in {"ok", "refused"} /\ (cmd.ins = "read" /\ a.how = "ok" => a.value = c.cells[cmd.at])
    BY <1>1 DEF Type4Answer, Refuses, Accepts, Says
  <2> HIDE DEF a
  <2> QED BY <1>1, <2>1 DEF a
<1>2. CASE cmd.ins = "selectApp"
  <2>1. PICK x : x = [c EXCEPT !.app = TRUE, !.file = "none"]
    OBVIOUS
  <2>2. a.card = x /\ a.how = "ok"
    BY <1>2, <2>1 DEF Type4Answer, Accepts, Says
  <2>3. x \in Type4Cards /\ x.kind = c.kind /\ x.cells = c.cells
    BY <2>1 DEF Type4Cards
  <2> HIDE DEF a
  <2> QED BY <1>2, <2>2, <2>3 DEF a
<1>3. CASE cmd.ins = "selectFile"
  <2>1. PICK x : x = [c EXCEPT !.file = cmd.at]
    OBVIOUS
  <2>2. (a.card = x /\ a.how = "ok") \/ (a.card = c /\ a.how = "refused")
    BY <1>3, <2>1 DEF Type4Answer, Accepts, Says, Refuses
  <2>3. x \in Type4Cards /\ x.kind = c.kind /\ x.cells = c.cells
    BY <1>3, <2>1, CommandForms DEF Type4Cards
  <2> HIDE DEF a
  <2> QED BY <1>3, <2>2, <2>3 DEF a
<1>4. CASE cmd.ins = "write"
  <2>1. cmd.msg \in Messages /\ c.cells \in Filled
    BY <1>4, CommandForms DEF Type4Cards
  <2>2. PICK f \in Filled : f = [c.cells EXCEPT ![cmd.at] = cmd.msg]
    BY <2>1, PutFills
  <2>3. PICK x : x = [c EXCEPT !.cells = f]
    OBVIOUS
  <2>4. (a.card = x /\ a.how = "ok") \/ (a.card = c /\ a.how = "refused")
    BY <1>4, <2>2, <2>3 DEF Type4Answer, Accepts, Says, Refuses, Put
  <2>5. x \in Type4Cards /\ x.kind = c.kind
    BY <2>3 DEF Type4Cards
  <2> HIDE DEF a
  <2> QED BY <1>4, <2>4, <2>5 DEF a
<1> QED BY <1>1, <1>2, <1>3, <1>4

-----------------------------------------------------------------------------
(* DESFire *)

(* The commands a DESFire card answers. *)
DesfireCommands == {"select", "settings", "auth1", "auth2", "read", "write", "change"}

(* A change of settings that is accepted ends all writing, and none restores it
   (ChangeSettings). *)
LEMMA DesfireChanges ==
    ASSUME NEW c \in DESFireCards, NEW inStep
    PROVE  LET a == ChangeSettings(c, inStep) IN
           /\ a.card \in DESFireCards /\ a.card.kind = c.kind /\ a.card.cells = c.cells
           /\ a.how \in {"ok", "refused"}
           /\ c.rights.write = "never" => a.card.rights.write = "never"
           /\ a.how = "ok" => a.card.rights.write = "never"
<1> DEFINE a == ChangeSettings(c, inStep)
<1>1. PICK r \in Rights : r = [c.rights EXCEPT !.write = "never", !.change = "never"]
  BY DEF DESFireCards, Rights
<1>2. r.write = "never"
  BY <1>1 DEF DESFireCards, Rights
<1>3. PICK x : x = [c EXCEPT !.rights = r]
  OBVIOUS
<1>4. x = [c EXCEPT !.rights.write = "never", !.rights.change = "never"]
  BY <1>1, <1>3 DEF DESFireCards, Rights
<1>5. x \in DESFireCards /\ x.kind = c.kind /\ x.cells = c.cells /\ x.rights = r
  BY <1>3 DEF DESFireCards
<1>6. (a.card = x /\ a.how \in {"ok", "refused"}) \/ (a.card = c /\ a.how = "refused")
  BY <1>4 DEF ChangeSettings, Accepts, Says, Refuses
<1> HIDE DEF a
<1> QED BY <1>2, <1>5, <1>6 DEF a

(* A DESFire file's cells change by a write alone, its rights by a change alone. *)
LEMMA DesfireAnswers ==
    ASSUME NEW c \in DESFireCards, NEW cmd \in Commands, NEW inStep, cmd.ins \in DesfireCommands
    PROVE  LET a == DesfireAnswer(c, cmd, inStep) IN
           /\ a.card \in DESFireCards /\ a.card.kind = c.kind
           /\ a.how \in {"ok", "refused"}
           /\ cmd.ins # "write" => a.card.cells = c.cells
           /\ cmd.ins = "read" /\ a.how = "ok" => a.value = c.cells[cmd.at]
           /\ cmd.ins = "settings" /\ a.how = "ok" => a.value = c.rights
           /\ cmd.ins # "change" => a.card.rights = c.rights
           /\ c.rights.write = "never" => a.card.rights.write = "never"
           /\ cmd.ins = "change" /\ a.how = "ok" => a.card.rights.write = "never"
<1> DEFINE a == DesfireAnswer(c, cmd, inStep)
<1>1. CASE cmd.ins \in {"settings", "read"}
  <2>1. /\ a.card = c /\ a.how \in {"ok", "refused"}
        /\ cmd.ins = "read" /\ a.how = "ok" => a.value = c.cells[cmd.at]
        /\ cmd.ins = "settings" /\ a.how = "ok" => a.value = c.rights
    BY <1>1 DEF DesfireAnswer, Refuses, Says
  <2> HIDE DEF a
  <2> QED BY <1>1, <2>1 DEF a
<1>2. CASE cmd.ins \in {"select", "auth1", "auth2"}
  <2>1. PICK x : x = IF cmd.ins = "select" THEN [c EXCEPT !.selected = TRUE]
                     ELSE IF cmd.ins = "auth1" THEN [c EXCEPT !.challenged = TRUE]
                     ELSE [c EXCEPT !.channel = TRUE]
    OBVIOUS
  <2>2. (a.card = x /\ a.how = "ok") \/ (a.card = c /\ a.how = "refused")
    BY <1>2, <2>1 DEF DesfireAnswer, FinishAuth, Accepts, Says, Refuses
  <2>3. x \in DESFireCards /\ x.kind = c.kind /\ x.cells = c.cells /\ x.rights = c.rights
    BY <2>1 DEF DESFireCards
  <2> HIDE DEF a
  <2> QED BY <1>2, <2>2, <2>3 DEF a
<1>3. CASE cmd.ins = "write"
  <2>1. cmd.msg \in Messages /\ c.cells \in Filled
    BY <1>3, CommandForms DEF DESFireCards
  <2>2. PICK f \in Filled : f = [c.cells EXCEPT ![cmd.at] = cmd.msg]
    BY <2>1, PutFills
  <2>3. PICK x : x = [c EXCEPT !.cells = f]
    OBVIOUS
  <2>4. (a.card = x /\ a.how = "ok") \/ (a.card = c /\ a.how = "refused")
    BY <1>3, <2>2, <2>3 DEF DesfireAnswer, Accepts, Says, Refuses, Put
  <2>5. x \in DESFireCards /\ x.kind = c.kind /\ x.rights = c.rights
    BY <2>3 DEF DESFireCards
  <2> HIDE DEF a
  <2> QED BY <1>3, <2>4, <2>5 DEF a
<1>4. CASE cmd.ins = "change"
  <2>1. a = ChangeSettings(c, inStep)
    BY <1>4 DEF DesfireAnswer
  <2> HIDE DEF a
  <2> QED BY <1>4, <2>1, DesfireChanges DEF a
<1> QED BY <1>1, <1>2, <1>3, <1>4 DEF DesfireCommands

(* The stages of an operation under way. *)
Stages == {"resolve", "write", "verify", "lock"}

(* An operation under way. *)
Busy ==
    /\ stage \in Stages
    /\ CardOK(card) /\ DriverOK(card, drv)
    /\ todo # << >>
    /\ TaskOK(card, stage, task)
    /\ Plan(card, stage, todo, heard, task)

(* What a stage's end says. *)
Concluded(c, d, end, h) ==
    /\ end \in Ends
    /\ ReadsAt(stage) /\ end = "ok" => HeardSoFar(c, h)
    /\ Family(c.kind) = "page" /\ c.corrupt /\ (stage = "verify" \/ (stage = "write" /\ end = "ok"))
          => c.cells[1] = Garbage
    /\ end = "readOnly" => stage = "write" /\ (Whole(c) \/ (Family(c.kind) = "desfire" /\ ~d.held))
    /\ stage = "lock" /\ end = "ok" => Whole(c) \/ (Family(c.kind) = "page" /\ c.corrupt)

(* The card and the driver a command leaves. *)
Standing(c, d) ==
    /\ CardOK(c) /\ c.kind = card.kind
    /\ DriverOK(c, d)
    /\ TaskOK(c, stage, task)

(* What a command may lead to: more commands, or an end that says what is so. *)
Good(s, c) ==
    /\ Standing(c, s.drv)
    /\ s.end = "none" => s.todo # << >> /\ Plan(c, stage, s.todo, s.heard, task)
    /\ s.end # "none" => Concluded(c, s.drv, s.end, s.heard)

(* A call that ends keeps its driver, what it heard and how it ended. *)
LEMMA EndsForm ==
    ASSUME NEW d, NEW h, NEW how
    PROVE  LET s == EndsWith(d, h, how) IN s.drv = d /\ s.heard = h /\ s.end = how
BY DEF EndsWith

(* The card and the driver as they are can go on. *)
LEMMA Unmoved ==
    ASSUME Busy
    PROVE  Standing(card, drv)
BY DEF Busy, Standing

(* A call may give up whatever the card was left as, so long as what a verification
   reads is unchanged. *)
LEMMA FailingGoes ==
    ASSUME Busy, NEW c, NEW d, Standing(c, d), NEW how \in {"failed", "gone", "notSupported", "capacity"},
           stage = "verify" /\ Family(c.kind) = "page" => c.cells = card.cells /\ c.corrupt = card.corrupt
    PROVE  Good(EndsWith(d, heard, how), c)
<1>1. how \in Ends /\ how \notin {"ok", "readOnly", "none"}
  BY DEF Ends
<1>2. ASSUME Family(c.kind) = "page", c.corrupt, stage = "verify"
      PROVE  c.cells[1] = Garbage
  BY <1>2 DEF Busy, Plan, Spoils, Standing
<1>3. Concluded(c, d, how, heard)
  BY <1>1, <1>2 DEF Concluded
<1> QED BY <1>1, <1>3, EndsForm DEF Good

(* The same of a call that meets an error or a removal (Fails). *)
LEMMA FailsGoes ==
    ASSUME Busy, NEW c, NEW d, Standing(c, d), NEW how,
           stage = "verify" /\ Family(c.kind) = "page" => c.cells = card.cells /\ c.corrupt = card.corrupt
    PROVE  Good(Fails(d, how), c)
BY FailingGoes DEF Fails, Trouble

(* What was read is still on a card whose cells are unchanged. *)
LEMMA SameReads ==
    ASSUME Busy, NEW c, ReadsAt(stage), c.cells = card.cells
    PROVE  HeardSoFar(c, heard)
BY DEF Busy, Plan, ReadsTrue, HeardSoFar

(* A read cut short keeps the cells it has, which are the card's (CutShort). *)
LEMMA CutShortGoes ==
    ASSUME Busy, NEW c, NEW d, Standing(c, d), NEW how, ReadsAt(stage), c.cells = card.cells,
           Family(c.kind) = "page" => c.corrupt = card.corrupt
    PROVE  Good(CutShort(d, how), c)
<1>1. CASE how # "gone" /\ heard # << >>
  <2>1. CutShort(d, how) = EndsWith(d, heard, "ok")
    BY <1>1 DEF CutShort
  <2>2. stage \notin {"write", "lock"}
    BY DEF ReadsAt
  <2>3. ASSUME Family(c.kind) = "page", c.corrupt, stage = "verify"
        PROVE  c.cells[1] = Garbage
    BY <2>3 DEF Busy, Plan, Spoils, Standing
  <2>4. Concluded(c, d, "ok", heard)
    BY <2>2, <2>3, SameReads DEF Concluded, Ends
  <2> QED BY <2>1, <2>4, EndsForm DEF Good
<1>2. CASE ~(how # "gone" /\ heard # << >>)
  BY <1>2, FailsGoes DEF CutShort
<1> QED BY <1>1, <1>2

(* A command done goes on to the next, or ends its call (Onward). *)
LEMMA OnwardGoes ==
    ASSUME Busy, NEW c, NEW d, Standing(c, d),
           ReadsAt(stage) => Head(todo).ins # "read" /\ c.cells = card.cells,
           Spoils(c, stage, Tail(todo)),
           stage = "lock" => IF Tail(todo) = << >> THEN Whole(c) \/ (Family(c.kind) = "page" /\ c.corrupt)
                             ELSE Locks(c, Tail(todo)),
           stage = "write" /\ task.req.force => FormatSafe(c, Tail(todo))
    PROVE  Good(Onward(d, Tail(todo)), c)
<1> DEFINE s == Onward(d, Tail(todo))
<1>0. todo \in Seq(Commands) /\ todo # << >> /\ Issues(card, stage, todo)
  BY DEF Busy, Plan, Issues
<1>1. CASE Tail(todo) = << >>
  <2>1. ASSUME Family(c.kind) = "page", c.corrupt, stage = "verify" \/ stage = "write"
        PROVE  c.cells[1] = Garbage
    BY <1>1, <2>1 DEF Spoils
  <2>2. ReadsAt(stage) => HeardSoFar(c, heard)
    BY SameReads
  <2>3. Concluded(c, d, "ok", heard)
    BY <1>1, <2>1, <2>2 DEF Concluded, Ends
  <2>4. s.drv = d /\ s.heard = heard /\ s.end = "ok"
    BY <1>1 DEF s, Onward
  <2> HIDE DEF s
  <2>5. Good(s, c)
    BY <2>3, <2>4 DEF Good
  <2> QED BY <2>5 DEF s
<1>2. CASE Tail(todo) # << >>
  <2>1. Issues(c, stage, Tail(todo))
    BY <1>0, IssuesTail DEF Standing
  <2>2. ASSUME ReadsAt(stage) PROVE ReadsTrue(c, Tail(todo), heard)
    <3>1. HeardSoFar(c, heard)
      BY <2>2, SameReads
    <3>2. InOrder(todo, Len(heard)) /\ Len(heard) \in Nat
      BY <2>2, <3>1, LenProperties DEF Busy, Plan, ReadsTrue, HeardSoFar
    <3>3. InOrder(Tail(todo), Len(heard))
      BY <1>0, <2>2, <3>2, OrderTail
    <3>4. \A k \in DOMAIN Tail(todo) : Tail(todo)[k].ins = "enter" =>
              heard = << >> /\ \A j \in DOMAIN Tail(todo) : ~Reads(Tail(todo), j)
      <4>1. \A k \in DOMAIN todo : todo[k].ins = "enter" => heard = << >> /\ \A j \in DOMAIN todo : ~Reads(todo, j)
        BY <2>2 DEF Busy, Plan, ReadsTrue
      <4>2. \A j \in DOMAIN Tail(todo) : j + 1 \in DOMAIN todo /\ Tail(todo)[j] = todo[j + 1]
        BY <1>0, TailIs
      <4> QED BY <4>1, <4>2 DEF Reads
    <3> QED BY <3>1, <3>3, <3>4 DEF ReadsTrue
  <2>3. Plan(c, stage, Tail(todo), heard, task)
    BY <1>2, <2>1, <2>2 DEF Plan
  <2>4. s.drv = d /\ s.todo = Tail(todo) /\ s.heard = heard /\ s.end = "none"
    BY <1>2 DEF s, Onward
  <2> HIDE DEF s
  <2>5. Good(s, c)
    BY <1>2, <2>3, <2>4 DEF Good
  <2> QED BY <2>5 DEF s
<1> QED BY <1>1, <1>2

(* A cell read is added to those before it, all of them the card's (HeardCell). *)
LEMMA HeardGoes ==
    ASSUME Busy, NEW c, NEW d, Standing(c, d), ReadsAt(stage), Head(todo).ins = "read",
           c.cells = card.cells, Family(c.kind) = "page" => c.corrupt = card.corrupt
    PROVE  Good(HeardCell(d, card.cells[Head(todo).at], Tail(todo)), c)
<1> DEFINE v == card.cells[Head(todo).at]
           h == Append(heard, v)
<1>0. todo \in Seq(Commands) /\ todo # << >> /\ Issues(card, stage, todo)
  BY DEF Busy, Plan, Issues
<1>1. /\ HeardSoFar(card, heard) /\ InOrder(todo, Len(heard)) /\ Len(heard) \in Nat /\ heard \in Seq(Messages)
  BY LenProperties DEF Busy, Plan, ReadsTrue, HeardSoFar
<1>2. Head(todo).at = Len(heard) + 1 /\ InOrder(Tail(todo), Len(heard) + 1)
  BY <1>0, <1>1, OrderRead
<1>3. Head(todo).at \in Cells
  BY <1>0, TailIs, CommandForms
<1>4. v \in Messages
  <2>1. card.cells \in Filled
    BY Families DEF Busy, CardOK
  <2> QED BY <1>3, <2>1 DEF Filled
<1> HIDE DEF v
<1>5. /\ h \in Seq(Messages) /\ Len(h) = Len(heard) + 1
      /\ \A i \in 1..Len(heard) : h[i] = heard[i]
      /\ h[Len(heard) + 1] = v
  BY <1>1, <1>4, AppendProperties
<1> HIDE DEF h
<1>6. HeardSoFar(c, h)
  <2>1. Len(h) <= Chunks
    BY <1>1, <1>2, <1>3, <1>5, ChunksAssumption DEF Cells
  <2>2. ASSUME NEW i \in 1..Len(h) PROVE h[i] = c.cells[i]
    <3>1. CASE i \in 1..Len(heard)
      BY <1>1, <1>5, <3>1 DEF HeardSoFar
    <3>2. CASE i = Len(heard) + 1
      BY <1>2, <1>5, <3>2 DEF v
    <3> QED BY <1>1, <1>5, <3>1, <3>2
  <2> QED BY <1>5, <2>1, <2>2 DEF HeardSoFar
<1>7. stage \notin {"write", "lock"}
  BY DEF ReadsAt
<1>8. Family(c.kind) = "page" /\ c.corrupt /\ stage = "verify" => c.cells[1] = Garbage
  BY DEF Busy, Plan, Spoils, Standing
<1>9. CASE Tail(todo) = << >> \/ ReadEnough(h)
  <2>1. HeardCell(d, v, Tail(todo)) = EndsWith(d, h, "ok")
    BY <1>9 DEF HeardCell, h
  <2>2. Concluded(c, d, "ok", h)
    BY <1>6, <1>7, <1>8 DEF Concluded, Ends
  <2> QED BY <2>1, <2>2, EndsForm DEF Good, v
<1>10. CASE ~(Tail(todo) = << >> \/ ReadEnough(h))
  <2> DEFINE s == [Onward(d, Tail(todo)) EXCEPT !.heard = h]
  <2>1. HeardCell(d, v, Tail(todo)) = s
    BY <1>10 DEF HeardCell, h
  <2>2. s.drv = d /\ s.todo = Tail(todo) /\ s.heard = h /\ s.end = "none"
    BY <1>10 DEF Onward
  <2> HIDE DEF s
  <2>3. Issues(c, stage, Tail(todo))
    BY <1>0, IssuesTail DEF Standing
  <2>4. \A k \in DOMAIN Tail(todo) : Tail(todo)[k].ins # "enter"
    <3>1. \A k \in DOMAIN todo : todo[k].ins = "enter" => \A j \in DOMAIN todo : ~Reads(todo, j)
      BY DEF Busy, Plan, ReadsTrue
    <3>2. Reads(todo, 1)
      BY <1>0, TailIs DEF Reads
    <3>3. \A j \in DOMAIN Tail(todo) : j + 1 \in DOMAIN todo /\ Tail(todo)[j] = todo[j + 1]
      BY <1>0, TailIs
    <3> QED BY <3>1, <3>2, <3>3 DEF Reads
  <2>5. ReadsTrue(c, Tail(todo), h)
    BY <1>2, <1>5, <1>6, <2>4 DEF ReadsTrue
  <2>6. Spoils(c, stage, Tail(todo))
    BY <1>7, <1>8 DEF Spoils
  <2>7. Plan(c, stage, Tail(todo), h, task)
    BY <1>7, <2>3, <2>5, <2>6 DEF Plan
  <2> QED BY <1>10, <2>1, <2>2, <2>7 DEF Good, v
<1> QED BY <1>9, <1>10

(* A page stays locked while lock bytes are only set. *)
LEMMA LocksStay ==
    ASSUME NEW c, NEW c2, NEW i, c2.kind = c.kind, c.static => c2.static, c.dynamic => c2.dynamic,
           LockedPage(c, i)
    PROVE  LockedPage(c2, i)
<1>1. Static(c2, i) <=> Static(c, i)
  BY DEF Static
<1>2. CASE Static(c, i)
  <2>1. c.static
    BY <1>2 DEF LockedPage
  <2> QED BY <1>1, <1>2, <2>1 DEF LockedPage
<1>3. CASE ~Static(c, i)
  <2>1. HasDynamic(c.kind) /\ c.dynamic
    BY <1>3 DEF LockedPage
  <2> QED BY <1>1, <1>3, <2>1 DEF LockedPage
<1> QED BY <1>2, <1>3

(* What an operation under way says of its first command. *)
LEMMA BusyBasics ==
    ASSUME Busy
    PROVE  /\ todo \in Seq(Commands) /\ todo # << >> /\ Issues(card, stage, todo)
           /\ Head(todo) \in Commands /\ Head(todo).ins \in Issued(Family(card.kind), stage)
           /\ 1 \in DOMAIN todo /\ Head(todo) = todo[1]
           /\ card \in Cards
           /\ stage \in {"resolve", "write", "verify", "lock"}
           /\ ReadsAt(stage) <=> Reading
           /\ ReadsAt(stage) <=> stage \in {"resolve", "verify"}
<1>1. todo \in Seq(Commands) /\ todo # << >> /\ Issues(card, stage, todo)
  BY DEF Busy, Plan, Issues
<1>2. card \in Cards /\ stage \in {"resolve", "write", "verify", "lock"}
  BY DEF Busy, CardOK, Stages
<1>3. (ReadsAt(stage) <=> Reading) /\ (ReadsAt(stage) <=> stage \in {"resolve", "verify"})
  BY DEF ReadsAt, Reading
<1>4. Head(todo) \in Commands /\ Head(todo).ins \in Issued(Family(card.kind), stage)
  BY <1>1, IssuesTail
<1>5. 1 \in DOMAIN todo /\ Head(todo) = todo[1]
  BY <1>1, TailIs
<1> QED BY <1>1, <1>2, <1>3, <1>4, <1>5

(* The commands of a paged card's driver at each stage. *)
LEMMA PageIssues ==
    ASSUME Busy, Family(card.kind) = "page"
    PROVE  /\ card \in PageCards
           /\ ReadsAt(stage) => Head(todo).ins = "read"
           /\ stage = "write" => Head(todo).ins \in {"readLock", "fit", "write"}
           /\ stage = "write" /\ Head(todo).ins = "readLock" => Head(todo).at = "static"
           /\ stage = "lock" => Head(todo).ins \in {"readLock", "setLock"}
<1>1. card \in PageCards
  BY BusyBasics, Families
<1>2. stage = "write" /\ Head(todo).ins = "readLock" => Head(todo).at = "static"
  BY BusyBasics, IssuesTail
<1>3. Head(todo).ins \in Issued("page", stage)
  BY BusyBasics
<1> QED BY <1>1, <1>2, <1>3 DEF Issued, ReadsAt

(* A command that leaves the cells as they are, or writes them. *)
LEMMA PageSpoils ==
    ASSUME Busy, Family(card.kind) = "page", NEW c, c.kind = card.kind, c.corrupt = card.corrupt,
           \/ c.cells = card.cells /\ Head(todo).ins # "write"
           \/ /\ stage = "write" /\ Head(todo).ins = "write"
              /\ c.cells = [card.cells EXCEPT ![Head(todo).at] = IF card.corrupt THEN Garbage ELSE Head(todo).msg]
    PROVE  Spoils(c, stage, Tail(todo))
<1> SUFFICES ASSUME c.corrupt PROVE /\ stage = "write" => \/ c.cells[1] = Garbage
                                                          \/ \E k \in DOMAIN Tail(todo) : Tail(todo)[k].ins = "write" /\ Tail(todo)[k].at = 1
                                    /\ stage = "verify" => c.cells[1] = Garbage
  BY DEF Spoils
<1>1. /\ stage = "write" => \/ card.cells[1] = Garbage
                            \/ \E k \in DOMAIN todo : todo[k].ins = "write" /\ todo[k].at = 1
      /\ stage = "verify" => card.cells[1] = Garbage
  BY DEF Busy, Plan, Spoils
<1>2. card.cells \in Filled /\ 1 \in Cells
  BY BusyBasics, Families, ChunksAssumption DEF Cells
<1>3. stage = "verify" => c.cells = card.cells
  OBVIOUS
<1>4. ASSUME stage = "write"
      PROVE  c.cells[1] = Garbage \/ \E k \in DOMAIN Tail(todo) : Tail(todo)[k].ins = "write" /\ Tail(todo)[k].at = 1
  <2>1. CASE card.cells[1] = Garbage
    BY <1>2, <2>1 DEF Filled
  <2>2. CASE card.cells[1] # Garbage
    <3>1. PICK k \in DOMAIN todo : todo[k].ins = "write" /\ todo[k].at = 1
      BY <1>1, <1>4, <2>2
    <3>2. CASE k = 1
      <4>1. Head(todo).ins = "write" /\ Head(todo).at = 1
        BY <3>1, <3>2, BusyBasics
      <4> QED BY <4>1, <1>2 DEF Filled
    <3>3. CASE k # 1
      <4>1. k - 1 \in DOMAIN Tail(todo) /\ Tail(todo)[k - 1] = todo[k]
        BY <3>1, <3>3, BusyBasics, TailIs
      <4> QED BY <3>1, <4>1
    <3> QED BY <3>2, <3>3
  <2> QED BY <2>1, <2>2
<1> QED BY <1>1, <1>3, <1>4

(* A lock has each lock byte still to set, or has set it. *)
LEMMA PageLocksTail ==
    ASSUME Busy, Family(card.kind) = "page", stage = "lock", NEW c, c.kind = card.kind, c.corrupt = card.corrupt,
           card.static => c.static, card.dynamic => c.dynamic,
           Sets(todo, 1, "static") /\ ~c.corrupt => c.static,
           Sets(todo, 1, "dynamic") /\ ~c.corrupt => c.dynamic
    PROVE  PageLocks(c, Tail(todo))
<1>1. PageLocks(card, todo)
  BY DEF Busy, Plan, Locks
<1>2. \A k \in DOMAIN todo : k # 1 => k - 1 \in DOMAIN Tail(todo) /\ Tail(todo)[k - 1] = todo[k]
  BY BusyBasics, TailIs
<1>3. \A k \in DOMAIN Tail(todo) : k + 1 \in DOMAIN todo /\ Tail(todo)[k] = todo[k + 1] /\ k \in Nat
  BY BusyBasics, TailIs
<1>4. ASSUME NEW which, NEW k, Sets(todo, k, which), k # 1
      PROVE  \E j \in DOMAIN Tail(todo) : Sets(Tail(todo), j, which)
  BY <1>2, <1>4 DEF Sets
<1>5. ASSUME ~c.corrupt PROVE c.static \/ \E k \in DOMAIN Tail(todo) : Sets(Tail(todo), k, "static")
  <2>1. card.static \/ \E k \in DOMAIN todo : Sets(todo, k, "static")
    BY <1>1, <1>5 DEF PageLocks
  <2> QED BY <1>4, <1>5, <2>1
<1>6. ASSUME ~c.corrupt, HasDynamic(c.kind)
      PROVE c.dynamic \/ \E k \in DOMAIN Tail(todo) : Sets(Tail(todo), k, "dynamic")
  <2>1. card.dynamic \/ \E k \in DOMAIN todo : Sets(todo, k, "dynamic")
    BY <1>1, <1>6 DEF PageLocks
  <2> QED BY <1>4, <1>6, <2>1
<1>7. ASSUME NEW j \in DOMAIN Tail(todo), NEW k \in DOMAIN Tail(todo),
             Sets(Tail(todo), j, "static"), Sets(Tail(todo), k, "dynamic")
      PROVE  k < j
  <2>1. j + 1 \in DOMAIN todo /\ k + 1 \in DOMAIN todo /\ Sets(todo, j + 1, "static") /\ Sets(todo, k + 1, "dynamic")
    BY <1>3, <1>7 DEF Sets
  <2>2. k + 1 < j + 1
    BY <1>1, <2>1 DEF PageLocks
  <2> QED BY <1>3, <2>2
<1>8. HasDynamic(c.kind) \/ c.kind = "Ultralight"
  BY <1>1 DEF PageLocks
<1> QED BY <1>5, <1>6, <1>7, <1>8 DEF PageLocks

(* With its last lock bytes set, the static ones, a card is locked wholly. *)
LEMMA SetLockStands ==
    ASSUME Busy, Family(card.kind) = "page", stage = "lock", Head(todo).ins = "setLock",
           NEW c, c \in PageCards, c.kind = card.kind, c.corrupt = card.corrupt, c.cells = card.cells,
           c.static = IF Head(todo).at = "static" /\ ~card.corrupt THEN TRUE ELSE card.static,
           c.dynamic = IF Head(todo).at = "dynamic" /\ ~card.corrupt THEN TRUE ELSE card.dynamic
    PROVE  Standing(c, drv) /\ PageLocks(c, Tail(todo)) /\ Spoils(c, stage, Tail(todo))
<1>1. (card.static => c.static) /\ (card.dynamic => c.dynamic)
  OBVIOUS
<1>2. /\ Sets(todo, 1, "static") /\ ~c.corrupt => c.static
      /\ Sets(todo, 1, "dynamic") /\ ~c.corrupt => c.dynamic
  BY BusyBasics DEF Sets
<1>3. PageLocks(c, Tail(todo))
  BY <1>1, <1>2, PageLocksTail
<1>4. ASSUME c.static, NEW i \in Cells PROVE LockedPage(c, i)
  <2>1. CASE card.static
    <3>1. LockedPage(card, i)
      BY <2>1, BusyBasics DEF Busy, CardOK, NotHalfLocked
    <3> QED BY <1>1, <3>1, LocksStay
  <2>2. CASE ~card.static
    <3>1. Sets(todo, 1, "static") /\ ~card.corrupt
      BY <1>4, <2>2, BusyBasics DEF Sets
    <3>2. PageLocks(card, todo)
      BY DEF Busy, Plan, Locks
    <3>3. HasDynamic(card.kind) => card.dynamic
      <4> SUFFICES ASSUME HasDynamic(card.kind), ~card.dynamic PROVE FALSE
        OBVIOUS
      <4>1. PICK k \in DOMAIN todo : Sets(todo, k, "dynamic")
        BY <3>1, <3>2 DEF PageLocks
      <4>2. k < 1
        BY <3>1, <3>2, <4>1, BusyBasics DEF PageLocks
      <4>3. k \in 1..Len(todo)
        BY BusyBasics, TailIs
      <4> QED BY <4>2, <4>3
    <3>4. HasDynamic(card.kind) \/ card.kind = "Ultralight"
      BY <3>2 DEF PageLocks
    <3>5. CASE Static(c, i)
      BY <1>4, <3>5 DEF LockedPage
    <3>6. CASE ~Static(c, i)
      <4>1. HasDynamic(c.kind) /\ c.dynamic
        BY <1>1, <3>3, <3>4, <3>6 DEF Static
      <4> QED BY <3>6, <4>1 DEF LockedPage
    <3> QED BY <3>5, <3>6
  <2> QED BY <2>1, <2>2
<1>5. CardOK(c)
  BY <1>4 DEF CardOK, NotHalfLocked, Cards
<1>6. DriverOK(c, drv)
  BY DEF DriverOK, Busy
<1>7. TaskOK(c, stage, task)
  BY DEF TaskOK, Busy, Holds
<1>8. Spoils(c, stage, Tail(todo))
  BY PageSpoils
<1> QED BY <1>3, <1>5, <1>6, <1>7, <1>8 DEF Standing

(* A write of a paged card leaves its lock bytes, so it is no more half locked than it was. *)
LEMMA PageWriteStands ==
    ASSUME Busy, Family(card.kind) = "page", stage = "write",
           NEW c, c \in PageCards, c.kind = card.kind, c.static = card.static, c.dynamic = card.dynamic
    PROVE  Standing(c, drv)
<1>1. CardOK(c)
  <2>1. ASSUME c.static, NEW i \in Cells PROVE LockedPage(c, i)
    <3>1. LockedPage(card, i)
      BY <2>1 DEF Busy, CardOK, NotHalfLocked
    <3> QED BY <3>1, LocksStay
  <2> QED BY <2>1 DEF CardOK, NotHalfLocked, Cards
<1>2. DriverOK(c, drv)
  BY DEF DriverOK, Busy
<1>3. TaskOK(c, stage, task)
  BY DEF TaskOK, Busy
<1> QED BY <1>1, <1>2, <1>3 DEF Standing

(* A page of a card read or written, or a lock byte of it, and what is made of the answer. *)
LEMMA PageReadGoes ==
    ASSUME Busy, Family(card.kind) = "page", Reading, NEW v, NEW h,
           h = "ok" => v = card.cells[Head(todo).at]
    PROVE  Good(PageReacts(Head(todo), h, v, Tail(todo)), card)
<1>1. Head(todo).ins = "read" /\ ReadsAt(stage) /\ stage # "write"
  BY PageIssues, BusyBasics
<1>2. Standing(card, drv)
  BY Unmoved
<1>3. CASE h = "ok"
  <2>1. PageReacts(Head(todo), h, v, Tail(todo)) = HeardCell(drv, card.cells[Head(todo).at], Tail(todo))
    BY <1>1, <1>3 DEF PageReacts
  <2> QED BY <1>1, <1>2, <2>1, HeardGoes
<1>4. CASE h # "ok"
  <2>1. PageReacts(Head(todo), h, v, Tail(todo)) = CutShort(drv, h)
    BY <1>1, <1>4 DEF PageReacts
  <2> QED BY <1>1, <1>2, <2>1, CutShortGoes
<1> QED BY <1>3, <1>4

(* Static lock bytes found set mean that no page can be written: the refusal is true
   (isReadOnly, ndefAreaLocked). *)
LEMMA PageLookGoes ==
    ASSUME Busy, Family(card.kind) = "page", stage = "write", Head(todo).ins = "readLock", NEW v, NEW h,
           h = "ok" => v = card.static
    PROVE  Good(PageReacts(Head(todo), h, v, Tail(todo)), card)
<1>1. ~Reading /\ ~ReadsAt(stage) /\ ~task.req.force
  <2>1. task.req.force => card.kind = "Classic"
    BY DEF Busy, TaskOK
  <2>2. card.kind = "Classic" => Family(card.kind) = "classic"
    BY BusyBasics, Families
  <2> QED BY <2>1, <2>2, BusyBasics
<1>2. Standing(card, drv)
  BY Unmoved
<1>3. CASE h = "ok" /\ v
  <2>1. PageReacts(Head(todo), h, v, Tail(todo)) = EndsWith(drv, heard, "readOnly")
    BY <1>1, <1>3 DEF PageReacts
  <2>2. Whole(card)
    <3>1. card.static
      BY <1>3
    <3> QED BY <3>1 DEF Busy, CardOK, NotHalfLocked, Whole
  <2>3. Concluded(card, drv, "readOnly", heard)
    BY <1>1, <2>2 DEF Concluded, Ends
  <2> QED BY <1>2, <2>1, <2>3, EndsForm DEF Good
<1>4. CASE ~(h = "ok" /\ v)
  <2>1. PageReacts(Head(todo), h, v, Tail(todo)) = Onward(drv, Tail(todo))
    BY <1>1, <1>4 DEF PageReacts
  <2>2. Spoils(card, stage, Tail(todo))
    BY PageSpoils
  <2> QED BY <1>1, <1>2, <2>1, <2>2, OnwardGoes
<1> QED BY <1>3, <1>4

(* A page written goes on, and a card that inverts then holds no message. *)
LEMMA PageWriteGoes ==
    ASSUME Busy, Family(card.kind) = "page", stage = "write", Head(todo).ins = "write", NEW v, NEW h, NEW c,
           c \in PageCards, c.kind = card.kind, c.static = card.static, c.dynamic = card.dynamic,
           c.corrupt = card.corrupt,
           h = "ok" => c.cells = [card.cells EXCEPT ![Head(todo).at] = IF card.corrupt THEN Garbage ELSE Head(todo).msg]
    PROVE  Good(PageReacts(Head(todo), h, v, Tail(todo)), c)
<1>1. ~Reading /\ ~ReadsAt(stage) /\ ~task.req.force
  <2>1. task.req.force => card.kind = "Classic"
    BY DEF Busy, TaskOK
  <2>2. card.kind = "Classic" => Family(card.kind) = "classic"
    BY BusyBasics, Families
  <2> QED BY <2>1, <2>2, BusyBasics
<1>2. Standing(c, drv)
  BY PageWriteStands
<1>3. CASE h = "ok"
  <2>1. PageReacts(Head(todo), h, v, Tail(todo)) = Onward(drv, Tail(todo))
    BY <1>1, <1>3 DEF PageReacts
  <2>2. Spoils(c, stage, Tail(todo))
    BY <1>3, PageSpoils
  <2> QED BY <1>1, <1>2, <2>1, <2>2, OnwardGoes
<1>4. CASE h # "ok"
  <2>1. PageReacts(Head(todo), h, v, Tail(todo)) = Fails(drv, h)
    BY <1>1, <1>4 DEF PageReacts
  <2> QED BY <1>2, <2>1, FailsGoes
<1> QED BY <1>3, <1>4

(* Lock bytes read or set go on, or the lock fails. *)
LEMMA PageLockGoes ==
    ASSUME Busy, Family(card.kind) = "page", stage = "lock", NEW v, NEW h, NEW c,
           Standing(c, drv),
           h = "ok" => PageLocks(c, Tail(todo)) /\ Spoils(c, stage, Tail(todo))
    PROVE  Good(PageReacts(Head(todo), h, v, Tail(todo)), c)
<1>1. ~Reading /\ ~ReadsAt(stage)
  BY BusyBasics
<1>2. CASE h = "ok"
  <2>1. PageReacts(Head(todo), h, v, Tail(todo)) = Onward(drv, Tail(todo))
    BY <1>1, <1>2 DEF PageReacts
  <2>2. Family(c.kind) = "page"
    BY DEF Standing
  <2>3. ASSUME Tail(todo) = << >>, ~c.corrupt PROVE Whole(c)
    <3>1. \A k : ~ Sets(Tail(todo), k, "static")
      BY <2>3 DEF Sets
    <3>2. c.static
      BY <1>2, <2>3, <3>1 DEF PageLocks
    <3> QED BY <2>2, <3>2 DEF Standing, CardOK, NotHalfLocked, Whole
  <2>4. Tail(todo) # << >> => Locks(c, Tail(todo))
    BY <1>2, <2>2 DEF Locks
  <2> QED BY <1>1, <1>2, <2>1, <2>2, <2>3, <2>4, OnwardGoes
<1>3. CASE h # "ok"
  <2>1. PageReacts(Head(todo), h, v, Tail(todo)) = Fails(drv, h)
    BY <1>1, <1>3 DEF PageReacts
  <2> QED BY <2>1, FailsGoes
<1> QED BY <1>2, <1>3

(* Every command of a paged card's driver, whatever its answer (PageReacts). *)
LEMMA PageGoes ==
    ASSUME Busy, Family(card.kind) = "page", Head(todo).ins # "fit",
           NEW executed \in BOOLEAN, NEW how,
           how = "ok" => executed /\ PageAnswer(card, Head(todo)).how = "ok"
    PROVE  LET a == PageAnswer(card, Head(todo)) IN
           Good(PageReacts(Head(todo), how, a.value, Tail(todo)), IF executed THEN a.card ELSE card)
<1> DEFINE cmd == Head(todo)
           a == PageAnswer(card, cmd)
           c == IF executed THEN a.card ELSE card
<1>1. card \in PageCards /\ cmd \in Commands
  BY PageIssues, BusyBasics
<1>2. CASE Reading
  <2>1. cmd.ins = "read"
    BY <1>2, PageIssues, BusyBasics
  <2>2. c = card /\ a.value = card.cells[cmd.at]
    BY <1>1, <2>1, PageReads
  <2> QED BY <1>2, <2>2, PageReadGoes
<1>3. CASE stage = "write"
  <2>1. CASE cmd.ins = "readLock"
    <3>1. c = card /\ a.value = card.static
      BY <1>1, <1>3, <2>1, PageReads, PageIssues
    <3> QED BY <1>3, <2>1, <3>1, PageLookGoes
  <2>2. CASE cmd.ins = "write"
    <3>1. CASE executed
      <4>1. /\ c = a.card /\ a.card \in PageCards
            /\ a.card.kind = card.kind /\ a.card.corrupt = card.corrupt /\ a.card.static = card.static
            /\ a.card.dynamic = card.dynamic
            /\ a.how = "ok" => a.card.cells = [card.cells EXCEPT ![cmd.at] = IF card.corrupt THEN Garbage ELSE cmd.msg]
        BY <1>1, <2>2, <3>1, PageWrites
      <4> QED BY <1>3, <2>2, <4>1, PageWriteGoes
    <3>2. CASE ~executed
      BY <1>1, <1>3, <2>2, <3>2, PageWriteGoes
    <3> QED BY <3>1, <3>2
  <2> QED BY <1>3, <2>1, <2>2, PageIssues
<1>4. CASE stage = "lock"
  <2>1. CASE cmd.ins = "readLock"
    <3>1. c = card
      BY <1>1, <2>1, PageReads
    <3>2. ~Sets(todo, 1, "static") /\ ~Sets(todo, 1, "dynamic")
      BY <2>1, BusyBasics DEF Sets
    <3>3. PageLocks(card, Tail(todo))
      BY <1>4, <3>2, PageLocksTail
    <3>4. Spoils(card, stage, Tail(todo))
      BY <2>1, PageSpoils
    <3> QED BY <1>4, <3>1, <3>3, <3>4, PageLockGoes, Unmoved
  <2>2. CASE cmd.ins = "setLock"
    <3>1. CASE executed
      <4>1. /\ c = a.card /\ a.card \in PageCards
            /\ a.card.kind = card.kind /\ a.card.corrupt = card.corrupt /\ a.card.cells = card.cells
            /\ a.card.static = IF cmd.at = "static" /\ ~card.corrupt THEN TRUE ELSE card.static
            /\ a.card.dynamic = IF cmd.at = "dynamic" /\ ~card.corrupt THEN TRUE ELSE card.dynamic
        BY <1>1, <2>2, <3>1, PageSets
      <4> HIDE DEF a, c
      <4>2. Standing(c, drv) /\ PageLocks(c, Tail(todo)) /\ Spoils(c, stage, Tail(todo))
        BY <1>4, <2>2, <4>1, SetLockStands
      <4>3. Good(PageReacts(cmd, how, a.value, Tail(todo)), c)
        BY <1>4, <4>2, PageLockGoes
      <4> QED BY <4>3 DEF a, c
    <3>2. CASE ~executed
      BY <1>4, <3>2, PageLockGoes, Unmoved
    <3> QED BY <3>1, <3>2
  <2> QED BY <1>4, <2>1, <2>2, PageIssues
<1> QED BY <1>2, <1>3, <1>4, BusyBasics DEF Reading

-----------------------------------------------------------------------------
(* Classic *)

(* The default keys are tried after those configured (KeysToTry). *)
LEMMA KeysTried ==
    /\ KeysToTry \in Seq(Keys) /\ KeysToTry # << >>
    /\ "factory" \in TriedKeys
    /\ Head(KeysToTry) \in TriedKeys /\ Tail(KeysToTry) \in Seq(TriedKeys)
<1>1. Candidates \in Seq(Keys) /\ <<"factory", "forum", "mad">> \in Seq(Keys)
  BY KeysAssumption
<1>2. PICK n \in Nat : n = Len(Candidates)
  BY <1>1, LenProperties
<1>3. /\ KeysToTry \in Seq(Keys) /\ Len(KeysToTry) = n + 3
      /\ KeysToTry[n + 1] = "factory"
  <2>1. Len(<<"factory", "forum", "mad">>) = 3 /\ <<"factory", "forum", "mad">>[1] = "factory"
    OBVIOUS
  <2> DEFINE p == <<"factory", "forum", "mad">>
  <2> HIDE DEF p
  <2>2. /\ Candidates \o p \in Seq(Keys) /\ Len(Candidates \o p) = Len(Candidates) + Len(p)
        /\ \A i \in 1 .. Len(Candidates) + Len(p) :
              (Candidates \o p)[i] = IF i <= Len(Candidates) THEN Candidates[i] ELSE p[i - Len(Candidates)]
    BY <1>1, ConcatProperties DEF p
  <2>3. Len(p) = 3 /\ p[1] = "factory"
    BY <2>1 DEF p
  <2>4. n + 1 \in 1..n + 3 /\ ~(n + 1 <= n) /\ (n + 1) - n = 1
    OBVIOUS
  <2> QED BY <1>2, <2>2, <2>3, <2>4 DEF KeysToTry, p
<1>4. DOMAIN KeysToTry = 1..n + 3 /\ KeysToTry # << >>
  BY <1>3, LenProperties, EmptySeq
<1>5. \A i \in 1..n + 3 : KeysToTry[i] \in TriedKeys
  BY <1>4 DEF TriedKeys
<1>6. "factory" \in TriedKeys
  BY <1>3, <1>5
<1>7. KeysToTry \in Seq(TriedKeys)
  BY <1>3, <1>4, <1>5
<1> QED BY <1>3, <1>4, <1>6, <1>7, HeadTailProperties

(* A sector opens by one of the keys tried. *)
LEMMA OpensBy ==
    ASSUME NEW t
    PROVE  Opens(t) <=> \E k \in TriedKeys : k \in {t.a, t.b}
BY DEF Opens, TriedKeys

(* An authentication with the first of the keys left is a command. *)
LEMMA AuthTyped ==
    ASSUME NEW s \in Int, NEW keys \in Seq(TriedKeys), keys # << >>
    PROVE  Auth(s, keys) \in Commands /\ Auth(s, keys).ins = "auth" /\ Auth(s, keys).at = s
BY HeadTailProperties DEF Auth, Commands

(* So is one with the first of all. *)
LEMMA OpeningTyped ==
    ASSUME NEW s \in Int
    PROVE  Opening(s) \in Commands /\ Opening(s).ins = "auth" /\ Opening(s).at = s
BY KeysTried DEF Opening, Auth, Commands

(* So is the same key tried as Key B. *)
LEMMA OtherKey ==
    ASSUME NEW cmd \in Commands, cmd.ins = "auth"
    PROVE  LET x == [cmd EXCEPT !.asB = TRUE] IN x \in Commands /\ x.ins = "auth" /\ x.at = cmd.at
BY CommandForms DEF Commands

(* A key tried in place of the one refused changes nothing of the plan. *)
LEMMA KeyAgain ==
    ASSUME Busy, Family(card.kind) = "classic", Head(todo).ins = "auth",
           NEW c, c \in ClassicCards, c.cells = card.cells, c.trailers = card.trailers,
           NEW x \in Commands, x.ins = "auth", x.at = Head(todo).at
    PROVE  Plan(c, stage, <<x>> \o Tail(todo), heard, task) /\ <<x>> \o Tail(todo) # << >>
<1> PICK n \in Nat \ {0} : n = Len(todo)
  BY BusyBasics, TailIs
<1>1. /\ Tail(todo) \in Seq(Commands) /\ Len(Tail(todo)) = n - 1 /\ DOMAIN todo = 1..n
      /\ \A i \in 1..n - 1 : i + 1 \in 1..n /\ Tail(todo)[i] = todo[i + 1]
  BY BusyBasics, TailIs
<1> DEFINE q == <<x>> \o Tail(todo)
<1>2. q \in Seq(Commands) /\ Len(q) = n /\ q[1] = x /\ \A i \in 2..n : q[i] = todo[i]
  <2>1. <<x>> \in Seq(Commands) /\ Len(<<x>>) = 1 /\ <<x>>[1] = x
    OBVIOUS
  <2> DEFINE p == <<x>>
  <2> HIDE DEF p
  <2>2. /\ p \o Tail(todo) \in Seq(Commands) /\ Len(p \o Tail(todo)) = Len(p) + Len(Tail(todo))
        /\ \A i \in 1 .. Len(p) + Len(Tail(todo)) :
              (p \o Tail(todo))[i] = IF i <= Len(p) THEN p[i] ELSE Tail(todo)[i - Len(p)]
    BY <1>1, <2>1, ConcatProperties DEF p
  <2>3. p \in Seq(Commands) /\ Len(p) = 1 /\ p[1] = x
    BY <2>1 DEF p
  <2>4. ASSUME NEW i \in 2..n PROVE (p \o Tail(todo))[i] = todo[i]
    <3>1. i - 1 \in 1..n - 1 /\ (i - 1) + 1 = i /\ ~(i <= 1) /\ i \in 1..1 + (n - 1)
      OBVIOUS
    <3> QED BY <1>1, <2>2, <2>3, <3>1
  <2>5. (p \o Tail(todo))[1] = x /\ Len(p \o Tail(todo)) = n
    BY <1>1, <2>2, <2>3
  <2> QED BY <2>2, <2>4, <2>5 DEF p
<1>3. DOMAIN q = 1..n /\ q # << >>
  BY <1>2, LenProperties, EmptySeq
<1> HIDE DEF q
<1>4. todo[1].ins = "auth" /\ todo[1].at = x.at
  BY BusyBasics
<1>5. \A k \in 1..n : q[k].ins = todo[k].ins /\ q[k].at = todo[k].at /\ (k # 1 => q[k] = todo[k])
  BY <1>2, <1>4
<1>6. card.kind = "Classic" /\ c.kind = "Classic" /\ Family(c.kind) = "classic"
  BY BusyBasics, Families DEF ClassicCards
<1>7. Issues(c, stage, q)
  <2>1. \A k \in DOMAIN todo : /\ todo[k].ins \in Issued("classic", stage)
                               /\ stage = "write" /\ todo[k].ins = "readLock" => todo[k].at = "static"
    BY BusyBasics DEF Issues
  <2> QED BY <1>1, <1>2, <1>3, <1>5, <1>6, <2>1 DEF Issues
<1>8. \A k : Reads(q, k) <=> Reads(todo, k)
  BY <1>1, <1>3, <1>5 DEF Reads
<1>9. ASSUME ReadsAt(stage) PROVE ReadsTrue(c, q, heard)
  <2>1. HeardSoFar(c, heard)
    BY <1>9, SameReads
  <2>2. InOrder(todo, Len(heard)) /\ (\A k \in DOMAIN todo : todo[k].ins = "enter" =>
                                           heard = << >> /\ \A j \in DOMAIN todo : ~Reads(todo, j))
    BY <1>9 DEF Busy, Plan, ReadsTrue
  <2>3. InOrder(q, Len(heard))
    <3>1. ASSUME NEW k \in DOMAIN q, Reads(q, k), q[k].at > Len(heard) + 1
          PROVE  \E j \in 1..k - 1 : Reads(q, j) /\ q[j].at = q[k].at - 1
      <4>1. PICK j \in 1..k - 1 : Reads(todo, j) /\ todo[j].at = todo[k].at - 1
        BY <1>1, <1>3, <1>5, <1>8, <2>2, <3>1 DEF InOrder
      <4>2. j \in 1..n
        BY <1>1, <4>1 DEF Reads
      <4> QED BY <1>3, <1>5, <1>8, <3>1, <4>1, <4>2
    <3>2. \A k \in DOMAIN q : Reads(q, k) => q[k].at > Len(heard)
      BY <1>1, <1>3, <1>5, <1>8, <2>2 DEF InOrder
    <3>3. \A j, k \in DOMAIN q : Reads(q, j) /\ Reads(q, k) /\ q[j].at = q[k].at => j = k
      BY <1>1, <1>3, <1>5, <1>8, <2>2 DEF InOrder
    <3> QED BY <3>1, <3>2, <3>3 DEF InOrder
  <2>4. \A k \in DOMAIN q : q[k].ins = "enter" => heard = << >> /\ \A j \in DOMAIN q : ~Reads(q, j)
    BY <1>1, <1>3, <1>5, <1>8, <2>2
  <2> QED BY <2>1, <2>3, <2>4 DEF ReadsTrue
<1>10. ASSUME stage = "write", task.req.force PROVE FormatSafe(c, q)
  <2>1. FormatSafe(card, todo)
    BY <1>10 DEF Busy, Plan
  <2>2. ASSUME NEW s, OpensAhead(todo, s) PROVE OpensAhead(q, s)
    <3>1. PICK k \in DOMAIN todo : /\ todo[k].ins = "auth" /\ todo[k].at = s
                                   /\ \A j \in 1..k - 1 : todo[j].ins \notin {"write", "trailer"}
      BY <2>2 DEF OpensAhead
    <3>2. \A j \in 1..k - 1 : j \in 1..n
      BY <1>1
    <3> QED BY <1>1, <1>3, <1>5, <3>1, <3>2 DEF OpensAhead
  <2> QED BY <2>1, <2>2 DEF FormatSafe
<1>11. stage # "lock"
  <2>1. Family(card.kind) = "classic"
    OBVIOUS
  <2> QED BY <2>1 DEF Busy, Plan, Locks
<1>12. Spoils(c, stage, q)
  BY <1>6 DEF Spoils
<1> QED BY <1>3, <1>7, <1>9, <1>10, <1>11, <1>12 DEF Plan, q

(* A Classic goes on with any Classic: no lock is under way on one. *)
LEMMA ClassicStands ==
    ASSUME Busy, Family(card.kind) = "classic", NEW c, c \in ClassicCards
    PROVE  Standing(c, drv) /\ Family(c.kind) = "classic" /\ stage # "lock"
<1>1. card.kind = "Classic" /\ c.kind = "Classic"
  BY BusyBasics, Families DEF ClassicCards
<1>2. stage # "lock"
  BY DEF Busy, Plan, Locks
<1>3. CardOK(c) /\ Family(c.kind) = "classic"
  BY <1>1 DEF CardOK, Cards
<1>4. DriverOK(c, drv)
  BY <1>3 DEF Busy, DriverOK
<1>5. TaskOK(c, stage, task)
  BY <1>1, <1>2 DEF Busy, TaskOK
<1> QED BY <1>1, <1>2, <1>3, <1>4, <1>5 DEF Standing

(* A sector just opened needs no other authentication before the format begins. *)
LEMMA OpenedGoes ==
    ASSUME Busy, Family(card.kind) = "classic", stage = "write", task.req.force, Head(todo).ins = "auth",
           NEW c, c.trailers = card.trailers,
           Head(todo).key \in {card.trailers[Head(todo).at].a, card.trailers[Head(todo).at].b}
    PROVE  FormatSafe(c, Tail(todo))
<1>1. FormatSafe(card, todo)
  BY DEF Busy, Plan
<1>2. Opens(card.trailers[Head(todo).at])
  BY BusyBasics, CommandForms, OpensBy
<1>3. ASSUME NEW s \in 0..Chunks, ~Opens(card.trailers[s]) PROVE OpensAhead(Tail(todo), s)
  <2>1. PICK k \in DOMAIN todo : /\ todo[k].ins = "auth" /\ todo[k].at = s
                                 /\ \A j \in 1..k - 1 : todo[j].ins \notin {"write", "trailer"}
    BY <1>1, <1>3 DEF FormatSafe, OpensAhead
  <2>2. k # 1
    BY <1>2, <1>3, <2>1, BusyBasics
  <2>3. PICK n \in Nat \ {0} : n = Len(todo)
    BY BusyBasics, TailIs
  <2>4. /\ DOMAIN todo = 1..n /\ DOMAIN Tail(todo) = 1..n - 1
        /\ \A i \in 1..n - 1 : i + 1 \in 1..n /\ Tail(todo)[i] = todo[i + 1]
    BY <2>3, BusyBasics, TailIs
  <2>5. k - 1 \in 1..n - 1 /\ Tail(todo)[k - 1] = todo[k]
    BY <2>1, <2>2, <2>4
  <2>6. \A j \in 1..(k - 1) - 1 : j \in 1..n - 1 /\ j + 1 \in 1..k - 1
    BY <2>4
  <2>7. \A j \in 1..(k - 1) - 1 : Tail(todo)[j].ins \notin {"write", "trailer"}
    BY <2>1, <2>4, <2>6
  <2> QED BY <2>1, <2>4, <2>5, <2>7 DEF OpensAhead
<1> QED BY <1>3 DEF FormatSafe

(* Nothing is changed before every sector has opened. *)
LEMMA AllOpen ==
    ASSUME Busy, stage = "write", task.req.force, Head(todo).ins \in {"write", "trailer"}
    PROVE  \A s \in 0..Chunks : Opens(card.trailers[s])
<1> SUFFICES ASSUME NEW s \in 0..Chunks, ~Opens(card.trailers[s]) PROVE FALSE
  OBVIOUS
<1>1. PICK k \in DOMAIN todo : /\ todo[k].ins = "auth" /\ todo[k].at = s
                               /\ \A j \in 1..k - 1 : todo[j].ins \notin {"write", "trailer"}
  BY DEF Busy, Plan, FormatSafe, OpensAhead
<1>2. k # 1 /\ k \in Nat \ {0}
  BY <1>1, BusyBasics, TailIs
<1>3. 1 \in 1..k - 1
  BY <1>2
<1> QED BY <1>1, <1>3, BusyBasics

(* Every command of a Classic's driver, whatever its answer (ClassicReacts). *)
LEMMA ClassicGoes ==
    ASSUME Busy, Family(card.kind) = "classic", Head(todo).ins # "fit", NEW executed \in BOOLEAN, NEW how,
           how = "ok" => executed /\ ClassicAnswer(card, Head(todo)).how = "ok"
    PROVE  LET a == ClassicAnswer(card, Head(todo)) IN
           Good(ClassicReacts(Head(todo), how, a.value, Tail(todo)), IF executed THEN a.card ELSE card)
<1> DEFINE cmd == Head(todo)
           a == ClassicAnswer(card, cmd)
           c == IF executed THEN a.card ELSE card
           s == ClassicReacts(cmd, how, a.value, Tail(todo))
<1>1. card \in ClassicCards /\ cmd \in Commands
  BY BusyBasics, Families
<1>2. stage # "lock"
  BY <1>1, ClassicStands
<1>3. /\ ReadsAt(stage) => cmd.ins \in {"auth", "read"}
      /\ ~ReadsAt(stage) => stage = "write" /\ cmd.ins \in {"auth", "write", "trailer"}
  <2>1. cmd.ins \in Issued("classic", stage)
    BY BusyBasics
  <2> QED BY <1>2, <2>1, BusyBasics DEF Issued
<1>4. CASE cmd.ins = "read"
  <2>1. c = card /\ (how = "ok" => a.value = card.cells[cmd.at])
    BY <1>1, <1>4, ClassicReads
  <2>2. ReadsAt(stage) /\ Reading
    BY <1>3, <1>4, BusyBasics
  <2>3. Standing(c, drv)
    BY <2>1, Unmoved
  <2>4. CASE how = "ok"
    <3>1. s = HeardCell(drv, card.cells[cmd.at], Tail(todo))
      BY <1>4, <2>1, <2>4 DEF ClassicReacts
    <3> QED BY <1>4, <2>1, <2>2, <2>3, <3>1, HeardGoes
  <2>5. CASE how # "ok"
    <3>1. s = CutShort(drv, how)
      BY <1>4, <2>2, <2>5 DEF ClassicReacts
    <3> QED BY <2>1, <2>2, <2>3, <3>1, CutShortGoes
  <2> QED BY <2>4, <2>5
<1>5. CASE cmd.ins = "auth"
  <2>1. /\ c \in ClassicCards /\ c.cells = card.cells /\ c.trailers = card.trailers
        /\ how = "ok" => cmd.key \in {card.trailers[cmd.at].a, card.trailers[cmd.at].b}
    BY <1>1, <1>5, ClassicOpens
  <2>2. Standing(c, drv) /\ Family(c.kind) = "classic"
    BY <2>1, ClassicStands
  <2> HIDE DEF c, a
  <2>3. CASE how = "ok"
    <3>1. s = Onward(drv, Tail(todo))
      BY <1>5, <2>3 DEF ClassicReacts
    <3>2. Spoils(c, stage, Tail(todo))
      BY <2>2 DEF Spoils
    <3>3. stage = "write" /\ task.req.force => FormatSafe(c, Tail(todo))
      BY <1>5, <2>1, <2>3, OpenedGoes
    <3> QED BY <1>2, <1>5, <2>1, <2>2, <3>1, <3>2, <3>3, OnwardGoes DEF c, a
  <2>4. ASSUME NEW x \in Commands, x.ins = "auth", x.at = cmd.at, s = Onward(drv, <<x>> \o Tail(todo))
        PROVE  Good(s, c)
    <3>1. Plan(c, stage, <<x>> \o Tail(todo), heard, task) /\ <<x>> \o Tail(todo) # << >>
      BY <1>5, <2>1, <2>4, KeyAgain
    <3>2. s.drv = drv /\ s.todo = <<x>> \o Tail(todo) /\ s.heard = heard /\ s.end = "none"
      BY <2>4, <3>1 DEF Onward
    <3> QED BY <2>2, <3>1, <3>2 DEF Good
  <2>5. CASE how = "refused" /\ ~cmd.asB
    <3>1. s = Onward(drv, <<[cmd EXCEPT !.asB = TRUE]>> \o Tail(todo))
      BY <1>5, <2>5 DEF ClassicReacts
    <3> QED BY <1>1, <1>5, <2>4, <3>1, OtherKey DEF c, a
  <2>6. CASE how \in {"refused", "error"} /\ (how = "error" \/ cmd.asB) /\ cmd.rest # << >>
    <3>1. s = Onward(drv, <<Auth(cmd.at, cmd.rest)>> \o Tail(todo))
      BY <1>5, <2>6 DEF ClassicReacts
    <3>2. cmd.at \in Int /\ cmd.rest \in Seq(TriedKeys)
      BY <1>1, <1>5, CommandForms
    <3> QED BY <2>4, <2>6, <3>1, <3>2, AuthTyped DEF c, a
  <2>7. CASE /\ how # "ok" /\ ~(how = "refused" /\ ~cmd.asB)
             /\ ~(how \in {"refused", "error"} /\ (how = "error" \/ cmd.asB) /\ cmd.rest # << >>)
    <3>1. s = IF Reading THEN CutShort(drv, how) ELSE Fails(drv, how)
      BY <1>5, <2>7 DEF ClassicReacts
    <3>2. Good(Fails(drv, how), c)
      BY <2>1, <2>2, FailsGoes
    <3>3. ReadsAt(stage) => Good(CutShort(drv, how), c)
      BY <2>1, <2>2, CutShortGoes
    <3> QED BY <3>1, <3>2, <3>3, BusyBasics DEF c, a
  <2> QED BY <2>3, <2>5, <2>6, <2>7
<1>6. CASE cmd.ins \in {"write", "trailer"}
  <2>1. /\ c \in ClassicCards
        /\ \A i \in 0..Chunks : c.trailers[i] = card.trailers[i] \/ c.trailers[i].b = "factory"
    BY <1>1, <1>6, ClassicWrites
  <2>2. Standing(c, drv) /\ Family(c.kind) = "classic"
    BY <2>1, ClassicStands
  <2>3. stage = "write" /\ ~ReadsAt(stage) /\ ~Reading
    BY <1>3, <1>6, BusyBasics
  <2> HIDE DEF c, a
  <2>4. CASE how = "ok"
    <3>1. s = Onward(drv, Tail(todo))
      BY <1>6, <2>4 DEF ClassicReacts
    <3>2. Spoils(c, stage, Tail(todo))
      BY <2>2 DEF Spoils
    <3>3. ASSUME task.req.force PROVE FormatSafe(c, Tail(todo))
      <4>1. \A i \in 0..Chunks : Opens(card.trailers[i])
        BY <1>6, <2>3, <3>3, AllOpen
      <4>2. \A i \in 0..Chunks : Opens(c.trailers[i])
        BY <2>1, <4>1, OpensBy, KeysTried
      <4> QED BY <4>2 DEF FormatSafe
    <3> QED BY <2>2, <2>3, <3>1, <3>2, <3>3, OnwardGoes DEF c, a
  <2>5. CASE how # "ok"
    <3>1. s = Fails(drv, how)
      BY <1>6, <2>3, <2>5 DEF ClassicReacts
    <3> QED BY <2>2, <2>3, <3>1, FailsGoes DEF c, a
  <2> QED BY <2>4, <2>5
<1> QED BY <1>3, <1>4, <1>5, <1>6

(* No card but a Classic is formatted. *)
LEMMA NotForced ==
    ASSUME Busy, Family(card.kind) # "classic"
    PROVE  ~task.req.force
<1>1. task.req.force => card.kind = "Classic"
  BY DEF Busy, TaskOK
<1> QED BY <1>1, BusyBasics, Families

-----------------------------------------------------------------------------
(* Type 4 *)

(* Every command of a Type 4 driver, whatever its answer (FileReacts). *)
LEMMA Type4Goes ==
    ASSUME Busy, Family(card.kind) = "type4", Head(todo).ins # "fit", NEW executed \in BOOLEAN, NEW how,
           how = "ok" => executed /\ Type4Answer(card, Head(todo)).how = "ok"
    PROVE  LET a == Type4Answer(card, Head(todo)) IN
           Good(FileReacts(Head(todo), how, a.value, Tail(todo)), IF executed THEN a.card ELSE card)
<1> DEFINE cmd == Head(todo)
           a == Type4Answer(card, cmd)
           c == IF executed THEN a.card ELSE card
           s == FileReacts(cmd, how, a.value, Tail(todo))
<1>1. card \in Type4Cards /\ cmd \in Commands
  BY BusyBasics, Families
<1>2. stage # "lock"
  BY DEF Busy, Plan, Locks
<1>3. /\ cmd.ins \in {"selectApp", "selectFile", "readCC", "read", "write"}
      /\ ReadsAt(stage) => cmd.ins # "write"
      /\ ~ReadsAt(stage) => cmd.ins # "read"
  <2>1. cmd.ins \in Issued("type4", stage)
    BY BusyBasics
  <2> QED BY <1>2, <2>1 DEF Issued
<1>4. /\ c \in Type4Cards /\ c.kind = card.kind
      /\ cmd.ins # "write" => c.cells = card.cells
      /\ cmd.ins = "read" /\ how = "ok" => a.value = card.cells[cmd.at]
  BY <1>1, <1>3, Type4Answers
<1>5. Standing(c, drv)
  <2>1. CardOK(c)
    BY <1>4 DEF CardOK, Cards
  <2>2. DriverOK(c, drv)
    BY <1>4 DEF Busy, DriverOK
  <2>3. TaskOK(c, stage, task)
    BY <1>2, <1>4 DEF Busy, TaskOK
  <2> QED BY <1>4, <2>1, <2>2, <2>3 DEF Standing
<1>6. Family(c.kind) = "type4" /\ ~task.req.force
  BY <1>4, NotForced
<1> HIDE DEF c, a
<1>7. CASE how = "ok" /\ cmd.ins = "read"
  <2>1. ReadsAt(stage) /\ Reading
    BY <1>3, <1>7, BusyBasics
  <2>2. s = HeardCell(drv, card.cells[cmd.at], Tail(todo))
    BY <1>4, <1>7, <2>1 DEF FileReacts
  <2> QED BY <1>4, <1>5, <1>6, <1>7, <2>1, <2>2, HeardGoes DEF c, a
<1>8. CASE how = "ok" /\ cmd.ins # "read"
  <2>1. s = Onward(drv, Tail(todo))
    BY <1>8 DEF FileReacts
  <2>2. Spoils(c, stage, Tail(todo))
    BY <1>6 DEF Spoils
  <2> QED BY <1>2, <1>3, <1>4, <1>5, <1>6, <1>8, <2>1, <2>2, OnwardGoes DEF c, a
<1>9. CASE how # "ok"
  <2>1. s = Fails(drv, how)
    BY <1>9 DEF FileReacts
  <2> QED BY <1>5, <1>6, <2>1, FailsGoes DEF c, a
<1> QED BY <1>7, <1>8, <1>9

-----------------------------------------------------------------------------
(* DESFire *)

(* The commands of a DESFire driver at each stage. *)
LEMMA DesfireIssues ==
    ASSUME Busy, Family(card.kind) = "desfire"
    PROVE  /\ card \in DESFireCards
           /\ Head(todo).ins \in DesfireCommands \cup {"enter", "cannot"}
           /\ ReadsAt(stage) => Head(todo).ins \notin {"write", "change", "cannot"}
           /\ stage = "write" => Head(todo).ins \notin {"read", "change", "cannot"}
           /\ stage = "lock" => Head(todo).ins \notin {"read", "write"}
<1>1. Head(todo).ins \in Issued("desfire", stage)
  BY BusyBasics
<1> QED BY <1>1, BusyBasics, Families DEF Issued, DesfireCommands

(* A DESFire card goes on with one whose cells a lock has left alone. *)
LEMMA DesfireStands ==
    ASSUME Busy, Family(card.kind) = "desfire", NEW c, c \in DESFireCards, c.kind = card.kind,
           stage = "lock" => c.cells = card.cells,
           NEW d, DriverOK(c, d)
    PROVE  Standing(c, d) /\ Family(c.kind) = "desfire"
<1>1. CardOK(c) /\ Family(c.kind) = "desfire"
  BY DEF CardOK, Cards
<1>2. TaskOK(c, stage, task)
  BY <1>1 DEF Busy, TaskOK, Holds
<1> QED BY <1>1, <1>2 DEF Standing

(* The last of a DESFire lock's commands is the choice, or what the choice made of it. *)
LEMMA DesfireLocksTail ==
    ASSUME Busy, Family(card.kind) = "desfire", stage = "lock"
    PROVE  /\ Tail(todo) # << >> => DesfireLocks(Tail(todo))
           /\ Head(todo).ins \notin {"enter", "change", "cannot"} => Tail(todo) # << >>
<1>1. DesfireLocks(todo)
  BY DEF Busy, Plan, Locks
<1>2. PICK n \in Nat \ {0} : n = Len(todo)
  BY BusyBasics, TailIs
<1>3. /\ Len(Tail(todo)) = n - 1 /\ (Tail(todo) = << >> <=> n = 1)
      /\ \A i \in 1..n - 1 : Tail(todo)[i] = todo[i + 1]
  BY <1>2, BusyBasics, TailIs
<1>4. ASSUME n # 1 PROVE Tail(todo)[n - 1] = todo[n]
  <2>1. n - 1 \in 1..n - 1 /\ (n - 1) + 1 = n
    BY <1>4
  <2> QED BY <1>3, <2>1
<1> QED BY <1>1, <1>2, <1>3, <1>4, BusyBasics DEF DesfireLocks

(* A DESFire command done goes on to the next; the last of a lock has shut the file. *)
LEMMA DesfireOnward ==
    ASSUME Busy, Family(card.kind) = "desfire", NEW c, NEW d, Standing(c, d), Family(c.kind) = "desfire",
           Head(todo).ins # "read", ReadsAt(stage) => c.cells = card.cells,
           stage = "lock" => \/ Head(todo).ins \notin {"enter", "change", "cannot"}
                             \/ c.rights.write = "never"
    PROVE  Good(Onward(d, Tail(todo)), c)
<1>1. Spoils(c, stage, Tail(todo))
  BY DEF Spoils
<1>2. ASSUME stage = "lock"
      PROVE  IF Tail(todo) = << >> THEN Whole(c) \/ (Family(c.kind) = "page" /\ c.corrupt)
             ELSE Locks(c, Tail(todo))
  <2>1. CASE Tail(todo) = << >>
    <3>1. c.rights.write = "never"
      BY <1>2, <2>1, DesfireLocksTail
    <3> QED BY <2>1, <3>1 DEF Whole
  <2>2. CASE Tail(todo) # << >>
    BY <1>2, <2>2, DesfireLocksTail DEF Locks
  <2> QED BY <2>1, <2>2
<1> QED BY <1>1, <1>2, NotForced, OnwardGoes

(* Losing the session changes nothing else the driver knows (DriverAfter). *)
LEMMA DriverAfterIs ==
    ASSUME NEW c, NEW d, DriverOK(c, d), NEW x \in {"none", "open", "adrift"}
    PROVE  LET e == [d EXCEPT !.session = x] IN
           DriverOK(c, e) /\ e.held = d.held /\ e.probed = d.probed /\ e.rights = d.rights
BY DEF DriverOK

(* A driver that asks for the rights has those of the card (settings). *)
LEMMA ProbedIs ==
    ASSUME NEW c, NEW d, DriverOK(c, d), NEW r \in Rights, r.write = "never" => c.rights.write = "never"
    PROVE  DriverOK(c, [d EXCEPT !.probed = TRUE, !.rights = r])
<1>1. PICK e : e = [d EXCEPT !.probed = TRUE, !.rights = r]
  OBVIOUS
<1>2. /\ e \in [held : BOOLEAN, probed : BOOLEAN, rights : Rights \cup [{} -> {""}], session : {"none", "open", "adrift"}]
      /\ e.rights = r
  BY <1>1 DEF DriverOK
<1>3. DriverOK(c, e)
  BY <1>2 DEF DriverOK
<1> QED BY <1>1, <1>3

(* A driver that changed the settings takes the file for shut, which it is (change). *)
LEMMA ShutIs ==
    ASSUME NEW c, NEW d, DriverOK(c, d), c.rights.write = "never"
    PROVE  DriverOK(c, [d EXCEPT !.rights.write = "never", !.rights.change = "never"])
<1> DEFINE r == [d.rights EXCEPT !.write = "never", !.change = "never"]
           e == [d EXCEPT !.rights.write = "never", !.rights.change = "never"]
<1>1. d.rights \in Rights => r \in Rights
  BY DEF Rights
<1>2. d.rights \in [{} -> {""}] => r \in [{} -> {""}]
  OBVIOUS
<1>3. PICK f : f = r
  OBVIOUS
<1>4. /\ d \in [held : BOOLEAN, probed : BOOLEAN, rights : Rights \cup [{} -> {""}], session : {"none", "open", "adrift"}]
      /\ d.probed => d.rights \in Rights
  BY DEF DriverOK
<1>5. e = [d EXCEPT !.rights = f]
  BY <1>3, <1>4
<1>6. f \in Rights \cup [{} -> {""}]
  BY <1>1, <1>2, <1>3, <1>4
<1> HIDE DEF r, e
<1>7. /\ e \in [held : BOOLEAN, probed : BOOLEAN, rights : Rights \cup [{} -> {""}], session : {"none", "open", "adrift"}]
      /\ e.rights = f /\ e.probed = d.probed
  BY <1>4, <1>5, <1>6
<1>8. e.probed => e.rights \in Rights
  BY <1>1, <1>3, <1>4, <1>7
<1>9. DriverOK(c, e)
  BY <1>7, <1>8 DEF DriverOK
<1> QED BY <1>9 DEF e

(* Every command of a DESFire driver, whatever its answer (DesfireReacts). *)
LEMMA DesfireGoes ==
    ASSUME Busy, Family(card.kind) = "desfire", Head(todo).ins \in DesfireCommands,
           NEW executed \in BOOLEAN, NEW how, NEW answered, NEW inStep,
           how = "ok" => executed /\ DesfireAnswer(card, Head(todo), inStep).how = "ok"
    PROVE  LET a == DesfireAnswer(card, Head(todo), inStep) IN
           Good(DesfireReacts(Head(todo), how, a.value, answered, Tail(todo)),
                IF executed THEN a.card ELSE card)
<1> DEFINE cmd == Head(todo)
           a == DesfireAnswer(card, cmd, inStep)
           c == IF executed THEN a.card ELSE card
           d == DriverAfter(cmd, how, answered)
           taken == how = "ok" /\ ~(card.kind = "DESFireEV1" /\ Keyed(cmd) /\ drv.session = "adrift")
           shut == [d EXCEPT !.rights.write = "never", !.rights.change = "never"]
           s == DesfireReacts(cmd, how, a.value, answered, Tail(todo))
           rest == Tail(todo)
<1>1. card \in DESFireCards /\ cmd \in Commands
  BY DesfireIssues, BusyBasics
<1>2. /\ c \in DESFireCards /\ c.kind = card.kind
      /\ cmd.ins # "write" => c.cells = card.cells
      /\ cmd.ins = "read" /\ how = "ok" => a.value = card.cells[cmd.at]
      /\ cmd.ins = "settings" /\ how = "ok" => a.value = card.rights
      /\ cmd.ins # "change" => c.rights = card.rights
      /\ card.rights.write = "never" => c.rights.write = "never"
      /\ cmd.ins = "change" /\ how = "ok" => c.rights.write = "never"
  BY <1>1, DesfireAnswers
<1>3. DriverOK(c, drv)
  BY <1>2 DEF Busy, DriverOK
<1>4. DriverOK(c, d) /\ d.held = drv.held
  BY <1>3, DriverAfterIs DEF DriverAfter
<1>5. (stage = "lock" => c.cells = card.cells) /\ (ReadsAt(stage) => c.cells = card.cells)
  BY <1>2, DesfireIssues
<1>6. Standing(c, d) /\ Family(c.kind) = "desfire"
  BY <1>2, <1>4, <1>5, DesfireStands
<1>6a. ReadsAt(stage) <=> Reading
  BY BusyBasics
<1> DEFINE v == a.value
<1> HIDE DEF c, d, v, taken
<1>7. CASE cmd.ins = "settings"
  <2> DEFINE e == IF taken THEN [d EXCEPT !.probed = TRUE, !.rights = v] ELSE d
  <2>1. s = Onward(e, rest)
    BY <1>7 DEF DesfireReacts, d, v, taken
  <2>2. DriverOK(c, e)
    <3>1. CASE taken
      <4>1. v = card.rights /\ v \in Rights /\ c.rights = v
        BY <1>1, <1>2, <1>7, <3>1 DEF v, taken, DESFireCards
      <4> QED BY <1>4, <3>1, <4>1, ProbedIs
    <3>2. CASE ~taken
      BY <1>4, <3>2
    <3> QED BY <3>1, <3>2
  <2> HIDE DEF e
  <2>3. Standing(c, e)
    BY <1>2, <1>5, <2>2, DesfireStands
  <2>4. Good(Onward(e, rest), c)
    BY <1>5, <1>6, <1>7, <2>3, DesfireOnward
  <2>5. Good(s, c)
    BY <2>1, <2>4
  <2> QED BY <2>5 DEF c
<1>8. CASE cmd.ins = "read" /\ taken
  <2>1. s = HeardCell(d, v, rest)
    BY <1>8 DEF DesfireReacts, d, v, taken
  <2>2. v = card.cells[cmd.at]
    BY <1>2, <1>8 DEF v, taken
  <2>3. ReadsAt(stage)
    BY <1>8, DesfireIssues, BusyBasics
  <2>4. Good(HeardCell(d, card.cells[cmd.at], rest), c)
    BY <1>5, <1>6, <1>8, <2>3, HeardGoes
  <2>5. Good(s, c)
    BY <2>1, <2>2, <2>4
  <2> QED BY <2>5 DEF c
<1>9. CASE cmd.ins = "auth2" /\ taken
  <2> DEFINE e == [d EXCEPT !.session = "open"]
  <2>1. s = Onward(e, rest)
    BY <1>9 DEF DesfireReacts, d, v, taken
  <2>2. DriverOK(c, e)
    BY <1>4, DriverAfterIs
  <2> HIDE DEF e
  <2>3. Standing(c, e)
    BY <1>2, <1>5, <2>2, DesfireStands
  <2>4. Good(Onward(e, rest), c)
    BY <1>5, <1>6, <1>9, <2>3, DesfireOnward
  <2>5. Good(s, c)
    BY <2>1, <2>4
  <2> QED BY <2>5 DEF c
<1>10. CASE cmd.ins = "change" /\ taken
  <2> DEFINE e == [d EXCEPT !.rights.write = "never", !.rights.change = "never"]
  <2>1. s = Onward(e, rest)
    BY <1>10 DEF DesfireReacts, d, v, taken
  <2>2. c.rights.write = "never"
    BY <1>2, <1>10 DEF taken
  <2>3. DriverOK(c, e)
    BY <1>4, <2>2, ShutIs
  <2> HIDE DEF e
  <2>4. Standing(c, e)
    BY <1>2, <1>5, <2>3, DesfireStands
  <2>5. Good(Onward(e, rest), c)
    BY <1>5, <1>6, <1>10, <2>2, <2>4, DesfireOnward
  <2>6. Good(s, c)
    BY <2>1, <2>5
  <2> QED BY <2>6 DEF c
<1>11. CASE cmd.ins \in {"select", "auth1", "write"} /\ taken
  <2>1. s = Onward(d, rest)
    BY <1>11 DEF DesfireReacts, d, v, taken
  <2>2. Good(Onward(d, rest), c)
    BY <1>5, <1>6, <1>11, DesfireOnward
  <2>3. Good(s, c)
    BY <2>1, <2>2
  <2> QED BY <2>3 DEF c
<1>12. CASE cmd.ins # "settings" /\ ~taken
  <2>1. s \in {Fails(d, how), EndsWith(d, heard, "notSupported"), EndsWith(d, heard, "failed")}
    BY <1>12 DEF DesfireReacts, d, v, taken
  <2>2. Family(c.kind) # "page"
    BY <1>6
  <2>3. Good(Fails(d, how), c)
    BY <1>6, <2>2, FailsGoes
  <2>4. Good(EndsWith(d, heard, "notSupported"), c) /\ Good(EndsWith(d, heard, "failed"), c)
    BY <1>6, <2>2, FailingGoes
  <2>5. Good(s, c)
    BY <2>1, <2>3, <2>4
  <2> QED BY <2>5 DEF c
<1> QED BY <1>7, <1>8, <1>9, <1>10, <1>11, <1>12 DEF DesfireCommands

-----------------------------------------------------------------------------
(* A command sent *)

(* The card a command leaves, the answer that is heard, and what the driver makes of it. *)
CardAfter(how) ==
    IF present /\ how \in {"heard", "unheard"} THEN Answer(card, Head(todo), drv.session = "open").card ELSE card

Got(how) ==
    CASE ~present                  -> "gone"
      [] present /\ how = "heard" -> Answer(card, Head(todo), drv.session = "open").how
      [] present /\ how = "nak"   -> "refused"
      [] OTHER                     -> "error"

Outcome(how) ==
    LET a == Answer(card, Head(todo), drv.session = "open") IN
    Reacts(Head(todo), Got(how), a.value, (present /\ how \in {"heard", "unheard"}) /\ a.how = "ok")

(* A command sent, to any card and with any fate, leaves its call to go on or to end
   truly. *)
LEMMA SentGoes ==
    ASSUME Busy, NEW how \in {"heard", "lost", "unheard", "nak"}, Head(todo).ins \notin Choosing
    PROVE  Good(Outcome(how), CardAfter(how))
<1> DEFINE cmd == Head(todo)
           step == drv.session = "open"
           a == Answer(card, cmd, step)
           executed == present /\ how \in {"heard", "unheard"}
           got == Got(how)
<1>1. PICK x \in BOOLEAN : x <=> executed
  OBVIOUS
<1>2. got = "ok" => x /\ a.how = "ok"
  BY <1>1 DEF Got
<1>3. CardAfter(how) = IF x THEN a.card ELSE card
  BY <1>1 DEF CardAfter
<1>4. cmd.ins \notin {"fit", "enter", "cannot"}
  BY DEF Choosing
<1>5. Family(card.kind) \in {"page", "classic", "type4", "desfire"}
  BY BusyBasics, Families
<1> HIDE DEF got
<1>6. CASE Family(card.kind) = "page"
  <2>1. a = PageAnswer(card, cmd)
    BY <1>6 DEF Answer
  <2>2. Outcome(how) = PageReacts(cmd, got, PageAnswer(card, cmd).value, Tail(todo))
    BY <1>6, <2>1 DEF Outcome, Reacts, got
  <2> QED BY <1>2, <1>3, <1>4, <1>6, <2>1, <2>2, PageGoes
<1>7. CASE Family(card.kind) = "classic"
  <2>1. a = ClassicAnswer(card, cmd)
    BY <1>7 DEF Answer
  <2>2. Outcome(how) = ClassicReacts(cmd, got, ClassicAnswer(card, cmd).value, Tail(todo))
    BY <1>7, <2>1 DEF Outcome, Reacts, got
  <2> QED BY <1>2, <1>3, <1>4, <1>7, <2>1, <2>2, ClassicGoes
<1>8. CASE Family(card.kind) = "type4"
  <2>1. a = Type4Answer(card, cmd)
    BY <1>8 DEF Answer
  <2>2. Outcome(how) = FileReacts(cmd, got, Type4Answer(card, cmd).value, Tail(todo))
    BY <1>8, <2>1 DEF Outcome, Reacts, got
  <2> QED BY <1>2, <1>3, <1>4, <1>8, <2>1, <2>2, Type4Goes
<1>9. CASE Family(card.kind) = "desfire"
  <2>1. a = DesfireAnswer(card, cmd, step)
    BY <1>9 DEF Answer
  <2>2. PICK y : y = (executed /\ a.how = "ok")
    OBVIOUS
  <2>3. Outcome(how) = DesfireReacts(cmd, got, DesfireAnswer(card, cmd, step).value, y, Tail(todo))
    BY <1>9, <2>1, <2>2 DEF Outcome, Reacts, got
  <2>4. cmd.ins \in DesfireCommands
    BY <1>4, <1>9, DesfireIssues
  <2> QED BY <1>2, <1>3, <1>9, <2>1, <2>3, <2>4, DesfireGoes
<1> QED BY <1>5, <1>6, <1>7, <1>8, <1>9

-----------------------------------------------------------------------------
(* The plans *)

(* The commands a stage may send to a family. *)
May(family, st) ==
    {cmd \in Commands : /\ cmd.ins \in Issued(family, st)
                        /\ st = "write" /\ cmd.ins = "readLock" => cmd.at = "static"}

(* A sequence of a stage's commands is one the stage may have left to send. *)
LEMMA MayIssue ==
    ASSUME NEW c, NEW st, NEW q \in Seq(May(Family(c.kind), st))
    PROVE  Issues(c, st, q) /\ q \in Seq(Commands)
<1>1. q \in Seq(Commands)
  BY SeqMonotonic DEF May
<1>2. \A k \in DOMAIN q : q[k] \in May(Family(c.kind), st)
  BY ElementOfSeq, LenProperties
<1> QED BY <1>1, <1>2 DEF Issues, May

(* A function over the first numbers is a sequence. *)
LEMMA ListIs ==
    ASSUME NEW S, NEW n \in Nat, NEW f \in [1..n -> S]
    PROVE  f \in Seq(S) /\ Len(f) = n /\ DOMAIN f = 1..n
<1>1. f \in Seq(S)
  BY SeqDef
<1>2. DOMAIN f = 1..n
  OBVIOUS
<1>3. 1..Len(f) = 1..n /\ Len(f) \in Nat
  BY <1>1, <1>2, LenProperties
<1> QED BY <1>1, <1>2, <1>3

(* Commands put before others. *)
LEMMA Joined ==
    ASSUME NEW S, NEW p \in Seq(S), NEW q \in Seq(S)
    PROVE  /\ p \o q \in Seq(S) /\ Len(p) \in Nat /\ Len(q) \in Nat
           /\ Len(p \o q) = Len(p) + Len(q) /\ DOMAIN (p \o q) = 1..Len(p) + Len(q)
           /\ \A k \in 1..Len(p) : (p \o q)[k] = p[k]
           /\ \A k \in 1..Len(q) : Len(p) + k \in 1..Len(p) + Len(q) /\ (p \o q)[Len(p) + k] = q[k]
           /\ \A k \in 1..Len(p) + Len(q) :
                 \/ k \in 1..Len(p) /\ (p \o q)[k] = p[k]
                 \/ k - Len(p) \in 1..Len(q) /\ (p \o q)[k] = q[k - Len(p)]
<1> PICK a \in Nat, b \in Nat : a = Len(p) /\ b = Len(q)
  BY LenProperties
<1> DEFINE r == p \o q
<1>1. /\ r \in Seq(S) /\ Len(r) = a + b
      /\ \A i \in 1 .. a + b : r[i] = IF i <= a THEN p[i] ELSE q[i - a]
  BY ConcatProperties
<1>2. DOMAIN r = 1..a + b
  BY <1>1, LenProperties
<1> HIDE DEF r
<1>3. \A k \in 1..a : r[k] = p[k]
  BY <1>1
<1>4. ASSUME NEW k \in 1..b PROVE a + k \in 1..a + b /\ r[a + k] = q[k]
  <2>1. a + k \in 1..a + b /\ ~(a + k <= a) /\ (a + k) - a = k
    OBVIOUS
  <2> QED BY <1>1, <2>1
<1>5. \A k \in 1..a + b :
          (k \in 1..a /\ r[k] = p[k]) \/ (k - a \in 1..b /\ r[k] = q[k - a])
  BY <1>1
<1> QED BY <1>1, <1>2, <1>3, <1>4, <1>5 DEF r

(* Commands that read nothing, put before reads in order, keep them so. *)
LEMMA PrefixOrder ==
    ASSUME NEW p \in Seq(Commands), NEW q \in Seq(Commands), NEW n \in Nat, InOrder(q, n),
           \A k \in DOMAIN p : p[k].ins # "read"
    PROVE  InOrder(p \o q, n)
<1> PICK a \in Nat, b \in Nat : a = Len(p) /\ b = Len(q)
  BY LenProperties
<1> DEFINE r == p \o q
<1>1. /\ DOMAIN r = 1..a + b /\ DOMAIN p = 1..a /\ DOMAIN q = 1..b
      /\ \A k \in 1..b : a + k \in 1..a + b /\ r[a + k] = q[k]
      /\ \A k \in 1..a + b : \/ k \in 1..a /\ r[k] = p[k]
                             \/ k - a \in 1..b /\ r[k] = q[k - a]
  BY Joined, LenProperties
<1> HIDE DEF r
<1>2. ASSUME NEW k, Reads(r, k) PROVE k \in 1..a + b /\ k - a \in 1..b /\ Reads(q, k - a) /\ r[k] = q[k - a]
  <2>1. k \in 1..a + b /\ r[k].ins = "read"
    BY <1>1, <1>2 DEF Reads
  <2>2. ~(k \in 1..a /\ r[k] = p[k])
    BY <1>1, <2>1
  <2>3. k - a \in 1..b /\ r[k] = q[k - a]
    BY <1>1, <2>1, <2>2
  <2> QED BY <1>1, <2>1, <2>3 DEF Reads
<1>3. ASSUME NEW k \in DOMAIN r, Reads(r, k), r[k].at > n + 1
      PROVE  \E j \in 1..k - 1 : Reads(r, j) /\ r[j].at = r[k].at - 1
  <2>1. k \in 1..a + b /\ k - a \in 1..b /\ Reads(q, k - a) /\ r[k] = q[k - a]
    BY <1>2, <1>3
  <2>2. PICK j \in 1..(k - a) - 1 : Reads(q, j) /\ q[j].at = q[k - a].at - 1
    BY <1>1, <1>3, <2>1 DEF InOrder
  <2>3. a + j \in 1..k - 1 /\ j \in 1..b
    BY <2>1, <2>2
  <2>4. Reads(r, a + j) /\ r[a + j] = q[j]
    BY <1>1, <2>2, <2>3 DEF Reads
  <2> QED BY <2>1, <2>2, <2>3, <2>4
<1>4. \A k \in DOMAIN r : Reads(r, k) => r[k].at > n
  BY <1>1, <1>2 DEF InOrder
<1>5. ASSUME NEW j \in DOMAIN r, NEW k \in DOMAIN r, Reads(r, j), Reads(r, k), r[j].at = r[k].at
      PROVE  j = k
  <2>1. j - a = k - a
    BY <1>1, <1>2, <1>5, SMTT(20) DEF InOrder
  <2> QED BY <1>1, <2>1
<1> QED BY <1>3, <1>4, <1>5 DEF InOrder, r

(* A message fills one cell more than it has records. *)
LEMMA LenMessage ==
    ASSUME NEW m \in Messages
    PROVE  Len(m) \in Nat /\ Need(m) \in Nat \ {0}
BY LenProperties DEF Messages, Need

(* Read, Write and the others are commands. *)
LEMMA ReadTyped ==
    ASSUME NEW i \in Cells
    PROVE  Read(i) \in Commands /\ Read(i).ins = "read" /\ Read(i).at = i
BY DEF Read, Commands

(* A write, of any block or page. *)
LEMMA WriteTyped ==
    ASSUME NEW i \in Int, NEW m \in Messages
    PROVE  Write(i, m) \in Commands /\ Write(i, m).ins = "write" /\ Write(i, m).at = i
BY DEF Write, Commands

(* A command without a parameter. *)
LEMMA PlainTyped ==
    ASSUME NEW w \in {"fit", "enter", "cannot", "selectApp", "readCC", "select", "settings", "auth1", "auth2", "change"}
    PROVE  [ins |-> w] \in Commands /\ [ins |-> w].ins = w
BY DEF Commands

(* A command of the lock bytes. *)
LEMMA LockTyped ==
    ASSUME NEW which \in {"static", "dynamic"}, NEW w \in {"readLock", "setLock"}
    PROVE  LET x == [ins |-> w, at |-> which] IN x \in Commands /\ x.ins = w /\ x.at = which
BY DEF Commands

(* ReadCells takes every cell in order. *)
LEMMA ReadCellsIs ==
    /\ ReadCells \in [1..Chunks -> Commands]
    /\ \A k \in 1..Chunks : ReadCells[k].ins = "read" /\ ReadCells[k].at = k
    /\ \A f \in {"page", "type4", "desfire"}, st \in {"resolve", "verify"} : ReadCells \in [1..Chunks -> May(f, st)]
    /\ InOrder(ReadCells, 0) /\ Chunks \in Nat \ {0}
<1>1. Cells = 1..Chunks /\ Chunks \in Nat \ {0}
  BY ChunksAssumption DEF Cells
<1>2. \A k \in 1..Chunks : ReadCells[k] = Read(k)
  BY <1>1 DEF ReadCells
<1>3. \A k \in 1..Chunks : ReadCells[k] \in Commands /\ ReadCells[k].ins = "read" /\ ReadCells[k].at = k
  BY <1>1, <1>2, ReadTyped
<1>4. DOMAIN ReadCells = 1..Chunks /\ ReadCells = [k \in 1..Chunks |-> ReadCells[k]]
  BY <1>1 DEF ReadCells
<1>5. ASSUME NEW f \in {"page", "type4", "desfire"}, NEW st \in {"resolve", "verify"}
      PROVE  ReadCells \in [1..Chunks -> May(f, st)]
  <2>1. "read" \in Issued(f, st) /\ st # "write"
    BY DEF Issued, ReadsAt
  <2>2. \A k \in 1..Chunks : ReadCells[k] \in May(f, st)
    BY <1>3, <2>1 DEF May
  <2> QED BY <1>4, <2>2
<1>6. InOrder(ReadCells, 0)
  <2> DEFINE q == ReadCells
  <2>1. DOMAIN q = 1..Chunks /\ \A k \in 1..Chunks : q[k].ins = "read" /\ q[k].at = k
    BY <1>3, <1>4
  <2> HIDE DEF q
  <2>2. ASSUME NEW k \in 1..Chunks, q[k].at > 0 + 1
        PROVE  \E j \in 1..k - 1 : Reads(q, j) /\ q[j].at = q[k].at - 1
    <3>1. k - 1 \in 1..k - 1 /\ k - 1 \in 1..Chunks
      BY <1>1, <2>1, <2>2
    <3>2. Reads(q, k - 1) /\ q[k - 1].at = q[k].at - 1
      BY <2>1, <3>1 DEF Reads
    <3> QED BY <3>1, <3>2
  <2> QED BY <1>1, <2>1, <2>2 DEF InOrder, q
<1> QED BY <1>1, <1>3, <1>4, <1>5, <1>6

(* ReadSectors does, a sector opened before each. *)
LEMMA ReadSectorsIs ==
    /\ ReadSectors \in [1..2 * Chunks -> Commands]
    /\ \A st \in {"resolve", "verify"} : ReadSectors \in [1..2 * Chunks -> May("classic", st)]
    /\ \A k \in 1..2 * Chunks : ReadSectors[k].ins \in {"auth", "read"}
    /\ InOrder(ReadSectors, 0)
<1>1. Cells = 1..Chunks /\ Chunks \in Nat \ {0} /\ 2 * Chunks \in Nat
  BY ChunksAssumption DEF Cells
<1> DEFINE q == ReadSectors
<1>2. /\ DOMAIN q = 1..2 * Chunks /\ q = [k \in 1..2 * Chunks |-> q[k]]
      /\ \A k \in 1..2 * Chunks : q[k] = IF k % 2 = 1 THEN Opening((k + 1) \div 2) ELSE Read(k \div 2)
  BY DEF ReadSectors
<1> HIDE DEF q
<1>3. ASSUME NEW k \in 1..2 * Chunks
      PROVE  /\ q[k] \in Commands
             /\ k % 2 = 1 => q[k].ins = "auth"
             /\ k % 2 # 1 => q[k].ins = "read" /\ q[k].at = k \div 2
  <2>1. CASE k % 2 = 1
    <3>1. (k + 1) \div 2 \in Int
      BY <1>1
    <3> QED BY <1>2, <2>1, <3>1, OpeningTyped
  <2>2. CASE k % 2 # 1
    <3>1. k \div 2 \in Cells
      BY <1>1, <2>2
    <3> QED BY <1>2, <2>2, <3>1, ReadTyped
  <2> QED BY <2>1, <2>2
<1>4. \A k \in 1..2 * Chunks : Reads(q, k) => k % 2 # 1 /\ q[k].at = k \div 2
  BY <1>3 DEF Reads
<1>5. ASSUME NEW k \in DOMAIN q, Reads(q, k), q[k].at > 0 + 1
      PROVE  \E j \in 1..k - 1 : Reads(q, j) /\ q[j].at = q[k].at - 1
  <2>1. k % 2 # 1 /\ q[k].at = k \div 2 /\ k \in 1..2 * Chunks
    BY <1>2, <1>4, <1>5
  <2>2. k - 2 \in 1..k - 1 /\ k - 2 \in 1..2 * Chunks /\ (k - 2) % 2 # 1 /\ (k - 2) \div 2 = (k \div 2) - 1
    BY <1>1, <1>5, <2>1
  <2>3. Reads(q, k - 2) /\ q[k - 2].at = q[k].at - 1
    BY <1>2, <1>3, <2>1, <2>2 DEF Reads
  <2> QED BY <2>2, <2>3
<1>6. ASSUME NEW j \in DOMAIN q, NEW k \in DOMAIN q, Reads(q, j), Reads(q, k), q[j].at = q[k].at
      PROVE  j = k
  <2>1. j \in Int /\ k \in Int /\ j % 2 # 1 /\ k % 2 # 1 /\ j \div 2 = k \div 2
    BY <1>1, <1>2, <1>4, <1>6
  <2> QED BY <2>1
<1>7. ASSUME NEW k \in DOMAIN q, Reads(q, k) PROVE q[k].at > 0
  <2>1. k \in 1..2 * Chunks /\ k % 2 # 1 /\ q[k].at = k \div 2
    BY <1>2, <1>4, <1>7
  <2> QED BY <1>1, <2>1
<1>8. InOrder(q, 0)
  BY <1>5, <1>6, <1>7 DEF InOrder
<1>9. \A k \in 1..2 * Chunks : q[k] \in Commands /\ q[k].ins \in {"auth", "read"}
  BY <1>3
<1>10. ASSUME NEW st \in {"resolve", "verify"} PROVE q \in [1..2 * Chunks -> May("classic", st)]
  <2>1. {"auth", "read"} \subseteq Issued("classic", st) /\ st # "write"
    BY DEF Issued, ReadsAt
  <2>2. \A k \in 1..2 * Chunks : q[k] \in May("classic", st)
    BY <1>9, <2>1 DEF May
  <2> QED BY <1>2, <2>2
<1> QED BY <1>2, <1>8, <1>9, <1>10 DEF q

(* Selecting a Type 4 file reads none of it. *)
LEMMA SelectIs ==
    ASSUME NEW st \in {"resolve", "verify", "write"}
    PROVE  /\ Select \in Seq(May("type4", st))
           /\ \A k \in DOMAIN Select : Select[k].ins \in {"selectApp", "selectFile", "readCC"}
<1> DEFINE a == [ins |-> "selectApp"]  b == [ins |-> "selectFile", at |-> "cc"]
           c == [ins |-> "readCC"]     d == [ins |-> "selectFile", at |-> "ndef"]
<1>1. {"selectApp", "selectFile", "readCC"} \subseteq Issued("type4", st)
  BY DEF Issued
<1>2. a \in Commands /\ a.ins = "selectApp" /\ c \in Commands /\ c.ins = "readCC"
  BY PlainTyped
<1>3. b \in Commands /\ b.ins = "selectFile" /\ d \in Commands /\ d.ins = "selectFile"
  BY DEF Commands
<1>4. Select = <<a, b, c, d>>
  BY DEF Select
<1> HIDE DEF a, b, c, d
<1>5. {a, b, c, d} \subseteq May("type4", st)
  BY <1>1, <1>2, <1>3 DEF May
<1>6. <<a, b, c, d>> \in Seq(May("type4", st)) /\ DOMAIN <<a, b, c, d>> = 1..4
  BY <1>5
<1>7. \A k \in 1..4 : <<a, b, c, d>>[k] \in {a, b, c, d}
  OBVIOUS
<1> QED BY <1>2, <1>3, <1>4, <1>6, <1>7

(* A DESFire call begins with its probe and the choice that waits for it. *)
LEMMA ProbeIs ==
    ASSUME NEW st \in Stages
    PROVE  /\ Probe \in Seq(May("desfire", st)) /\ Probe # << >>
           /\ \A k \in DOMAIN Probe : Probe[k].ins \in {"select", "settings", "enter"}
           /\ DesfireLocks(Probe)
<1> DEFINE a == [ins |-> "select"]  b == [ins |-> "settings"]  c == [ins |-> "enter"]
<1>1. {"select", "settings", "enter"} \subseteq Issued("desfire", st)
  BY DEF Issued
<1>2. /\ a \in Commands /\ a.ins = "select" /\ b \in Commands /\ b.ins = "settings"
      /\ c \in Commands /\ c.ins = "enter"
  BY PlainTyped
<1>3. Probe = <<a, c>> \/ Probe = <<a, b, c>>
  BY DEF Probe, Enter
<1> HIDE DEF a, b, c
<1>4. {a, b, c} \subseteq May("desfire", st)
  BY <1>1, <1>2 DEF May
<1>6. CASE Probe = <<a, c>>
  <2>1. <<a, c>> \in Seq(May("desfire", st)) /\ Len(<<a, c>>) = 2 /\ DOMAIN <<a, c>> = 1..2
    BY <1>4
  <2>2. <<a, c>>[1] = a /\ <<a, c>>[2] = c /\ <<a, c>> # << >>
    OBVIOUS
  <2>3. \A k \in 1..2 : k = 1 \/ k = 2
    OBVIOUS
  <2> QED BY <1>2, <1>6, <2>1, <2>2, <2>3 DEF DesfireLocks
<1>7. CASE Probe = <<a, b, c>>
  <2>1. <<a, b, c>> \in Seq(May("desfire", st)) /\ Len(<<a, b, c>>) = 3 /\ DOMAIN <<a, b, c>> = 1..3
    BY <1>4
  <2>2. <<a, b, c>>[1] = a /\ <<a, b, c>>[2] = b /\ <<a, b, c>>[3] = c /\ <<a, b, c>> # << >>
    OBVIOUS
  <2>3. \A k \in 1..3 : k = 1 \/ k = 2 \/ k = 3
    OBVIOUS
  <2> QED BY <1>2, <1>7, <2>1, <2>2, <2>3 DEF DesfireLocks
<1> QED BY <1>3, <1>6, <1>7

(* Reading a card from its first cell on. *)
LEMMA ReadingPlan ==
    ASSUME NEW c, NEW o, NEW st \in {"resolve", "verify"}, NEW q \in Seq(May(Family(c.kind), st)),
           InOrder(q, 0),
           \A k \in DOMAIN q : q[k].ins = "enter" => \A j \in DOMAIN q : q[j].ins # "read",
           Family(c.kind) = "page" /\ c.corrupt /\ st = "verify" => c.cells[1] = Garbage
    PROVE  Plan(c, st, q, << >>, o)
<1>1. Issues(c, st, q)
  BY MayIssue
<1>2. HeardSoFar(c, << >>)
  BY EmptySeq, ChunksAssumption DEF HeardSoFar
<1>3. ReadsTrue(c, q, << >>)
  BY <1>2, EmptySeq DEF ReadsTrue, Reads
<1> QED BY <1>1, <1>3 DEF Plan, Spoils

(* A read begins with every cell to take, in order (ReadData of each driver). *)
LEMMA ReadDataPlan ==
    ASSUME card \in Cards, NEW c, c.kind = card.kind, NEW o, NEW st \in {"resolve", "verify"},
           Family(c.kind) = "page" /\ c.corrupt /\ st = "verify" => c.cells[1] = Garbage
    PROVE  Plan(c, st, ReadData, << >>, o) /\ ReadData # << >>
<1>1. Family(c.kind) \in {"page", "classic", "type4", "desfire"}
  BY Families
<1>2. ReadCells \in Seq(Commands) /\ Len(ReadCells) = Chunks /\ Chunks \in Nat \ {0} /\ DOMAIN ReadCells = 1..Chunks
  BY ReadCellsIs, ListIs
<1>3. CASE Family(c.kind) = "page"
  <2>1. ReadData = ReadCells
    BY <1>3 DEF ReadData
  <2>2. ReadCells \in Seq(May("page", st))
    BY ReadCellsIs, ListIs
  <2>3. \A k \in 1..Chunks : ReadCells[k].ins # "enter"
    BY ReadCellsIs
  <2>4. ReadCells # << >>
    BY <1>2, EmptySeq
  <2> DEFINE q == ReadCells
  <2>5. /\ q \in Seq(May(Family(c.kind), st)) /\ InOrder(q, 0)
        /\ \A k \in DOMAIN q : q[k].ins # "enter"
    BY <1>2, <1>3, <2>2, <2>3, ReadCellsIs
  <2> HIDE DEF q
  <2>6. Plan(c, st, q, << >>, o)
    BY <2>5, ReadingPlan
  <2> QED BY <2>1, <2>4, <2>6 DEF q
<1>4. CASE Family(c.kind) = "classic"
  <2>1. ReadData = ReadSectors
    BY <1>4 DEF ReadData
  <2>2. 2 * Chunks \in Nat \ {0}
    BY <1>2
  <2>3. ReadSectors \in Seq(May("classic", st)) /\ Len(ReadSectors) = 2 * Chunks /\ DOMAIN ReadSectors = 1..2 * Chunks
    BY <2>2, ReadSectorsIs, ListIs
  <2>4. ReadSectors # << >>
    BY <2>2, <2>3, EmptySeq
  <2>5. \A k \in DOMAIN ReadSectors : ReadSectors[k].ins # "enter"
    BY <2>3, ReadSectorsIs
  <2> QED BY <1>4, <2>1, <2>3, <2>4, <2>5, ReadSectorsIs, ReadingPlan
<1>5. CASE Family(c.kind) = "type4"
  <2> DEFINE p == Select  r == ReadCells
  <2>1. ReadData = p \o r
    BY <1>5 DEF ReadData
  <2>2. /\ p \in Seq(May("type4", st)) /\ p \in Seq(Commands)
        /\ \A k \in DOMAIN p : p[k].ins \in {"selectApp", "selectFile", "readCC"}
    <3>1. Select \in Seq(May("type4", st)) /\ \A k \in DOMAIN p : p[k].ins \in {"selectApp", "selectFile", "readCC"}
      BY SelectIs
    <3> QED BY <3>1, SeqMonotonic DEF May
  <2>3. r \in Seq(May("type4", st)) /\ r \in Seq(Commands) /\ InOrder(r, 0) /\ \A k \in DOMAIN r : r[k].ins = "read"
    BY <1>2, ReadCellsIs, ListIs
  <2>4. Len(r) \in Nat \ {0}
    BY <1>2
  <2> HIDE DEF p, r
  <2>5. InOrder(p \o r, 0)
    BY <2>2, <2>3, PrefixOrder
  <2>6. /\ p \o r \in Seq(May("type4", st)) /\ Len(p) \in Nat /\ Len(p \o r) = Len(p) + Len(r)
        /\ DOMAIN (p \o r) = 1..Len(p) + Len(r)
        /\ \A k \in 1..Len(p) + Len(r) : \/ k \in 1..Len(p) /\ (p \o r)[k] = p[k]
                                         \/ k - Len(p) \in 1..Len(r) /\ (p \o r)[k] = r[k - Len(p)]
    BY <2>2, <2>3, Joined
  <2>7. DOMAIN p = 1..Len(p) /\ DOMAIN r = 1..Len(r)
    BY <2>2, <2>3, LenProperties
  <2>8. \A k \in DOMAIN (p \o r) : (p \o r)[k].ins # "enter"
    BY <2>2, <2>3, <2>6, <2>7
  <2>9. p \o r # << >>
    BY <2>4, <2>6, EmptySeq
  <2> QED BY <1>5, <2>1, <2>5, <2>6, <2>8, <2>9, ReadingPlan
<1>6. CASE Family(c.kind) = "desfire"
  <2>1. ReadData = Probe
    BY <1>6 DEF ReadData
  <2>2. /\ Probe \in Seq(May("desfire", st)) /\ Probe # << >>
        /\ \A k \in DOMAIN Probe : Probe[k].ins \in {"select", "settings", "enter"}
    BY ProbeIs DEF Stages
  <2>3. InOrder(Probe, 0)
    BY <2>2 DEF InOrder, Reads
  <2> QED BY <1>6, <2>1, <2>2, <2>3, ReadingPlan
<1> QED BY <1>1, <1>3, <1>4, <1>5, <1>6

(* WriteCells begins with the first cell. *)
LEMMA WriteCellsIs ==
    ASSUME NEW m \in Messages
    PROVE  /\ \A f \in {"page", "desfire"} : WriteCells(m) \in Seq(May(f, "write"))
           /\ Len(WriteCells(m)) = Need(m) /\ Need(m) \in Nat \ {0}
           /\ WriteCells(m)[1].ins = "write" /\ WriteCells(m)[1].at = 1
<1>1. Need(m) \in Nat \ {0}
  BY LenMessage
<1>2. \A k \in 1..Need(m) : /\ WriteCells(m)[k] = Write(k, m)
                            /\ Write(k, m) \in Commands /\ Write(k, m).ins = "write" /\ Write(k, m).at = k
  BY <1>1, WriteTyped DEF WriteCells
<1>3. WriteCells(m) = [k \in 1..Need(m) |-> WriteCells(m)[k]]
  BY DEF WriteCells
<1>4. ASSUME NEW f \in {"page", "desfire"} PROVE WriteCells(m) \in [1..Need(m) -> May(f, "write")]
  <2>1. "write" \in Issued(f, "write")
    BY DEF Issued, ReadsAt
  <2>2. \A k \in 1..Need(m) : WriteCells(m)[k] \in May(f, "write")
    BY <1>2, <2>1 DEF May
  <2> QED BY <1>3, <2>2
<1>5. 1 \in 1..Need(m)
  BY <1>1
<1>6. \A f \in {"page", "desfire"} : WriteCells(m) \in Seq(May(f, "write")) /\ Len(WriteCells(m)) = Need(m)
  BY <1>1, <1>4, ListIs
<1> QED BY <1>1, <1>2, <1>5, <1>6

(* A write may have its room to look at. *)
LEMMA FitMay ==
    \A f \in {"page", "classic", "type4"} : Fit \in May(f, "write") /\ <<Fit>> \in Seq(May(f, "write"))
<1>1. Fit \in Commands /\ Fit.ins = "fit"
  BY PlainTyped DEF Fit
<1>2. \A f \in {"page", "classic", "type4"} : "fit" \in Issued(f, "write")
  BY DEF Issued, ReadsAt
<1>3. \A f \in {"page", "classic", "type4"} : Fit \in May(f, "write")
  BY <1>1, <1>2 DEF May
<1> QED BY <1>3

(* A Classic's write is of authentications and writes. *)
LEMMA WriteSectorsMay ==
    ASSUME NEW m \in Messages
    PROVE  WriteSectors(m) \in Seq(May("classic", "write"))
<1>1. Need(m) \in Nat \ {0} /\ 2 * Need(m) \in Nat
  BY LenMessage
<1> DEFINE q == WriteSectors(m)
<1>2. /\ q = [k \in 1..2 * Need(m) |-> q[k]]
      /\ \A k \in 1..2 * Need(m) : q[k] = IF k % 2 = 1 THEN Opening((k + 1) \div 2) ELSE Write(k \div 2, m)
  BY DEF WriteSectors
<1> HIDE DEF q
<1>3. {"auth", "write"} \subseteq Issued("classic", "write")
  BY DEF Issued, ReadsAt
<1>4. ASSUME NEW k \in 1..2 * Need(m) PROVE q[k] \in May("classic", "write")
  <2>1. (k + 1) \div 2 \in Int /\ k \div 2 \in Int
    BY <1>1
  <2>2. Opening((k + 1) \div 2) \in May("classic", "write")
    BY <1>3, <2>1, OpeningTyped DEF May
  <2>3. Write(k \div 2, m) \in May("classic", "write")
    BY <1>3, <2>1, WriteTyped DEF May
  <2> QED BY <1>2, <2>2, <2>3
<1>5. q \in [1..2 * Need(m) -> May("classic", "write")]
  BY <1>2, <1>4
<1> QED BY <1>1, <1>5, ListIs DEF q

(* A format's second half is of authentications, writes and trailers. *)
LEMMA FormatSectorsMay ==
    ASSUME NEW m \in Messages
    PROVE  FormatSectors(m) \in Seq(May("classic", "write"))
<1>1. 3 * (Chunks + 1) \in Nat
  BY ChunksAssumption
<1> DEFINE q == FormatSectors(m)
           put(s) == IF s \in 1..Need(m) THEN m ELSE Blank
           to(s) == IF s = 0 THEN "mad" ELSE "ndef"
<1>2. /\ q = [k \in 1..3 * (Chunks + 1) |-> q[k]]
      /\ \A k \in 1..3 * (Chunks + 1) :
            q[k] \in {Opening((k - 1) \div 3), Write((k - 1) \div 3, put((k - 1) \div 3)),
                      TrailerTo((k - 1) \div 3, to((k - 1) \div 3))}
  <2>1. \A k \in 1..3 * (Chunks + 1) : k % 3 = 1 \/ k % 3 = 2 \/ k % 3 = 0
    BY <1>1
  <2> QED BY <2>1 DEF FormatSectors
<1> HIDE DEF q
<1>3. {"auth", "write", "trailer"} \subseteq Issued("classic", "write")
  BY DEF Issued, ReadsAt
<1>4. ASSUME NEW k \in 1..3 * (Chunks + 1) PROVE q[k] \in May("classic", "write")
  <2>1. PICK s \in Int : s = (k - 1) \div 3
    BY <1>1
  <2>2. Opening(s) \in May("classic", "write")
    BY <1>3, OpeningTyped DEF May
  <2>3. put(s) \in Messages
    BY NothingSaid
  <2> HIDE DEF put
  <2>4. Write(s, put(s)) \in May("classic", "write")
    BY <1>3, <2>3, WriteTyped DEF May
  <2>5. TrailerTo(s, to(s)) \in May("classic", "write")
    BY <1>3 DEF May, TrailerTo, Commands
  <2> QED BY <1>2, <2>1, <2>2, <2>4, <2>5
<1>5. q \in [1..3 * (Chunks + 1) -> May("classic", "write")]
  BY <1>2, <1>4
<1> QED BY <1>1, <1>5, ListIs DEF q

(* The first half is an authentication of each sector. *)
LEMMA PreflightIs ==
    /\ Preflight \in Seq(May("classic", "write"))
    /\ Len(Preflight) = Chunks + 1 /\ Chunks + 1 \in Nat
    /\ \A k \in 1..Chunks + 1 : Preflight[k].ins = "auth" /\ Preflight[k].at = k - 1
<1>1. Chunks + 1 \in Nat
  BY ChunksAssumption
<1>2. /\ Preflight = [k \in 1..Chunks + 1 |-> Preflight[k]]
      /\ \A k \in 1..Chunks + 1 : Preflight[k] = Opening(k - 1)
  BY DEF Preflight
<1>3. \A k \in 1..Chunks + 1 : /\ Preflight[k] \in Commands
                               /\ Preflight[k].ins = "auth" /\ Preflight[k].at = k - 1
  BY <1>1, <1>2, OpeningTyped
<1>4. "auth" \in Issued("classic", "write")
  BY DEF Issued, ReadsAt
<1>5. \A k \in 1..Chunks + 1 : Preflight[k] \in May("classic", "write")
  BY <1>3, <1>4 DEF May
<1>6. Preflight \in [1..Chunks + 1 -> May("classic", "write")]
  BY <1>2, <1>5
<1> QED BY <1>1, <1>3, <1>6, ListIs

(* So a format has every sector still to open before it changes any
   (formatAndWriteNDEF). *)
LEMMA FormatPlan ==
    ASSUME NEW m \in Messages, NEW c
    PROVE  Format(m) \in Seq(May("classic", "write")) /\ Format(m) # << >> /\ FormatSafe(c, Format(m))
<1> DEFINE S == May("classic", "write")
           f == <<Fit>>  p == Preflight  r == FormatSectors(m)
<1>1. /\ f \in Seq(S) /\ Len(f) = 1 /\ f[1].ins = "fit"
      /\ p \in Seq(S) /\ Len(p) = Chunks + 1 /\ r \in Seq(S)
      /\ \A k \in 1..Chunks + 1 : p[k].ins = "auth" /\ p[k].at = k - 1
  <2>1. <<Fit>> \in Seq(May("classic", "write")) /\ Len(<<Fit>>) = 1 /\ <<Fit>>[1] = Fit /\ Fit.ins = "fit"
    <3>1. <<Fit>> \in Seq(May("classic", "write"))
      BY FitMay
    <3>2. Len(<<Fit>>) = 1 /\ <<Fit>>[1] = Fit
      OBVIOUS
    <3>3. Fit.ins = "fit"
      BY DEF Fit
    <3> QED BY <3>1, <3>2, <3>3
  <2>2. /\ f \in Seq(S) /\ Len(f) = 1 /\ f[1].ins = "fit"
    BY <2>1
  <2>3. p \in Seq(S) /\ Len(p) = Chunks + 1
    BY PreflightIs
  <2>4. \A k \in 1..Chunks + 1 : p[k].ins = "auth" /\ p[k].at = k - 1
    BY PreflightIs
  <2>5. r \in Seq(S)
    BY FormatSectorsMay
  <2> HIDE DEF S, f, p, r
  <2> QED BY <2>2, <2>3, <2>4, <2>5
<1> HIDE DEF S, f, p, r
<1> PICK n \in Nat : n = Chunks + 1
  BY ChunksAssumption
<1>1a. PICK a, b, d : a = S /\ b = f /\ d = p
  OBVIOUS
<1>1b. /\ b \o d \in Seq(a) /\ Len(b \o d) = Len(b) + Len(d)
       /\ \A k \in 1..Len(b) : (b \o d)[k] = b[k]
       /\ \A k \in 1..Len(d) : Len(b) + k \in 1..Len(b) + Len(d) /\ (b \o d)[Len(b) + k] = d[k]
  <2>1. b \in Seq(a) /\ d \in Seq(a)
    BY <1>1, <1>1a
  <2> QED BY <2>1, Joined
<1> DEFINE h == f \o p
<1>2. /\ h \in Seq(S) /\ Len(h) = 1 + n
      /\ h[1].ins = "fit" /\ \A k \in 1..n : 1 + k \in 1..1 + n /\ h[1 + k] = p[k]
  <2>1. /\ f \o p \in Seq(S) /\ Len(f \o p) = Len(f) + Len(p)
        /\ \A k \in 1..Len(f) : (f \o p)[k] = f[k]
        /\ \A k \in 1..Len(p) : Len(f) + k \in 1..Len(f) + Len(p) /\ (f \o p)[Len(f) + k] = p[k]
    BY <1>1a, <1>1b
  <2> QED BY <1>1, <2>1
<1> HIDE DEF h
<1> DEFINE q == h \o r
<1>2a. PICK e, g : e = h /\ g = r
  OBVIOUS
<1>2b. /\ e \o g \in Seq(a) /\ Len(e \o g) = Len(e) + Len(g) /\ Len(g) \in Nat
       /\ DOMAIN (e \o g) = 1..Len(e) + Len(g)
       /\ \A k \in 1..Len(e) : (e \o g)[k] = e[k]
  <2>1. e \in Seq(a) /\ g \in Seq(a)
    BY <1>1, <1>2, <1>1a, <1>2a
  <2> QED BY <2>1, Joined
<1>3. /\ q \in Seq(S) /\ DOMAIN q = 1..(1 + n) + Len(r) /\ Len(r) \in Nat /\ Len(q) = (1 + n) + Len(r)
      /\ \A k \in 1..1 + n : q[k] = h[k]
  BY <1>2, <1>1a, <1>2a, <1>2b
<1> HIDE DEF q
<1>4. Format(m) = q
  BY DEF Format, q, h, f, p, r
<1>5. ASSUME NEW s \in 0..Chunks PROVE OpensAhead(q, s)
  <2>1. s + 1 \in 1..n /\ s + 2 = 1 + (s + 1) /\ s + 2 \in 1..1 + n /\ s + 2 \in DOMAIN q
    BY <1>3, ChunksAssumption
  <2>2. q[s + 2].ins = "auth" /\ q[s + 2].at = s
    <3>1. q[s + 2] = p[s + 1]
      BY <1>2, <1>3, <2>1
    <3>2. p[s + 1].ins = "auth" /\ p[s + 1].at = (s + 1) - 1
      BY <1>1, <2>1
    <3> QED BY <2>1, <3>1, <3>2
  <2>3. ASSUME NEW j \in 1..(s + 2) - 1 PROVE q[j].ins \notin {"write", "trailer"}
    <3>1. j \in 1..1 + n /\ (j = 1 \/ (j - 1 \in 1..n /\ j = 1 + (j - 1)))
      BY <2>1
    <3>2. CASE j = 1
      BY <1>2, <1>3, <3>1, <3>2
    <3>3. CASE j - 1 \in 1..n /\ j = 1 + (j - 1)
      <4>1. q[j] = p[j - 1]
        BY <1>2, <1>3, <3>1, <3>3
      <4> QED BY <1>1, <3>3, <4>1
    <3> QED BY <3>1, <3>2, <3>3
  <2> QED BY <2>1, <2>2, <2>3 DEF OpensAhead
<1>6. q # << >>
  BY <1>3, EmptySeq
<1> QED BY <1>3, <1>4, <1>5, <1>6 DEF FormatSafe, S

(* A write begins with a sequence of its stage's commands. *)
LEMMA WritingPlan ==
    ASSUME NEW c, NEW o, NEW h, NEW q \in Seq(May(Family(c.kind), "write")),
           Family(c.kind) = "page" => \E k \in DOMAIN q : q[k].ins = "write" /\ q[k].at = 1,
           o.req.force => FormatSafe(c, q)
    PROVE  Plan(c, "write", q, h, o)
<1>1. Issues(c, "write", q)
  BY MayIssue
<1>2. ~ReadsAt("write")
  BY DEF ReadsAt
<1> QED BY <1>1, <1>2 DEF Plan, Spoils

(* One sequence after another that is not empty. *)
LEMMA JoinedMay ==
    ASSUME NEW S, NEW p \in Seq(S), NEW q \in Seq(S), Len(p) # 0
    PROVE  p \o q \in Seq(S) /\ p \o q # << >>
<1>1. p \o q \in Seq(S) /\ Len(p) \in Nat /\ Len(q) \in Nat /\ Len(p \o q) = Len(p) + Len(q)
  BY Joined
<1>2. Len(p \o q) # 0
  BY <1>1
<1> QED BY <1>1, <1>2, EmptySeq

(* The look at the room alone. *)
LEMMA FitIs ==
    ASSUME NEW f \in {"page", "classic", "type4"}
    PROVE  <<Fit>> \in Seq(May(f, "write")) /\ Len(<<Fit>>) = 1
BY FitMay

(* A paged card's write has its first cell to write. *)
LEMMA PageWritePlan ==
    ASSUME NEW m \in Messages
    PROVE  LET q == <<ReadLock("static"), Fit>> \o WriteCells(m) IN
           /\ q \in Seq(May("page", "write")) /\ q # << >>
           /\ \E k \in DOMAIN q : q[k].ins = "write" /\ q[k].at = 1
<1> DEFINE S == May("page", "write")  a == ReadLock("static")  b == Fit
           p == <<a, b>>  w == WriteCells(m)
<1>1. a \in S
  <2>1. a \in Commands /\ a.ins = "readLock" /\ a.at = "static"
    BY LockTyped DEF ReadLock
  <2>2. "readLock" \in Issued("page", "write")
    BY DEF Issued, ReadsAt
  <2> QED BY <2>1, <2>2 DEF May
<1>2. b \in S
  BY FitMay
<1>3. w \in Seq(S) /\ Len(w) \in Nat \ {0} /\ w[1].ins = "write" /\ w[1].at = 1
  BY WriteCellsIs
<1> HIDE DEF S, a, b, w
<1>4. p \in Seq(S) /\ Len(p) = 2
  BY <1>1, <1>2
<1> HIDE DEF p
<1>5. PICK s, x, y : s = S /\ x = p /\ y = w
  OBVIOUS
<1>6. x \in Seq(s) /\ y \in Seq(s) /\ Len(x) = 2
  BY <1>3, <1>4, <1>5
<1>7. /\ x \o y \in Seq(s) /\ x \o y # << >>
      /\ DOMAIN (x \o y) = 1..Len(x) + Len(y)
      /\ \A k \in 1..Len(y) : (x \o y)[Len(x) + k] = y[k]
  <2>1. Len(x) # 0
    BY <1>6
  <2>2. x \o y \in Seq(s) /\ x \o y # << >>
    BY <1>6, <2>1, JoinedMay
  <2>3. x \in Seq(s) /\ y \in Seq(s)
    BY <1>6
  <2>4. /\ DOMAIN (x \o y) = 1..Len(x) + Len(y)
        /\ \A k \in 1..Len(y) : (x \o y)[Len(x) + k] = y[k]
    BY <2>3, Joined
  <2> QED BY <2>2, <2>4
<1>8. 1 \in 1..Len(y) /\ 2 + 1 \in 1..2 + Len(y)
  BY <1>3, <1>5
<1> DEFINE q == x \o y
<1>9. /\ q \in Seq(s) /\ q # << >> /\ DOMAIN q = 1..2 + Len(y)
      /\ q[2 + 1] = y[1]
  BY <1>6, <1>7, <1>8
<1> HIDE DEF q
<1>10. \E k \in DOMAIN q : q[k].ins = "write" /\ q[k].at = 1
  BY <1>3, <1>5, <1>8, <1>9
<1> QED BY <1>5, <1>9, <1>10 DEF q, p, a, b, w, S

(* A Classic's write. *)
LEMMA ClassicWriteMay ==
    ASSUME NEW m \in Messages
    PROVE  <<Fit>> \o WriteSectors(m) \in Seq(May("classic", "write")) /\ <<Fit>> \o WriteSectors(m) # << >>
<1>1. <<Fit>> \in Seq(May("classic", "write")) /\ Len(<<Fit>>) # 0
  BY FitIs
<1>2. WriteSectors(m) \in Seq(May("classic", "write"))
  BY WriteSectorsMay
<1> QED BY <1>1, <1>2, JoinedMay

(* A Type 4 write, its length cleared first and written last. *)
LEMMA ClearedWriteMay ==
    ASSUME NEW m \in Messages
    PROVE  ClearedWrite(m) \in Seq(May("type4", "write"))
<1> DEFINE S == May("type4", "write")
           a == Write(1, Blank)  b == [i \in 1..Len(m) |-> Write(i + 1, m)]  c == Write(1, m)
<1>0. Len(m) \in Nat
  BY LenMessage
<1>1. "write" \in Issued("type4", "write")
  BY DEF Issued, ReadsAt
<1>2. a \in S /\ c \in S
  BY <1>1, WriteTyped, NothingSaid DEF May
<1>3. \A i \in 1..Len(m) : Write(i + 1, m) \in S
  BY <1>0, <1>1, WriteTyped DEF May
<1> HIDE DEF S
<1>4. b \in [1..Len(m) -> S]
  BY <1>3
<1> HIDE DEF a, b, c
<1>5. b \in Seq(S)
  BY <1>0, <1>4, ListIs
<1>6. <<a>> \in Seq(S) /\ <<c>> \in Seq(S)
  BY <1>2
<1>7. <<a>> \o b \in Seq(S)
  BY <1>5, <1>6, ConcatProperties
<1>8. (<<a>> \o b) \o <<c>> \in Seq(S)
  BY <1>6, <1>7, ConcatProperties
<1> QED BY <1>8 DEF ClearedWrite, a, b, c, S

(* The same with its select and its room. *)
LEMMA Type4WriteMay ==
    ASSUME NEW m \in Messages
    PROVE  LET q == Select \o <<Fit>> \o ClearedWrite(m) IN q \in Seq(May("type4", "write")) /\ q # << >>
<1> DEFINE S == May("type4", "write")  a == Select  b == <<Fit>>  w == ClearedWrite(m)
<1>1. a \in Seq(S) /\ Len(a) # 0
  BY SelectIs DEF Select
<1>2. b \in Seq(S)
  BY FitIs
<1>3. w \in Seq(S)
  BY ClearedWriteMay
<1> HIDE DEF S, a, b, w
<1>4. PICK s, x, y, z : s = S /\ x = a /\ y = b /\ z = w
  OBVIOUS
<1>5. x \in Seq(s) /\ Len(x) # 0 /\ y \in Seq(s) /\ z \in Seq(s)
  BY <1>1, <1>2, <1>3, <1>4
<1>6. x \o y \in Seq(s) /\ Len(x \o y) # 0
  <2>1. x \o y \in Seq(s) /\ Len(x) \in Nat /\ Len(y) \in Nat /\ Len(x \o y) = Len(x) + Len(y)
    BY <1>5, Joined
  <2> QED BY <1>5, <2>1
<1>7. (x \o y) \o z \in Seq(s) /\ (x \o y) \o z # << >>
  BY <1>5, <1>6, JoinedMay
<1> QED BY <1>4, <1>7 DEF S, a, b, w

(* An attempt at a write begins with the commands of its driver (writeOnce). *)
LEMMA WriteOncePlan ==
    ASSUME card \in Cards, NEW c, c.kind = card.kind, NEW m \in Messages, NEW o, o.req = task.req,
           o.req.force => c.kind = "Classic"
    PROVE  Plan(c, "write", WriteOnce(m), << >>, o) /\ WriteOnce(m) # << >>
<1>1. Family(c.kind) \in {"page", "classic", "type4", "desfire"} /\ (c.kind = "Classic" <=> Family(c.kind) = "classic")
  BY Families
<1>2. CASE o.req.force
  <2>1. WriteOnce(m) = Format(m) /\ Family(c.kind) = "classic"
    BY <1>1, <1>2 DEF WriteOnce
  <2>2. PICK q : q = Format(m)
    OBVIOUS
  <2>3. q \in Seq(May("classic", "write")) /\ q # << >> /\ FormatSafe(c, q)
    BY <2>2, FormatPlan
  <2>4. Plan(c, "write", q, << >>, o)
    BY <2>1, <2>3, WritingPlan
  <2> QED BY <2>1, <2>2, <2>3, <2>4
<1>3. CASE ~o.req.force /\ Family(c.kind) = "page"
  <2>1. PICK q : q = <<ReadLock("static"), Fit>> \o WriteCells(m)
    OBVIOUS
  <2>2. WriteOnce(m) = q
    BY <1>3, <2>1 DEF WriteOnce, WriteData
  <2>3. /\ q \in Seq(May("page", "write")) /\ q # << >>
        /\ \E k \in DOMAIN q : q[k].ins = "write" /\ q[k].at = 1
    BY <2>1, PageWritePlan
  <2> QED BY <1>3, <2>2, <2>3, WritingPlan
<1>4. CASE ~o.req.force /\ Family(c.kind) = "classic"
  <2>1. PICK q : q = <<Fit>> \o WriteSectors(m)
    OBVIOUS
  <2>2. WriteOnce(m) = q
    BY <1>4, <2>1 DEF WriteOnce, WriteData
  <2>3. q \in Seq(May("classic", "write")) /\ q # << >>
    BY <2>1, ClassicWriteMay
  <2> QED BY <1>4, <2>2, <2>3, WritingPlan
<1>5. CASE ~o.req.force /\ Family(c.kind) = "type4"
  <2>1. PICK q : q = Select \o <<Fit>> \o ClearedWrite(m)
    OBVIOUS
  <2>2. WriteOnce(m) = q
    BY <1>5, <2>1 DEF WriteOnce, WriteData
  <2>3. q \in Seq(May("type4", "write")) /\ q # << >>
    BY <2>1, Type4WriteMay
  <2> QED BY <1>5, <2>2, <2>3, WritingPlan
<1>6. CASE ~o.req.force /\ Family(c.kind) = "desfire"
  <2>1. PICK q : q = Probe
    OBVIOUS
  <2>2. WriteOnce(m) = q
    BY <1>6, <2>1 DEF WriteOnce, WriteData
  <2>3. q \in Seq(May("desfire", "write")) /\ q # << >>
    BY <2>1, ProbeIs DEF Stages
  <2> QED BY <1>6, <2>2, <2>3, WritingPlan
<1> QED BY <1>1, <1>2, <1>3, <1>4, <1>5, <1>6

(* Lock bytes are read before they are set. *)
LEMMA LockBytesIs ==
    ASSUME NEW which \in {"static", "dynamic"}
    PROVE  /\ LockBytes(which) \in Seq(May("page", "lock")) /\ Len(LockBytes(which)) = 2
           /\ LockBytes(which)[1].ins = "readLock"
           /\ LockBytes(which)[2].ins = "setLock" /\ LockBytes(which)[2].at = which
<1> DEFINE a == ReadLock(which)  b == [ins |-> "setLock", at |-> which]
<1>1. a \in Commands /\ a.ins = "readLock" /\ b \in Commands /\ b.ins = "setLock" /\ b.at = which
  BY LockTyped DEF ReadLock
<1>2. {"readLock", "setLock"} \subseteq Issued("page", "lock")
  BY DEF Issued, ReadsAt
<1>3. a \in May("page", "lock") /\ b \in May("page", "lock")
  BY <1>1, <1>2 DEF May
<1>4. LockBytes(which) = <<a, b>>
  BY DEF LockBytes
<1> HIDE DEF a, b
<1> QED BY <1>1, <1>3, <1>4

(* A lock begins with every lock byte there is to set, the static ones last, or with
   the probe of the file (MakeReadOnly of each driver). *)
LEMMA LockPlan ==
    ASSUME card \in Cards, CanLock, NEW c, c.kind = card.kind, NEW o
    PROVE  Plan(c, "lock", MakeReadOnly, << >>, o) /\ MakeReadOnly # << >>
<1>1. ~ReadsAt("lock")
  BY DEF ReadsAt
<1>2. ASSUME NEW q \in Seq(May(Family(c.kind), "lock")), Locks(c, q) PROVE Plan(c, "lock", q, << >>, o)
  <2>1. Issues(c, "lock", q)
    BY <1>2, MayIssue
  <2> QED BY <1>1, <1>2, <2>1 DEF Plan, Spoils
<1>3. CASE Family(c.kind) = "desfire"
  <2>1. MakeReadOnly = Probe
    BY <1>3 DEF MakeReadOnly
  <2>2. Probe \in Seq(May("desfire", "lock")) /\ Probe # << >> /\ DesfireLocks(Probe)
    BY ProbeIs DEF Stages
  <2> QED BY <1>2, <1>3, <2>1, <2>2 DEF Locks
<1>4. CASE Family(c.kind) = "page" /\ HasDynamic(c.kind)
  <2> DEFINE S == May("page", "lock")
  <2>1. PICK x, y : x = LockBytes("dynamic") /\ y = LockBytes("static")
    OBVIOUS
  <2>2. /\ x \in Seq(S) /\ Len(x) = 2 /\ x[1].ins = "readLock" /\ x[2].ins = "setLock" /\ x[2].at = "dynamic"
        /\ y \in Seq(S) /\ Len(y) = 2 /\ y[1].ins = "readLock" /\ y[2].ins = "setLock" /\ y[2].at = "static"
    BY <2>1, LockBytesIs
  <2>3. PICK q : q = x \o y
    OBVIOUS
  <2>4. MakeReadOnly = q
    BY <1>4, <2>1, <2>3 DEF MakeReadOnly
  <2> HIDE DEF S
  <2>5. /\ q \in Seq(S) /\ q # << >> /\ DOMAIN q = 1..2 + 2
        /\ q[1] = x[1] /\ q[2] = x[2] /\ q[2 + 1] = y[1] /\ q[2 + 2] = y[2]
    <3>1. x \in Seq(S) /\ y \in Seq(S) /\ Len(x) = 2 /\ Len(y) = 2 /\ Len(x) # 0
      BY <2>2
    <3>2. q \in Seq(S) /\ q # << >>
      BY <2>3, <3>1, JoinedMay
    <3>3. x \in Seq(S) /\ y \in Seq(S)
      BY <3>1
    <3>4. /\ DOMAIN (x \o y) = 1..Len(x) + Len(y)
          /\ \A k \in 1..Len(x) : (x \o y)[k] = x[k]
          /\ \A k \in 1..Len(y) : (x \o y)[Len(x) + k] = y[k]
      BY <3>3, Joined
    <3> HIDE DEF S
    <3> QED BY <2>3, <3>1, <3>2, <3>4
  <2>6. /\ DOMAIN q = {1, 2, 3, 4}
        /\ q[1].ins = "readLock" /\ q[3].ins = "readLock"
        /\ q[2].ins = "setLock" /\ q[2].at = "dynamic" /\ q[4].ins = "setLock" /\ q[4].at = "static"
    BY <2>2, <2>5
  <2>7. PageLocks(c, q)
    <3>1. Sets(q, 4, "static") /\ Sets(q, 2, "dynamic")
      BY <2>6 DEF Sets
    <3>2. \A k \in DOMAIN q : (Sets(q, k, "static") => k = 4) /\ (Sets(q, k, "dynamic") => k = 2)
      BY <2>6 DEF Sets
    <3>3. \A j, k \in DOMAIN q : Sets(q, j, "static") /\ Sets(q, k, "dynamic") => k < j
      BY <3>2
    <3> QED BY <1>4, <2>6, <3>1, <3>3 DEF PageLocks
  <2>8. Plan(c, "lock", q, << >>, o)
    BY <1>2, <1>4, <2>5, <2>7 DEF Locks, S
  <2> QED BY <2>4, <2>5, <2>8
<1>5. CASE Family(c.kind) = "page" /\ ~HasDynamic(c.kind)
  <2>1. c.kind = "Ultralight"
    <3>1. card \in PageCards
      BY <1>5, Families
    <3> QED BY <1>5, <3>1 DEF PageCards, HasDynamic, Ultralights, CanLock
  <2>2. PICK q : q = LockBytes("static")
    OBVIOUS
  <2>3. MakeReadOnly = q
    BY <1>5, <2>2 DEF MakeReadOnly
  <2>4. /\ q \in Seq(May("page", "lock")) /\ Len(q) = 2 /\ q[1].ins = "readLock"
        /\ q[2].ins = "setLock" /\ q[2].at = "static"
    BY <2>2, LockBytesIs
  <2>5. DOMAIN q = {1, 2} /\ q # << >>
    <3>1. q \in Seq(May("page", "lock")) /\ Len(q) = 2
      BY <2>4
    <3>2. DOMAIN q = 1..Len(q)
      BY <3>1, LenProperties
    <3>3. Len(q) # 0
      BY <3>1
    <3>4. q # << >>
      BY <3>3, EmptySeq
    <3> QED BY <3>1, <3>2, <3>4
  <2>6. PageLocks(c, q)
    <3>1. Sets(q, 2, "static")
      BY <2>4, <2>5 DEF Sets
    <3>2. \A k \in DOMAIN q : ~Sets(q, k, "dynamic")
      BY <2>4, <2>5 DEF Sets
    <3> QED BY <1>5, <2>1, <2>5, <3>1, <3>2 DEF PageLocks
  <2>7. Plan(c, "lock", q, << >>, o)
    BY <1>2, <1>5, <2>4, <2>6 DEF Locks
  <2> QED BY <2>3, <2>5, <2>7
<1> QED BY <1>3, <1>4, <1>5 DEF CanLock

-----------------------------------------------------------------------------
(* The choices *)

(* A look at the room keeps every sector still to open. *)
LEMMA FitKeeps ==
    ASSUME Busy, stage = "write", task.req.force, Head(todo).ins = "fit"
    PROVE  FormatSafe(card, Tail(todo))
<1>1. FormatSafe(card, todo)
  BY DEF Busy, Plan
<1>3. ASSUME NEW s \in 0..Chunks, ~Opens(card.trailers[s]) PROVE OpensAhead(Tail(todo), s)
  <2>1. PICK k \in DOMAIN todo : /\ todo[k].ins = "auth" /\ todo[k].at = s
                                 /\ \A j \in 1..k - 1 : todo[j].ins \notin {"write", "trailer"}
    BY <1>1, <1>3 DEF FormatSafe, OpensAhead
  <2>2. k # 1
    BY <2>1, BusyBasics
  <2>3. PICK n \in Nat \ {0} : n = Len(todo)
    BY BusyBasics, TailIs
  <2>4. /\ DOMAIN todo = 1..n /\ DOMAIN Tail(todo) = 1..n - 1
        /\ \A i \in 1..n - 1 : i + 1 \in 1..n /\ Tail(todo)[i] = todo[i + 1]
    BY <2>3, BusyBasics, TailIs
  <2>5. k - 1 \in 1..n - 1 /\ Tail(todo)[k - 1] = todo[k]
    BY <2>1, <2>2, <2>4
  <2>6. \A j \in 1..(k - 1) - 1 : j \in 1..n - 1 /\ j + 1 \in 1..k - 1
    BY <2>4
  <2>7. \A j \in 1..(k - 1) - 1 : Tail(todo)[j].ins \notin {"write", "trailer"}
    BY <2>1, <2>4, <2>6
  <2> QED BY <2>1, <2>4, <2>5, <2>7 DEF OpensAhead
<1> QED BY <1>3 DEF FormatSafe

(* The look at the room, and what it decides (Fitted). *)
LEMMA FitGoes ==
    ASSUME Busy, Head(todo).ins = "fit"
    PROVE  Good(Fitted, card)
<1>1. stage = "write" /\ ~ReadsAt(stage)
  <2>1. Family(card.kind) \in {"page", "classic", "type4", "desfire"}
    BY BusyBasics, Families
  <2>2. "fit" \in Issued(Family(card.kind), stage)
    BY BusyBasics
  <2>3. ~ReadsAt(stage)
    BY <2>1, <2>2 DEF Issued
  <2>4. stage = "lock" => Family(card.kind) \in {"page", "desfire"}
    BY DEF Busy, Plan, Locks
  <2>5. stage # "lock"
    BY <2>1, <2>2, <2>3, <2>4 DEF Issued
  <2> QED BY <2>3, <2>5, BusyBasics
<1>2. Standing(card, drv)
  BY Unmoved
<1>3. CASE ~TooLarge
  <2>1. Fitted = Onward(drv, Tail(todo))
    BY <1>3 DEF Fitted
  <2>2. Spoils(card, stage, Tail(todo))
    <3>1. CASE Family(card.kind) = "page"
      BY <3>1, PageSpoils
    <3>2. CASE Family(card.kind) # "page"
      BY <3>2 DEF Spoils
    <3> QED BY <3>1, <3>2
  <2>3. task.req.force => FormatSafe(card, Tail(todo))
    BY <1>1, FitKeeps
  <2> QED BY <1>1, <1>2, <2>1, <2>2, <2>3, OnwardGoes
<1>4. CASE TooLarge
  <2>1. Fitted \in {EndsWith(drv, heard, "capacity"), EndsWith(drv, heard, "failed")}
    BY <1>4 DEF Fitted
  <2>2. Good(EndsWith(drv, heard, "capacity"), card) /\ Good(EndsWith(drv, heard, "failed"), card)
    BY <1>2, FailingGoes
  <2> QED BY <2>1, <2>2
<1> QED BY <1>3, <1>4

(* What an entry and the commands behind it come to. *)
LEMMA EnteredIs ==
    ASSUME NEW S, NEW p \in Seq(S), NEW q \in Seq(S), Len(q) \in Nat \ {0}, NEW r, r = p \o q
    PROVE  r \in Seq(S) /\ r # << >> /\ r[Len(r)] = q[Len(q)]
<1>1. /\ r \in Seq(S) /\ Len(p) \in Nat /\ Len(r) = Len(p) + Len(q)
      /\ \A k \in 1..Len(q) : r[Len(p) + k] = q[k]
  BY Joined
<1>2. Len(r) # 0 /\ Len(q) \in 1..Len(q)
  BY <1>1
<1>3. r # << >>
  BY <1>2, EmptySeq
<1> QED BY <1>1, <1>2, <1>3

(* A session is opened before the commands that need it (Entry). *)
LEMMA EntryIs ==
    ASSUME NEW st \in Stages, NEW right, NEW cmds \in Seq(May("desfire", st))
    PROVE  \E p \in Seq(May("desfire", st)) :
              /\ Entry(right, cmds) = p \o cmds
              /\ \A k \in DOMAIN p : p[k].ins \in {"auth1", "auth2"}
<1> DEFINE a == [ins |-> "auth1"]  b == [ins |-> "auth2"]
<1>0. a \in May("desfire", st) /\ b \in May("desfire", st)
  <2>1. a \in Commands /\ a.ins = "auth1" /\ b \in Commands /\ b.ins = "auth2"
    BY PlainTyped
  <2>2. {"auth1", "auth2"} \subseteq Issued("desfire", st)
    BY DEF Issued
  <2> HIDE DEF a, b
  <2> QED BY <2>1, <2>2 DEF May
<1> PICK S : S = May("desfire", st)
  OBVIOUS
<1>1. << >> \in Seq(S) /\ << >> \o cmds = cmds /\ \A k \in DOMAIN << >> : FALSE
  <2>1. << >> \in Seq(S) /\ << >> \o cmds = cmds
    BY EmptySeq, ConcatEmptySeq
  <2>2. \A k \in DOMAIN << >> : FALSE
    OBVIOUS
  <2> QED BY <2>1, <2>2
<1>2. Entry(right, cmds) \in {cmds, << >> \o cmds, <<a, b>> \o cmds}
  BY DEF Entry, InSession
<1>3. a.ins = "auth1" /\ b.ins = "auth2"
  OBVIOUS
<1>3a. a \in S /\ b \in S
  BY <1>0
<1> HIDE DEF a, b
<1>4. <<a, b>> \in Seq(S) /\ \A k \in DOMAIN <<a, b>> : <<a, b>>[k].ins \in {"auth1", "auth2"}
  <2>1. <<a, b>> \in Seq(S) /\ DOMAIN <<a, b>> = 1..2 /\ <<a, b>>[1] = a /\ <<a, b>>[2] = b
    BY <1>3a
  <2>2. \A k \in 1..2 : k = 1 \/ k = 2
    OBVIOUS
  <2> QED BY <1>3, <2>1, <2>2
<1>5. CASE Entry(right, cmds) = << >> \o cmds
  BY <1>1, <1>5
<1>6. CASE Entry(right, cmds) = <<a, b>> \o cmds
  BY <1>4, <1>6
<1> QED BY <1>1, <1>2, <1>5, <1>6

(* A choice goes on to the commands it chose. *)
LEMMA OnwardTo ==
    ASSUME Busy, NEW q, q # << >>, Plan(card, stage, q, heard, task)
    PROVE  Good(Onward(drv, q), card)
<1>1. /\ Onward(drv, q).drv = drv /\ Onward(drv, q).todo = q
      /\ Onward(drv, q).heard = heard /\ Onward(drv, q).end = "none"
  BY DEF Onward
<1> QED BY <1>1, Unmoved DEF Good

(* The DESFire driver's choice: a read, a write or a lock goes in the session its right
   asks for, and is refused where the right is not the agent's (Entered). *)
LEMMA EnterGoes ==
    ASSUME Busy, Head(todo).ins = "enter"
    PROVE  Good(Entered, card)
<1>1. Family(card.kind) = "desfire"
  <2>1. Family(card.kind) \in {"page", "classic", "type4", "desfire"}
    BY BusyBasics, Families
  <2>2. "enter" \in Issued(Family(card.kind), stage)
    BY BusyBasics
  <2> QED BY <2>1, <2>2 DEF Issued
<1>2. Standing(card, drv) /\ card \in DESFireCards
  BY <1>1, Unmoved, DesfireIssues
<1>3. Good(EndsWith(drv, heard, "failed"), card) /\ Good(EndsWith(drv, heard, "capacity"), card)
      /\ Good(EndsWith(drv, heard, "notSupported"), card)
  BY <1>2, FailingGoes
<1>4. DriverOK(card, drv) /\ (drv.probed => drv.rights \in Rights) /\ drv.held \in BOOLEAN
  BY DEF Busy, DriverOK
<1>5. stage \in Stages
  BY BusyBasics DEF Stages
<1>6. CASE Reading
  <2>1. ReadsAt(stage) /\ stage \in {"resolve", "verify"}
    BY <1>6, BusyBasics
  <2>1a. stage # "write" /\ stage # "lock"
    BY <2>1
  <2>2. CASE drv.probed /\ ~Mine("read")
    BY <1>3, <1>6, <2>1a, <2>2 DEF Entered
  <2>3. CASE ~(drv.probed /\ ~Mine("read"))
    <3>1. Entered = Onward(drv, Entry("read", ReadCells))
      BY <1>6, <2>1a, <2>3 DEF Entered
    <3>2. PICK cells \in Seq(May("desfire", stage)) : cells = ReadCells
      BY <2>1, ReadCellsIs, ListIs
    <3>3. PICK p \in Seq(May("desfire", stage)) :
             Entry("read", cells) = p \o cells /\ \A k \in DOMAIN p : p[k].ins \in {"auth1", "auth2"}
      BY <1>5, EntryIs, Zenon
    <3>4. PICK q : q = p \o cells
      OBVIOUS
    <3>5. p \in Seq(Commands) /\ cells \in Seq(Commands)
      BY SeqMonotonic DEF May
    <3>6. InOrder(cells, 0)
      BY <3>2, ReadCellsIs
    <3>7. InOrder(q, 0)
      BY <3>3, <3>4, <3>5, <3>6, PrefixOrder
    <3>8. /\ q \in Seq(May("desfire", stage)) /\ Len(p) \in Nat /\ Len(q) = Len(p) + Len(cells)
          /\ DOMAIN q = 1..Len(p) + Len(cells) /\ DOMAIN p = 1..Len(p) /\ DOMAIN cells = 1..Len(cells)
          /\ \A k \in 1..Len(p) + Len(cells) : \/ k \in 1..Len(p) /\ q[k] = p[k]
                                               \/ k - Len(p) \in 1..Len(cells) /\ q[k] = cells[k - Len(p)]
      BY <3>4, Joined, LenProperties
    <3>9. Len(cells) = Chunks /\ Chunks \in Nat \ {0} /\ \A k \in 1..Chunks : cells[k].ins = "read"
      BY <3>2, ReadCellsIs, ListIs
    <3>10. \A k \in DOMAIN q : q[k].ins # "enter"
      BY <3>3, <3>8, <3>9
    <3>11. Len(q) # 0
      BY <3>8, <3>9
    <3>12. q # << >>
      BY <3>11, EmptySeq
    <3>13. heard = << >>
      BY <2>1, BusyBasics DEF Busy, Plan, ReadsTrue
    <3>14. Plan(card, stage, q, << >>, task)
      BY <1>1, <2>1, <3>7, <3>8, <3>10, ReadingPlan
    <3>15. Entered = Onward(drv, q)
      BY <3>1, <3>2, <3>3, <3>4
    <3> QED BY <3>12, <3>13, <3>14, <3>15, OnwardTo
  <2> QED BY <2>2, <2>3
<1>7. CASE stage = "write"
  <2>0. ~Reading
    BY <1>7 DEF Reading
  <2>1. CASE drv.probed /\ ~Mine("write")
    <3>1. Entered = EndsWith(drv, heard, "readOnly")
      BY <1>7, <2>0, <2>1 DEF Entered
    <3>2. drv.rights.write = "never" \/ ~drv.held
      BY <1>4, <2>1 DEF Mine, Rights
    <3>3. card.rights.write = "never" \/ ~drv.held
      BY <1>1, <1>4, <2>1, <3>2 DEF DriverOK
    <3>4. Concluded(card, drv, "readOnly", heard)
      BY <1>1, <1>7, <3>3 DEF Concluded, Ends, Whole
    <3> QED BY <1>2, <3>1, <3>4, EndsForm DEF Good
  <2>2. CASE ~(drv.probed /\ ~Mine("write")) /\ drv.probed /\ TooLarge
    BY <1>3, <1>7, <2>0, <2>2 DEF Entered
  <2>3. CASE ~(drv.probed /\ ~Mine("write")) /\ ~(drv.probed /\ TooLarge)
    <3>1. Entered = Onward(drv, Entry("write", WriteCells(task.data)))
      BY <1>7, <2>0, <2>3 DEF Entered
    <3>2. task.data \in Messages
      BY DEF Busy, TaskOK
    <3>3. PICK cells \in Seq(May("desfire", "write")) : cells = WriteCells(task.data) /\ Len(cells) \in Nat \ {0}
      BY <3>2, WriteCellsIs
    <3>4. PICK p \in Seq(May("desfire", "write")) : Entry("write", cells) = p \o cells
      BY <1>5, <1>7, EntryIs
    <3>5. PICK q : q = p \o cells
      OBVIOUS
    <3>6. q \in Seq(May("desfire", "write")) /\ q # << >>
      BY <3>3, <3>5, EnteredIs
    <3>9. Plan(card, stage, q, heard, task)
      BY <1>1, <1>7, <3>6, NotForced, WritingPlan
    <3> QED BY <3>1, <3>3, <3>4, <3>5, <3>6, <3>9, OnwardTo
  <2> QED BY <2>1, <2>2, <2>3
<1>8. CASE stage = "lock"
  <2>0. ~Reading
    BY <1>8 DEF Reading
  <2>1. CASE ~drv.probed \/ ~Mine("change")
    BY <1>3, <1>8, <2>0, <2>1 DEF Entered
  <2>2. CASE ~(~drv.probed \/ ~Mine("change"))
    <3>1. Entered = Onward(drv, Entry("change", Change))
      BY <1>8, <2>0, <2>2 DEF Entered
    <3>2. PICK x \in May("desfire", "lock") : Change = <<x>> /\ x.ins \in {"cannot", "change"}
      <4>1. /\ [ins |-> "cannot"] \in Commands /\ [ins |-> "cannot"].ins = "cannot"
            /\ [ins |-> "change"] \in Commands /\ [ins |-> "change"].ins = "change"
        BY PlainTyped
      <4>2. {"cannot", "change"} \subseteq Issued("desfire", "lock")
        BY DEF Issued, ReadsAt
      <4>3. [ins |-> "cannot"] \in May("desfire", "lock") /\ [ins |-> "change"] \in May("desfire", "lock")
        BY <4>1, <4>2 DEF May
      <4>4. Change = <<[ins |-> "cannot"]>> \/ Change = <<[ins |-> "change"]>>
        BY DEF Change, Cannot
      <4> QED BY <4>1, <4>3, <4>4
    <3>3. PICK cells \in Seq(May("desfire", "lock")) : cells = Change /\ Len(cells) = 1 /\ cells[1] = x
      <4>1. PICK S : S = May("desfire", "lock")
        OBVIOUS
      <4>2. x \in S
        BY <4>1
      <4>3. <<x>> \in Seq(S) /\ Len(<<x>>) = 1 /\ <<x>>[1] = x
        BY <4>2
      <4> QED BY <3>2, <4>1, <4>3
    <3>4. PICK p \in Seq(May("desfire", "lock")) : Entry("change", cells) = p \o cells
      BY <1>5, <1>8, EntryIs
    <3>5. PICK q : q = p \o cells
      OBVIOUS
    <3>6. Len(cells) \in Nat \ {0} /\ cells[Len(cells)] = x
      BY <3>3
    <3>7. q \in Seq(May("desfire", "lock")) /\ q # << >> /\ q[Len(q)] = x
      BY <3>5, <3>6, EnteredIs
    <3>9. DesfireLocks(q)
      BY <3>2, <3>7 DEF DesfireLocks
    <3>10. Plan(card, stage, q, heard, task)
      <4>1. Issues(card, "lock", q)
        BY <1>1, <3>7, MayIssue
      <4>2. ~ReadsAt("lock")
        BY DEF ReadsAt
      <4> QED BY <1>1, <1>8, <3>9, <4>1, <4>2 DEF Plan, Spoils, Locks
    <3> QED BY <3>1, <3>3, <3>4, <3>5, <3>7, <3>10, OnwardTo
  <2> QED BY <2>1, <2>2
<1> QED BY <1>6, <1>7, <1>8, BusyBasics

(* What the driver does not implement fails. *)
LEMMA CannotGoes ==
    ASSUME Busy
    PROVE  Good(EndsWith(drv, heard, "failed"), card)
BY Unmoved, FailingGoes

-----------------------------------------------------------------------------
(* What follows a stage *)

(* The parts of an operation under way. *)
LEMMA TaskTyped ==
    ASSUME Busy
    PROVE  /\ task \in [req : Operations, data : Messages, attempt : Nat, sure : BOOLEAN, from : Int, sound : BOOLEAN]
           /\ task.req \in Operations
           /\ task.req.kind \in {"write", "lock"} /\ task.req.msg \in Messages /\ task.req.lock \in BOOLEAN
           /\ task.req.verify \in BOOLEAN
           /\ task.req.attempts \in Nat \ {0} /\ task.req.msg \notin {Blank, Garbage}
           /\ task.data \in Messages /\ task.attempt \in Nat /\ task.sure \in BOOLEAN /\ task.from \in Int
           /\ task.sound \in BOOLEAN
           /\ task.req.force => card.kind = "Classic"
BY DEF Busy, TaskOK, Operations

(* A report that is so ends the operation (Report). *)
LEMMA ReportGoes ==
    ASSUME Busy, faults' \in Nat, Standing(card', drv'),
           NEW result \in Ends \cup {"success", "notLocked"}, NEW m \in Messages,
           NEW sure \in BOOLEAN, NEW locked \in BOOLEAN,
           Report(result, m, sure, locked),
           sure => Holds(card', m),
           locked => Whole(card') \/ (Family(card'.kind) = "page" /\ card'.corrupt /\ ~sure),
           result = "readOnly" => Whole(card') \/ (Family(card'.kind) = "desfire" /\ ~drv'.held)
    PROVE  WriteInv'
<1> PICK fits \in BOOLEAN : fits = ~TooLarge
  BY DEF TooLarge
<1>1. /\ stage' = "idle" /\ todo' = << >>
      /\ last' = [kind |-> task.req.kind, result |-> result, data |-> m, sure |-> sure, locked |-> locked,
                  attempts |-> task.req.attempts, met |-> faults' - task.from, fits |-> fits, sound |-> task.sound]
  BY DEF Report
<1>2. last' \in Words
  <2>1. faults' - task.from \in Int
    BY TaskTyped
  <2>2. task.req.attempts \in Nat /\ task.req.kind \in {"write", "lock"} /\ task.sound \in BOOLEAN
    BY TaskTyped
  <2> QED BY <1>1, <2>1, <2>2 DEF Words
<1>3. last'.sure = sure /\ last'.data = m /\ last'.locked = locked /\ last'.result = result
  BY <1>1
<1>4. WhollyLocked' <=> Whole(card')
  BY DEF WhollyLocked, Whole
<1>5. ReportedIsThere'
  <2>1. VerifiedIsThere'
    BY <1>3 DEF VerifiedIsThere, Holds
  <2>2. LockIsTrue'
    BY <1>3, <1>4 DEF LockIsTrue
  <2> QED BY <2>1, <2>2 DEF ReportedIsThere
<1>6. CardOK(card') /\ DriverOK(card', drv')
  BY DEF Standing
<1> QED BY <1>1, <1>2, <1>5, <1>6 DEF WriteInv

(* A write reported a success, or one reported not locked. *)
LEMMA TellGoes ==
    ASSUME Busy, faults' \in Nat, Standing(card', drv'), NEW result \in {"success", "notLocked"},
           NEW sure \in BOOLEAN, Report(result, task.data, sure, FALSE), sure => Holds(card', task.data)
    PROVE  WriteInv'
<1>0. task.data \in Messages /\ result \in Ends \cup {"success", "notLocked"} /\ result # "readOnly"
  BY TaskTyped
<1>1. CASE sure = TRUE
  <2>1. Report(result, task.data, TRUE, FALSE) /\ Holds(card', task.data)
    BY <1>1
  <2> QED BY <1>0, <2>1, ReportGoes
<1>2. CASE sure = FALSE
  <2>1. Report(result, task.data, FALSE, FALSE)
    BY <1>2
  <2> QED BY <1>0, <2>1, ReportGoes
<1> QED BY <1>1, <1>2

(* A stage that starts with a plan goes on (Starts). *)
LEMMA StartsGoes ==
    ASSUME last = NoWord, faults' \in Nat, Standing(card', drv'),
           NEW name \in Stages, NEW cmds, NEW o, Starts(name, cmds, o),
           cmds # << >>, TaskOK(card', name, o), Plan(card', name, cmds, << >>, o)
    PROVE  WriteInv'
<1>1. /\ stage' = name /\ todo' = cmds /\ heard' = << >> /\ task' = o /\ last' = NoWord
  BY DEF Starts
<1>2. CardOK(card') /\ DriverOK(card', drv')
  BY DEF Standing
<1>3. name \in {"idle", "resolve", "write", "verify", "lock"} /\ name # "idle"
  BY DEF Stages
<1> QED BY <1>1, <1>2, <1>3 DEF WriteInv

(* A retry writes the same message again, or gives up (Retry). *)
LEMMA RetryGoes ==
    ASSUME Busy, last = NoWord, faults' \in Nat, Standing(card', drv'), stage \in {"write", "verify"}, Retry
    PROVE  WriteInv'
<1>0. /\ task.data \notin {Blank, Garbage} /\ TaskOK(card', stage, task) /\ card'.kind = card.kind
      /\ card \in Cards
  BY BusyBasics DEF Busy, TaskOK, Standing
<1>1. CASE task.attempt < task.req.attempts
  <2>1. PICK o : o = [task EXCEPT !.attempt = @ + 1]
    OBVIOUS
  <2>2. Starts("write", WriteOnce(task.data), o)
    BY <1>1, <2>1 DEF Retry
  <2>3. /\ o \in [req : Operations, data : Messages, attempt : Nat, sure : BOOLEAN, from : Int, sound : BOOLEAN]
        /\ o.req = task.req /\ o.data = task.data
    BY <2>1, TaskTyped
  <2>4. TaskOK(card', "write", o)
    BY <1>0, <2>3 DEF TaskOK
  <2>5. Plan(card', "write", WriteOnce(task.data), << >>, o) /\ WriteOnce(task.data) # << >>
    <3>1. o.req.force => card'.kind = "Classic"
      BY <2>4 DEF TaskOK
    <3> QED BY <1>0, <2>3, <3>1, TaskTyped, WriteOncePlan
  <2>6. "write" \in Stages
    BY DEF Stages
  <2> QED BY <2>2, <2>4, <2>5, <2>6, StartsGoes
<1>2. CASE ~(task.attempt < task.req.attempts)
  <2>1. Report("failed", task.data, FALSE, FALSE)
    BY <1>2 DEF Retry
  <2> QED BY <2>1, TaskTyped, ReportGoes DEF Ends
<1> QED BY <1>1, <1>2

(* A write that succeeded is reported, or locked after (Succeed). *)
LEMMA SucceedGoes ==
    ASSUME Busy, last = NoWord, faults' \in Nat, Standing(card', drv'), stage \in {"write", "verify"},
           NEW sure \in BOOLEAN, Succeed(sure),
           sure => Holds(card', task.data) /\ (Family(card'.kind) = "page" => ~card'.corrupt)
    PROVE  WriteInv'
<1>0. TaskOK(card', stage, task) /\ card'.kind = card.kind /\ card \in Cards
  BY BusyBasics DEF Busy, Standing
<1>1. CASE ~task.req.lock
  <2>1. Report("success", task.data, sure, FALSE)
    BY <1>1 DEF Succeed
  <2> QED BY <2>1, TellGoes
<1>2. CASE task.req.lock /\ ~CanLock
  <2>1. Report("notLocked", task.data, sure, FALSE)
    BY <1>2 DEF Succeed
  <2> QED BY <2>1, TellGoes
<1>3. CASE task.req.lock /\ CanLock
  <2>1. PICK o : o = [task EXCEPT !.sure = sure]
    OBVIOUS
  <2>2. Starts("lock", MakeReadOnly, o)
    BY <1>3, <2>1 DEF Succeed
  <2>3. /\ o \in [req : Operations, data : Messages, attempt : Nat, sure : BOOLEAN, from : Int, sound : BOOLEAN]
        /\ o.req = task.req /\ o.data = task.data /\ o.sure = sure
    BY <2>1, TaskTyped
  <2>4. TaskOK(card', "lock", o)
    BY <1>0, <2>3 DEF TaskOK
  <2>5. Plan(card', "lock", MakeReadOnly, << >>, o) /\ MakeReadOnly # << >>
    BY <1>0, <1>3, LockPlan
  <2>6. "lock" \in Stages
    BY DEF Stages
  <2> QED BY <2>2, <2>4, <2>5, <2>6, StartsGoes
<1> QED BY <1>1, <1>2, <1>3, TaskTyped

(* What a read finds is a message. *)
LEMMA FoundTyped ==
    ASSUME NEW h \in Seq(Messages)
    PROVE  Found(h) \in Messages
<1>1. CASE h = << >>
  BY <1>1, NothingSaid DEF Found
<1>2. CASE h # << >>
  <2>1. Head(h) \in Messages
    BY <1>2
  <2> QED BY <2>1, NothingSaid DEF Found
<1> QED BY <1>1, <1>2

(* A message found is in every cell that it fills (Found). *)
LEMMA FoundHolds ==
    ASSUME NEW c, NEW h, HeardSoFar(c, h), Found(h) \notin {Blank, Garbage}
    PROVE  Holds(c, Found(h)) /\ c.cells[1] = Found(h)
<1>1. h \in Seq(Messages) /\ h # << >>
  BY DEF HeardSoFar, Found
<1>2. /\ Found(h) = Head(h) /\ ~(Len(h) < Need(Head(h)))
      /\ \A i \in 1..Need(Head(h)) : h[i] = Head(h)
  BY DEF Found
<1>3. Head(h) \in Messages /\ Len(h) \in Nat
  BY <1>1, LenProperties
<1>4. Need(Head(h)) \in Nat \ {0}
  BY <1>3, LenMessage
<1>5. \A i \in 1..Need(Head(h)) : i \in 1..Len(h)
  BY <1>2, <1>3, <1>4
<1>6. \A i \in 1..Need(Head(h)) : c.cells[i] = Head(h)
  BY <1>2, <1>5 DEF HeardSoFar
<1>7. 1 \in 1..Need(Head(h))
  BY <1>4
<1> QED BY <1>2, <1>6, <1>7 DEF Holds

(* A message appended to, or put in place of the first record, is one the caller could
   have asked for (Merge). *)
LEMMA MergedIs ==
    ASSUME Busy, NEW old \in Messages, old # Blank
    PROVE  Merge(old) \in Messages \ {Blank, Garbage}
<1> PICK m \in Messages : m = task.req.msg
  BY TaskTyped
<1> DEFINE S == Records \cup {"garbage"}
<1>1. m \in Seq(S) /\ old \in Seq(S) /\ m # << >> /\ old # << >> /\ m # <<"garbage">>
  BY TaskTyped DEF Messages, Blank, Garbage
<1> HIDE DEF S
<1>2. Len(m) \in Nat \ {0} /\ Len(old) \in Nat \ {0}
  BY <1>1, EmptySeq
<1>3. CASE task.req.replace
  <2>1. PICK t \in Seq(S) : t = Tail(old) /\ Len(t) = Len(old) - 1
    BY <1>1, HeadTailProperties
  <2>2. PICK x : x = m \o t
    OBVIOUS
  <2>3. x \in Seq(S) /\ Len(x) = Len(m) + Len(t) /\ \A k \in 1..Len(m) : x[k] = m[k]
    BY <1>1, <2>1, <2>2, Joined
  <2>4. Len(x) \in Nat \ {0}
    BY <1>2, <2>1, <2>3
  <2>5. x # << >>
    <3>1. Len(x) # 0
      BY <2>4
    <3> QED BY <3>1, EmptySeq
  <2>6. ASSUME x = <<"garbage">> PROVE FALSE
    <3>1. Len(x) = 1 /\ x[1] = "garbage"
      BY <2>6
    <3>2. Len(m) = 1
      BY <1>2, <2>1, <2>3, <3>1
    <3>3. m[1] = "garbage"
      BY <2>3, <3>1, <3>2
    <3>4. m = <<"garbage">>
      BY <1>1, <3>2, <3>3
    <3> QED BY <1>1, <3>4
  <2>7. Merge(old) = x
    BY <1>3, <2>1, <2>2 DEF Merge
  <2> QED BY <2>3, <2>5, <2>6, <2>7 DEF Messages, S, Blank, Garbage
<1>4. CASE ~task.req.replace
  <2>2. PICK x : x = old \o m
    OBVIOUS
  <2>3. x \in Seq(S) /\ Len(x) = Len(old) + Len(m)
    BY <1>1, <2>2, Joined
  <2>4. Len(x) # 0 /\ Len(x) # 1
    BY <1>2, <2>3
  <2>5. x # << >> /\ x # <<"garbage">>
    <3>1. Len(<<"garbage">>) = 1
      OBVIOUS
    <3> QED BY <2>4, <3>1, EmptySeq
  <2>7. Merge(old) = x
    BY <1>4, <2>2 DEF Merge
  <2> QED BY <2>3, <2>5, <2>7 DEF Messages, S, Blank, Garbage
<1> QED BY <1>3, <1>4

(* So is what resolveWriteMessage settles on (Resolved). *)
LEMMA ResolvedIs ==
    ASSUME Busy, NEW end, NEW h, end = "ok" => h \in Seq(Messages), NEW m \in Resolved(end, h)
    PROVE  m \in Messages \ {Blank, Garbage}
<1> DEFINE old == IF end = "ok" THEN Found(h) ELSE Blank
<1>1. old \in Messages
  BY FoundTyped, NothingSaid
<1>2. m = task.req.msg \/ (m = Merge(old) /\ old # Blank)
  BY DEF Resolved
<1> HIDE DEF old
<1> QED BY <1>1, <1>2, TaskTyped, MergedIs

(* What follows the read before a write (AfterResolve). *)
LEMMA ResolveGoes ==
    ASSUME Busy, last = NoWord, faults' \in Nat, Standing(card', drv'), stage = "resolve",
           NEW end, NEW h, Concluded(card', drv', end, h), AfterResolve(end, h)
    PROVE  WriteInv'
<1>0. TaskOK(card', stage, task) /\ card'.kind = card.kind /\ card \in Cards
  BY BusyBasics DEF Busy, Standing
<1>1. end = "ok" => h \in Seq(Messages)
  BY DEF Concluded, HeardSoFar, ReadsAt
<1>2. PICK m \in Resolved(end, h) :
          IF PreflightRefuses(m) THEN Report("capacity", m, FALSE, FALSE)
          ELSE Starts("write", WriteOnce(m), [task EXCEPT !.data = m, !.attempt = 1])
  BY DEF AfterResolve
<1>3. m \in Messages /\ m \notin {Blank, Garbage}
  BY <1>1, ResolvedIs
<1>4. CASE PreflightRefuses(m)
  <2>1. Report("capacity", m, FALSE, FALSE)
    BY <1>2, <1>4
  <2> QED BY <1>3, <2>1, ReportGoes DEF Ends
<1>5. CASE ~PreflightRefuses(m)
  <2>1. PICK o : o = [task EXCEPT !.data = m, !.attempt = 1]
    OBVIOUS
  <2>2. Starts("write", WriteOnce(m), o)
    BY <1>2, <1>5, <2>1
  <2>3. /\ o \in [req : Operations, data : Messages, attempt : Nat, sure : BOOLEAN, from : Int, sound : BOOLEAN]
        /\ o.req = task.req /\ o.data = m
    BY <1>3, <2>1, TaskTyped
  <2>4. TaskOK(card', "write", o)
    BY <1>0, <1>3, <2>3 DEF TaskOK
  <2>5. Plan(card', "write", WriteOnce(m), << >>, o) /\ WriteOnce(m) # << >>
    <3>1. o.req.force => card'.kind = "Classic"
      BY <2>4 DEF TaskOK
    <3> QED BY <1>0, <1>3, <2>3, <3>1, WriteOncePlan
  <2>6. "write" \in Stages
    BY DEF Stages
  <2> QED BY <2>2, <2>4, <2>5, <2>6, StartsGoes
<1> QED BY <1>4, <1>5

(* What follows a write: its verification, a permanent failure or a retry (AfterWrite). *)
LEMMA WriteGoes ==
    ASSUME Busy, last = NoWord, faults' \in Nat, Standing(card', drv'), stage = "write",
           NEW end, NEW h, Concluded(card', drv', end, h), AfterWrite(end)
    PROVE  WriteInv'
<1>0. TaskOK(card', stage, task) /\ card'.kind = card.kind /\ card \in Cards
  BY BusyBasics DEF Busy, Standing
<1>1. CASE end = "ok" /\ task.req.verify
  <2>1. Starts("verify", ReadData, task)
    BY <1>1 DEF AfterWrite, Permanent
  <2>2. Family(card'.kind) = "page" /\ card'.corrupt => card'.cells[1] = Garbage
    BY <1>1 DEF Concluded
  <2>3. Plan(card', "verify", ReadData, << >>, task) /\ ReadData # << >>
    BY <1>0, <2>2, ReadDataPlan
  <2>4. TaskOK(card', "verify", task) /\ "verify" \in Stages
    BY <1>0 DEF TaskOK, Stages
  <2> QED BY <2>1, <2>3, <2>4, StartsGoes
<1>2. CASE end = "ok" /\ ~task.req.verify
  <2>1. Succeed(FALSE)
    BY <1>2 DEF AfterWrite, Permanent
  <2> QED BY <2>1, SucceedGoes
<1>3. CASE end \in Permanent
  <2>1. Report(end, task.data, FALSE, FALSE)
    BY <1>3 DEF AfterWrite, Permanent
  <2>2. end \in Ends
    BY <1>3 DEF Permanent, Ends
  <2>3. end = "readOnly" => Whole(card') \/ (Family(card'.kind) = "desfire" /\ ~drv'.held)
    BY DEF Concluded
  <2> QED BY <2>1, <2>2, <2>3, TaskTyped, ReportGoes
<1>4. CASE end # "ok" /\ end \notin Permanent
  <2>1. Retry
    BY <1>4 DEF AfterWrite
  <2> QED BY <2>1, RetryGoes
<1> QED BY <1>1, <1>2, <1>3, <1>4

(* What follows a verification: only the message itself is a success (AfterVerify). *)
LEMMA VerifyGoes ==
    ASSUME Busy, last = NoWord, faults' \in Nat, Standing(card', drv'), stage = "verify",
           NEW end, NEW h, Concluded(card', drv', end, h), AfterVerify(end, h)
    PROVE  WriteInv'
<1>1. CASE VerifyWrite(end, h)
  <2>1. Succeed(TRUE)
    BY <1>1 DEF AfterVerify, VerifyWrite
  <2>2. end = "ok" /\ Found(h) = task.data
    BY <1>1 DEF VerifyWrite
  <2>3. HeardSoFar(card', h)
    BY <2>2 DEF Concluded, ReadsAt
  <2>4. task.data \notin {Blank, Garbage}
    BY DEF Busy, TaskOK
  <2>5. Holds(card', task.data) /\ card'.cells[1] = task.data
    BY <2>2, <2>3, <2>4, FoundHolds
  <2>6. Family(card'.kind) = "page" => ~card'.corrupt
    BY <2>4, <2>5 DEF Concluded
  <2> QED BY <2>1, <2>5, <2>6, SucceedGoes
<1>2. CASE ~VerifyWrite(end, h) /\ end = "gone"
  <2>1. Report("gone", task.data, FALSE, FALSE)
    BY <1>2 DEF AfterVerify
  <2> QED BY <2>1, TaskTyped, ReportGoes DEF Ends
<1>3. CASE ~VerifyWrite(end, h) /\ end # "gone"
  <2>1. Retry
    BY <1>3 DEF AfterVerify
  <2> QED BY <2>1, RetryGoes
<1> QED BY <1>1, <1>2, <1>3

(* What follows a lock (AfterLock). *)
LEMMA LockGoes ==
    ASSUME Busy, last = NoWord, faults' \in Nat, Standing(card', drv'), stage = "lock",
           NEW end, NEW h, Concluded(card', drv', end, h), AfterLock(end)
    PROVE  WriteInv'
<1>0. task.sure => Holds(card', task.data) /\ (Family(card'.kind) = "page" => ~card'.corrupt)
  BY DEF Standing, TaskOK
<1>1. CASE end = "ok"
  <2>1. Report("success", task.data, task.sure, TRUE)
    BY <1>1 DEF AfterLock
  <2>2. Whole(card') \/ (Family(card'.kind) = "page" /\ card'.corrupt)
    BY <1>1 DEF Concluded
  <2>3. (task.sure \in BOOLEAN) /\ task.data \in Messages
    BY TaskTyped
  <2>4. CASE task.sure
    <3>1. Report("success", task.data, TRUE, TRUE)
      BY <2>1, <2>3, <2>4
    <3> QED BY <1>0, <2>2, <2>3, <2>4, <3>1, ReportGoes
  <2>5. CASE ~task.sure
    <3>1. Report("success", task.data, FALSE, TRUE)
      BY <2>1, <2>3, <2>5
    <3> QED BY <2>2, <2>3, <3>1, ReportGoes
  <2> QED BY <2>4, <2>5
<1>2. CASE end # "ok" /\ task.req.kind = "lock"
  <2>1. Report(end, task.data, FALSE, FALSE)
    BY <1>2 DEF AfterLock
  <2>2. end \in Ends /\ end # "readOnly"
    BY DEF Concluded
  <2> QED BY <2>1, <2>2, TaskTyped, ReportGoes
<1>3. CASE end # "ok" /\ task.req.kind = "write"
  <2>1. Report("notLocked", task.data, task.sure, FALSE)
    BY <1>3 DEF AfterLock
  <2>2. task.sure \in BOOLEAN
    BY TaskTyped
  <2> QED BY <1>0, <2>1, <2>2, TellGoes
<1> QED BY <1>1, <1>2, <1>3, TaskTyped

(* A command's outcome taken on to the next command, the next stage or the report
   (Advance). *)
LEMMA AdvanceGoes ==
    ASSUME Busy, last = NoWord, faults' \in Nat, NEW s, Good(s, card'), Advance(s)
    PROVE  WriteInv'
<1>1. drv' = s.drv /\ Standing(card', drv')
  BY DEF Advance, Good
<1>2. CASE s.end = "none"
  <2>1. todo' = s.todo /\ heard' = s.heard /\ stage' = stage /\ task' = task /\ last' = last
    BY <1>2 DEF Advance
  <2>2. todo' # << >> /\ Plan(card', stage', todo', heard', task')
    BY <1>2, <2>1 DEF Good
  <2>3. CardOK(card') /\ DriverOK(card', drv') /\ TaskOK(card', stage', task')
    BY <1>1, <2>1 DEF Standing
  <2>4. stage' \in {"resolve", "write", "verify", "lock"} /\ stage' # "idle"
    BY <2>1, BusyBasics
  <2> QED BY <2>1, <2>2, <2>3, <2>4 DEF WriteInv
<1>3. ASSUME s.end # "none" PROVE Concluded(card', drv', s.end, s.heard)
  BY <1>1, <1>3 DEF Good
<1>4. CASE s.end # "none" /\ stage = "resolve"
  <2>1. AfterResolve(s.end, s.heard)
    BY <1>4 DEF Advance
  <2> QED BY <1>1, <1>3, <1>4, <2>1, ResolveGoes
<1>5. CASE s.end # "none" /\ stage = "write"
  <2>1. AfterWrite(s.end)
    BY <1>5 DEF Advance
  <2> QED BY <1>1, <1>3, <1>5, <2>1, WriteGoes
<1>6. CASE s.end # "none" /\ stage = "verify"
  <2>1. AfterVerify(s.end, s.heard)
    BY <1>6 DEF Advance
  <2> QED BY <1>1, <1>3, <1>6, <2>1, VerifyGoes
<1>7. CASE s.end # "none" /\ stage = "lock"
  <2>1. AfterLock(s.end)
    BY <1>7 DEF Advance
  <2> QED BY <1>1, <1>3, <1>7, <2>1, LockGoes
<1> QED BY <1>2, <1>4, <1>5, <1>6, <1>7, BusyBasics

-----------------------------------------------------------------------------
(* The steps *)

(* With commands left, an operation is under way. *)
LEMMA UnderWay ==
    ASSUME WriteInv, todo # << >>
    PROVE  Busy /\ last = NoWord /\ faults \in Nat
BY DEF WriteInv, Busy, Stages

(* A new driver knows nothing of its card (Fresh). *)
LEMMA FreshIs ==
    ASSUME NEW c, NEW held \in BOOLEAN
    PROVE  DriverOK(c, Fresh(held))
<1> PICK r : r = [x \in {} |-> ""]
  OBVIOUS
<1>1. r \in [{} -> {""}]
  OBVIOUS
<1>2. Fresh(held) = [held |-> held, probed |-> FALSE, rights |-> r, session |-> "none"]
  BY DEF Fresh
<1> QED BY <1>1, <1>2 DEF DriverOK

(* The invariant holds of every card that may be presented. *)
LEMMA InitHolds ==
    ASSUME WriteInit
    PROVE  WriteInv
<1>1. PICK p \in Provisioned : card = p.card /\ drv = Fresh(p.held)
  BY DEF WriteInit
<1>2. CardOK(card)
  BY <1>1, ProvisionedAssumption DEF CardOK
<1>3. DriverOK(card, drv)
  BY <1>1, ProvisionedAssumption, FreshIs
<1> QED BY <1>2, <1>3 DEF WriteInit, WriteInv

(* A card is sound or not. *)
LEMMA SoundIs ==
    ASSUME CardOK(card)
    PROVE  Sound \in BOOLEAN
<1>1. Family(card.kind) \in {"page", "classic", "type4", "desfire"}
  BY Families DEF CardOK
<1> QED BY <1>1, Zenon DEF Sound

(* It is kept by an operation that begins, *)
LEMMA BeginHolds ==
    ASSUME WriteInv, NEW r \in Requests, Begin(r)
    PROVE  WriteInv'
<1> PICK o : o = [req |-> r, data |-> Blank, attempt |-> 0, sure |-> FALSE, from |-> faults,
                 sound |-> Sound]
  OBVIOUS
<1>1. /\ stage = "idle" /\ (r.force => card.kind = "Classic")
      /\ task' = o /\ heard' = << >> /\ last' = NoWord
      /\ card' = card /\ drv' = drv /\ faults' = faults
  BY DEF Begin
<1>2. r \in Operations /\ r.msg \notin {Blank, Garbage}
  BY RequestsAssumption
<1>3. faults \in Nat /\ CardOK(card) /\ DriverOK(card, drv) /\ card \in Cards
  BY DEF WriteInv, CardOK
<1>4. /\ o \in [req : Operations, data : Messages, attempt : Nat, sure : BOOLEAN, from : Int, sound : BOOLEAN]
      /\ o.req = r /\ o.sure = FALSE
  BY <1>2, <1>3, NothingSaid, SoundIs
<1>5. \A st \in {"resolve", "lock"} : TaskOK(card', st, o)
  BY <1>1, <1>2, <1>4 DEF TaskOK
<1>6. CASE r.kind = "write"
  <2>1. stage' = "resolve" /\ todo' = ReadData
    BY <1>6 DEF Begin
  <2>2. Plan(card', "resolve", ReadData, << >>, o) /\ ReadData # << >>
    BY <1>1, <1>3, ReadDataPlan
  <2> QED BY <1>1, <1>3, <1>5, <2>1, <2>2 DEF WriteInv
<1>7. CASE r.kind # "write"
  <2>1. CanLock /\ stage' = "lock" /\ todo' = MakeReadOnly
    BY <1>7 DEF Begin
  <2>2. Plan(card', "lock", MakeReadOnly, << >>, o) /\ MakeReadOnly # << >>
    BY <1>1, <1>3, <2>1, LockPlan
  <2> QED BY <1>1, <1>3, <1>5, <2>1, <2>2 DEF WriteInv
<1> QED BY <1>6, <1>7

(* A command sent is one with an answer, and its outcome is taken on. *)
LEMMA ExchangeIs ==
    ASSUME NEW how \in {"heard", "lost", "unheard", "nak"}, Exchange(how)
    PROVE  /\ todo # << >> /\ Head(todo).ins \notin Choosing
           /\ card' = CardAfter(how) /\ Advance(Outcome(how))
           /\ faults' = IF how = "heard" THEN faults ELSE faults + 1
           /\ present' = present
BY DEF Exchange, CardAfter, Outcome, Got

(* by a command sent, heard, lost, unheard or refused, *)
LEMMA ExchangeHolds ==
    ASSUME WriteInv, NEW how \in {"heard", "lost", "unheard", "nak"}, Exchange(how)
    PROVE  WriteInv'
<1>1. Busy /\ last = NoWord /\ faults \in Nat
  BY ExchangeIs, UnderWay
<1>2. Good(Outcome(how), CardAfter(how)) /\ Advance(Outcome(how)) /\ card' = CardAfter(how)
  BY <1>1, ExchangeIs, SentGoes
<1>3. faults' \in Nat
  BY <1>1, ExchangeIs
<1> QED BY <1>1, <1>2, <1>3, AdvanceGoes

(* by a choice of the driver's, *)
LEMMA ChooseHolds ==
    ASSUME WriteInv, NEW ins \in Choosing, Choose(ins)
    PROVE  WriteInv'
<1>0. todo # << >> /\ Head(todo).ins = ins /\ faults' = faults /\ card' = card
  BY DEF Choose
<1>1. Busy /\ last = NoWord /\ faults' \in Nat
  BY <1>0, UnderWay
<1>2. CASE ins = "fit"
  <2>1. Advance(Fitted)
    BY <1>2 DEF Choose
  <2>2. Good(Fitted, card')
    BY <1>0, <1>1, <1>2, FitGoes
  <2> QED BY <1>1, <2>1, <2>2, AdvanceGoes
<1>3. CASE ins = "enter"
  <2>1. Advance(Entered)
    BY <1>3 DEF Choose
  <2>2. Good(Entered, card')
    BY <1>0, <1>1, <1>3, EnterGoes
  <2> QED BY <1>1, <2>1, <2>2, AdvanceGoes
<1>4. CASE ins = "cannot"
  <2>1. Advance(EndsWith(drv, heard, "failed"))
    BY <1>4 DEF Choose
  <2>2. Good(EndsWith(drv, heard, "failed"), card')
    BY <1>0, <1>1, CannotGoes
  <2> QED BY <1>1, <2>1, <2>2, AdvanceGoes
<1> QED BY <1>2, <1>3, <1>4 DEF Choosing

(* by what changes neither card nor operation, *)
LEMMA SameHolds ==
    ASSUME WriteInv, faults' \in Nat, UNCHANGED <<card, drv, stage, todo, heard, task, last>>
    PROVE  WriteInv'
<1>1. WhollyLocked' <=> WhollyLocked
  BY DEF WhollyLocked
<1>2. ReportedIsThere' <=> ReportedIsThere
  BY <1>1 DEF ReportedIsThere, VerifiedIsThere, LockIsTrue
<1> QED BY <1>2 DEF WriteInv

(* A card presented again is the card it was, but for what it held in RAM (Powered). *)
LEMMA PoweredIs ==
    ASSUME NEW c, CardOK(c)
    PROVE  CardOK(Powered(c)) /\ Powered(c).kind = c.kind
<1>0. c \in Cards /\ Family(c.kind) \in {"page", "classic", "type4", "desfire"}
  BY Families DEF CardOK
<1>1. CASE Family(c.kind) = "page"
  BY <1>1 DEF Powered
<1>2. CASE Family(c.kind) = "classic"
  <2>1. c \in ClassicCards
    BY <1>0, <1>2, Families
  <2>2. PICK x : x = [c EXCEPT !.authed = -1]
    OBVIOUS
  <2>3. x \in ClassicCards /\ x.kind = c.kind
    BY <2>1, <2>2 DEF ClassicCards
  <2> QED BY <1>2, <2>2, <2>3 DEF Powered, CardOK, Cards
<1>3. CASE Family(c.kind) = "type4"
  <2>1. c \in Type4Cards
    BY <1>0, <1>3, Families
  <2>2. PICK x : x = [c EXCEPT !.app = FALSE, !.file = "none"]
    OBVIOUS
  <2>3. x \in Type4Cards /\ x.kind = c.kind
    BY <2>1, <2>2 DEF Type4Cards
  <2> QED BY <1>3, <2>2, <2>3 DEF Powered, CardOK, Cards
<1>4. CASE Family(c.kind) = "desfire"
  <2>1. c \in DESFireCards
    BY <1>0, <1>4, Families
  <2>2. PICK x : x = [c EXCEPT !.selected = FALSE, !.challenged = FALSE, !.channel = FALSE]
    OBVIOUS
  <2>3. x \in DESFireCards /\ x.kind = c.kind
    BY <2>1, <2>2 DEF DESFireCards
  <2> QED BY <1>4, <2>2, <2>3 DEF Powered, CardOK, Cards
<1> QED BY <1>0, <1>1, <1>2, <1>3, <1>4

(* by a card presented again, *)
LEMMA ReturnHolds ==
    ASSUME WriteInv, Return
    PROVE  WriteInv'
<1>1. /\ stage = "idle" /\ stage' = stage /\ todo' = todo /\ faults' = faults
      /\ card' = Powered(card) /\ drv' = Fresh(drv.held) /\ last' = NoWord
  BY DEF Return
<1>2. drv.held \in BOOLEAN /\ CardOK(card) /\ todo = << >> /\ faults \in Nat
  BY <1>1 DEF WriteInv, DriverOK
<1>3. CardOK(card')
  BY <1>1, <1>2, PoweredIs
<1>4. DriverOK(card', drv')
  BY <1>1, <1>2, FreshIs
<1> QED BY <1>1, <1>2, <1>3, <1>4 DEF WriteInv

(* and so by every step. *)
LEMMA StepHolds ==
    ASSUME WriteInv, [WriteNext]_writeVars
    PROVE  WriteInv'
<1>1. ASSUME NEW r \in Requests, Begin(r) PROVE WriteInv'
  BY <1>1, BeginHolds
<1>2. ASSUME NEW how \in {"heard", "lost", "unheard", "nak"}, Exchange(how) PROVE WriteInv'
  BY <1>2, ExchangeHolds
<1>3. ASSUME NEW ins \in Choosing, Choose(ins) PROVE WriteInv'
  BY <1>3, ChooseHolds
<1>4. CASE Lifted
  <2>1. UNCHANGED <<card, drv, stage, todo, heard, task, last>> /\ faults' = faults + 1
    BY <1>4 DEF Lifted
  <2>2. faults' \in Nat
    BY <2>1 DEF WriteInv
  <2> QED BY <2>1, <2>2, SameHolds
<1>5. CASE Return
  BY <1>5, ReturnHolds
<1>6. CASE UNCHANGED writeVars
  <2>1. UNCHANGED <<card, drv, stage, todo, heard, task, last>> /\ faults' \in Nat
    BY <1>6 DEF writeVars, WriteInv
  <2> QED BY <2>1, SameHolds
<1> QED BY <1>1, <1>2, <1>3, <1>4, <1>5, <1>6 DEF WriteNext

THEOREM WriteInvariant == WriteSpec => []WriteInv
<1>1. WriteInit => WriteInv
  BY InitHolds
<1>2. WriteInv /\ [WriteNext]_writeVars => WriteInv'
  BY StepHolds
<1> QED BY <1>1, <1>2, PTL DEF WriteSpec

THEOREM ReportsTrue == WriteSpec => []ReportedIsThere
<1>1. WriteInv => ReportedIsThere
  <2>1. last = NoWord => ReportedIsThere
    BY DEF ReportedIsThere, VerifiedIsThere, LockIsTrue
  <2> QED BY <2>1 DEF WriteInv
<1> QED BY <1>1, WriteInvariant, PTL

-----------------------------------------------------------------------------
(* A format *)

(* A card but for its note of what is authenticated. *)
Bare(c) == [c EXCEPT !.authed = -1, !.asB = FALSE]

(* A step of a format that changes the card finds every sector opened. *)
LEMMA FormatStep ==
    ASSUME WriteInv, [WriteNext]_writeVars, stage = "write", task.req.force, Bare(card') # Bare(card)
    PROVE  \A s \in DOMAIN card.trailers : Opens(card.trailers[s])
<1>1. card' # card
  OBVIOUS
<1>2. PICK how \in {"heard", "lost", "unheard", "nak"} : Exchange(how)
  BY <1>1 DEF WriteNext, Begin, Choose, Lifted, Return, writeVars
<1>3. Busy
  BY <1>2, ExchangeIs, UnderWay
<1>4. card \in ClassicCards /\ Family(card.kind) = "classic"
  BY <1>3, BusyBasics, Families DEF Busy, TaskOK
<1>5. DOMAIN card.trailers = 0..Chunks
  BY <1>4 DEF ClassicCards
<1> DEFINE cmd == Head(todo)
<1>6. cmd.ins \in {"fit", "auth", "write", "trailer"}
  <2>1. cmd.ins \in Issued("classic", "write")
    BY <1>3, <1>4, BusyBasics
  <2> QED BY <2>1 DEF Issued, ReadsAt
<1>7. cmd.ins # "fit"
  BY <1>2, ExchangeIs DEF Choosing
<1>8. cmd.ins # "auth"
  <2> SUFFICES ASSUME cmd.ins = "auth" PROVE FALSE
    OBVIOUS
  <2>1. PICK a : a = ClassicAnswer(card, cmd)
    OBVIOUS
  <2>2. Untouched(card, a.card)
    BY <1>3, <1>4, <2>1, BusyBasics, ClassicOpens
  <2>3. card' = a.card \/ card' = card
    BY <1>2, <1>4, <2>1, ExchangeIs DEF CardAfter, Answer
  <2> QED BY <2>2, <2>3 DEF Untouched, Bare
<1> QED BY <1>3, <1>5, <1>6, <1>7, <1>8, AllOpen

THEOREM FormatsPreflighted == WriteSpec => FormatPreflighted
<1>1. WriteInv /\ [WriteNext]_writeVars =>
         [ stage = "write" /\ task.req.force /\ [card' EXCEPT !.authed = -1, !.asB = FALSE]
                                             # [card EXCEPT !.authed = -1, !.asB = FALSE]
           => \A s \in DOMAIN card.trailers : Opens(card.trailers[s]) ]_writeVars
  BY FormatStep DEF Bare
<1> QED BY <1>1, WriteInvariant, PTL DEF WriteSpec, FormatPreflighted

(* The keys of a sound card's sectors lead to "factory", as the key that    *)
(* may do what is left: nothing before it in the list opens the sector.     *)
PublicKeys == {"forum", "mad"}
FactoryAhead(keys) ==
    \E i \in DOMAIN keys : keys[i] = "factory" /\ \A j \in 1..i - 1 : keys[j] \notin PublicKeys
Leads(t, cmd) ==
    IF cmd.key = "factory" THEN cmd.asB => t # Factory
    ELSE cmd.key \notin PublicKeys /\ FactoryAhead(cmd.rest)

InSector(c, s) == c.authed = s /\ (c.asB <=> c.trailers[s] # Factory)
SoundTrailers(c) == \A s \in DOMAIN c.trailers : c.trailers[s] \in {Factory, Formats.mad, Formats.ndef}
ClassicReady(c, q) ==
    /\ \A k \in DOMAIN q : q[k].ins = "auth" =>
          q[k].at \in 0..Chunks /\ Leads(IF k = 1 THEN c.trailers[q[1].at] ELSE Factory, q[k])
    /\ \A k \in DOMAIN q : q[k].ins \in {"read", "write", "trailer"} =>
          /\ q[k].at \in 0..Chunks
          /\ IF k = 1 THEN InSector(c, q[1].at)
             ELSE q[k - 1].ins \in {"auth", "write"} /\ q[k - 1].at = q[k].at

PageReady(c, q) ==
    \A k \in DOMAIN q : q[k].ins = "write" =>
        /\ q[k].at \in Cells
        /\ \/ \A i \in Cells : ~LockedPage(c, i)
           \/ q[1].ins = "readLock" /\ \A i \in Cells : LockedPage(c, i)

Type4Ready(c, q) ==
    \E n \in 0..4 :
        /\ n <= Len(q) /\ \A i \in 1..n : q[i] = Select[4 - n + i]
        /\ \A k \in DOMAIN q : k > n => q[k].ins \in {"read", "write", "fit"}
        /\ n < 4 => c.app
        /\ n \in {1, 2} => c.file = "cc"
        /\ n = 0 => c.file = "ndef"

DesfireReady(c, d, q) ==
    /\ \A k \in DOMAIN q : q[k].ins \in {"select", "settings", "enter", "read", "write"}
    /\ c.selected \/ q[1].ins = "select"
    /\ \A j, k \in DOMAIN q : q[j].ins \in {"read", "write"} => q[k].ins = q[j].ins
    /\ d.probed => \A k \in DOMAIN q : q[k].ins = "write" => d.rights.write = "free"
    /\ \A k \in DOMAIN q : q[k].ins \in {"select", "settings"} => k < Len(q)

Ready(c, d, q) ==
    CASE Family(c.kind) = "page"    -> PageReady(c, q)
      [] Family(c.kind) = "classic" -> ClassicReady(c, q)
      [] Family(c.kind) = "type4"   -> Type4Ready(c, q)
      [] Family(c.kind) = "desfire" -> DesfireReady(c, d, q)

(* What is written, and what is read, once the commands left have been taken. *)
Enters(q) == \E k \in DOMAIN q : q[k].ins = "enter"
Puts(q, k, i) == k \in DOMAIN q /\ q[k].ins = "write" /\ q[k].at = i
Due(c, q, i, m) ==
    /\ \A j \in DOMAIN q : Puts(q, j, i) /\ q[j].msg # m => \E k \in j + 1..Len(q) : Puts(q, k, i) /\ q[k].msg = m
    /\ c.cells[i] = m \/ \E k \in DOMAIN q : Puts(q, k, i) /\ q[k].msg = m
Covers(q, n) == \A i \in n + 1..Chunks : \E k \in DOMAIN q : Reads(q, k) /\ q[k].at = i

OnTrack(c, d, st, q, h, m) ==
    /\ Ready(c, d, q)
    /\ st = "write" => Enters(q) \/ \A i \in 1..Need(m) : Due(c, q, i, m)
    /\ st = "verify" => Holds(c, m) /\ (Enters(q) \/ Covers(q, Len(h)))

(* A DESFire that a verification found gone is found gone by the next select. *)
Lost(c, p, st, q) == st = "write" /\ ~p /\ Family(c.kind) = "desfire" /\ q # << >> /\ q[1].ins = "select"

(* Whether a card is sound, and a message too large for it.                 *)
SoundCard(c, d) ==
    CASE Family(c.kind) = "page"    -> ~c.corrupt /\ (Whole(c) \/ \A i \in Cells : ~LockedPage(c, i))
      [] Family(c.kind) = "classic" -> SoundTrailers(c)
      [] Family(c.kind) = "type4"   -> TRUE
      [] Family(c.kind) = "desfire" -> ~Withheld(c.rights) /\ ~Withheld(d.rights)
Large(kind, o) ==
    LET bytes == Reported(kind) + o.req.over IN
    \/ Need(o.data) > Chunks
    \/ CASE Family(kind) = "page"    -> (TLVSize(bytes) + 3) \div 4 > Pages(kind)
         [] Family(kind) = "classic" -> (TLVSize(bytes) + 15) \div 16 > 45
         [] OTHER                    -> o.req.over > 0

(* A write under way has met a fault in each attempt that is over, and one  *)
(* in this attempt unless it is on track.                                   *)
Track(c, d, p, st, q, h, o, met) ==
    /\ met >= 0 /\ o.req.kind = "write"
    /\ o.sound => SoundCard(c, d)
    /\ st = "resolve" => o.attempt = 0 /\ (p \/ met >= 1)
    /\ o.sound /\ ~Large(c.kind, o) /\ st \in {"write", "verify"} =>
          /\ met >= o.attempt - 1
          /\ met >= o.attempt \/ Lost(c, p, st, q) \/ (p /\ OnTrack(c, d, st, q, h, o.data))
TrackInv ==
    stage \in {"resolve", "write", "verify"} =>
        Track(card, drv, present, stage, todo, heard, task, faults - task.from)

-----------------------------------------------------------------------------
(* A write that is on track *)

(* TooLarge is said of the operation at hand; Large of any. *)
LEMMA LargeIs == TooLarge <=> Large(card.kind, task)
BY DEF TooLarge, Large, Bytes

(* Sound is said of the card at hand; SoundCard of any. *)
LEMMA SoundCardIs == Sound <=> SoundCard(card, drv)
BY WhollyLockedIs DEF Sound, SoundCard, SoundTrailers

(* A command taken: what it wrote need not be written again. *)
LEMMA DueTail ==
    ASSUME NEW q \in Seq(Commands), q # << >>, NEW c, NEW c2, NEW i, NEW m, Due(c, q, i, m),
           IF Puts(q, 1, i) THEN q[1].msg = m => c2.cells[i] = m ELSE c2.cells[i] = c.cells[i]
    PROVE  Due(c2, Tail(q), i, m)
<1> DEFINE r == Tail(q)
<1>1. /\ Len(q) \in Nat \ {0} /\ Len(r) = Len(q) - 1 /\ DOMAIN q = 1..Len(q) /\ DOMAIN r = 1..Len(q) - 1
      /\ \A k \in 1..Len(q) - 1 : k + 1 \in DOMAIN q /\ r[k] = q[k + 1]
  BY TailIs
<1> HIDE DEF r
<1>2. \A k \in 1..Len(q) - 1 : Puts(r, k, i) <=> Puts(q, k + 1, i)
  BY <1>1 DEF Puts
<1>3. ASSUME NEW j \in DOMAIN r, Puts(r, j, i), r[j].msg # m
      PROVE  \E k \in j + 1..Len(r) : Puts(r, k, i) /\ r[k].msg = m
  <2>1. j + 1 \in DOMAIN q /\ Puts(q, j + 1, i) /\ q[j + 1].msg # m
    BY <1>1, <1>2, <1>3
  <2>2. PICK k \in j + 2..Len(q) : Puts(q, k, i) /\ q[k].msg = m
    BY <1>1, <2>1 DEF Due
  <2>3. k - 1 \in j + 1..Len(r) /\ k - 1 \in 1..Len(q) - 1 /\ (k - 1) + 1 = k
    BY <1>1, <1>3, <2>2
  <2>4. Puts(r, k - 1, i) /\ r[k - 1].msg = m
    BY <1>1, <1>2, <2>2, <2>3
  <2> QED BY <2>3, <2>4
<1>4. c2.cells[i] = m \/ \E k \in DOMAIN r : Puts(r, k, i) /\ r[k].msg = m
  <2>1. CASE \E k \in DOMAIN q : k # 1 /\ Puts(q, k, i) /\ q[k].msg = m
    <3>1. PICK k \in DOMAIN q : k # 1 /\ Puts(q, k, i) /\ q[k].msg = m
      BY <2>1
    <3>2. k - 1 \in 1..Len(q) - 1 /\ (k - 1) + 1 = k
      BY <1>1, <3>1
    <3>3. k - 1 \in DOMAIN r /\ Puts(r, k - 1, i) /\ r[k - 1].msg = m
      BY <1>1, <1>2, <3>1, <3>2
    <3> QED BY <3>3
  <2>2. CASE ~\E k \in DOMAIN q : k # 1 /\ Puts(q, k, i) /\ q[k].msg = m
    <3>1. 1 \in DOMAIN q
      BY <1>1
    <3>2. CASE Puts(q, 1, i)
      <4>1. q[1].msg = m
        <5>1. ASSUME q[1].msg # m PROVE FALSE
          <6>1. PICK k \in 2..Len(q) : Puts(q, k, i) /\ q[k].msg = m
            BY <1>1, <3>1, <3>2, <5>1 DEF Due
          <6>2. k \in DOMAIN q /\ k # 1
            BY <1>1, <6>1
          <6> QED BY <2>2, <6>1, <6>2
        <5> QED BY <5>1
      <4> QED BY <3>2, <4>1
    <3>3. CASE ~Puts(q, 1, i)
      <4>1. ~\E k \in DOMAIN q : Puts(q, k, i) /\ q[k].msg = m
        BY <2>2, <3>3
      <4>2. c.cells[i] = m
        BY <4>1 DEF Due
      <4> QED BY <3>3, <4>2
    <3> QED BY <3>2, <3>3
  <2> QED BY <2>1, <2>2
<1> QED BY <1>3, <1>4 DEF Due, r

(* Nothing more to write: it is there. *)
LEMMA DueDone ==
    ASSUME NEW q \in Seq(Commands), q = << >>, NEW c, NEW i, NEW m, Due(c, q, i, m)
    PROVE  c.cells[i] = m
<1>1. DOMAIN q = {}
  OBVIOUS
<1> QED BY <1>1 DEF Due

(* The reads left when one is taken, and when another command is. *)
LEMMA CoversTail ==
    ASSUME NEW q \in Seq(Commands), q # << >>, NEW n \in Nat, Covers(q, n),
           Head(q).ins = "read" => Head(q).at = n + 1
    PROVE  Covers(Tail(q), IF Head(q).ins = "read" THEN n + 1 ELSE n)
<1> DEFINE r == Tail(q)
<1>1. /\ Len(q) \in Nat \ {0} /\ DOMAIN q = 1..Len(q) /\ DOMAIN r = 1..Len(q) - 1 /\ Head(q) = q[1]
      /\ \A k \in 1..Len(q) - 1 : k + 1 \in DOMAIN q /\ r[k] = q[k + 1]
  BY TailIs
<1> HIDE DEF r
<1>2. ASSUME NEW i \in n + 1..Chunks, Head(q).ins = "read" => i # n + 1
      PROVE  \E k \in DOMAIN r : Reads(r, k) /\ r[k].at = i
  <2>1. PICK k \in DOMAIN q : Reads(q, k) /\ q[k].at = i
    BY <1>2 DEF Covers
  <2>2. k # 1
    BY <1>1, <1>2, <2>1 DEF Reads
  <2>3. k - 1 \in 1..Len(q) - 1 /\ (k - 1) + 1 = k
    BY <1>1, <2>1, <2>2
  <2>4. Reads(r, k - 1) /\ r[k - 1].at = i /\ k - 1 \in DOMAIN r
    BY <1>1, <2>1, <2>3 DEF Reads
  <2> QED BY <2>4
<1>3. CASE Head(q).ins = "read"
  <2>1. \A i \in n + 1 + 1..Chunks : i \in n + 1..Chunks /\ i # n + 1
    BY ChunksAssumption
  <2> QED BY <1>2, <1>3, <2>1 DEF Covers, r
<1>4. CASE Head(q).ins # "read"
  BY <1>2, <1>4 DEF Covers, r
<1> QED BY <1>3, <1>4

(* With no read left every cell has been read. *)
LEMMA CoversDone ==
    ASSUME NEW q, NEW n \in Nat, n <= Chunks, Covers(q, n), \A k \in DOMAIN q : ~Reads(q, k)
    PROVE  n = Chunks
<1>1. ASSUME n < Chunks PROVE FALSE
  <2>1. n + 1 \in n + 1..Chunks
    BY <1>1, ChunksAssumption
  <2> QED BY <2>1 DEF Covers
<1> QED BY <1>1, ChunksAssumption

(* A choice that is not the first of the commands is still to come. *)
LEMMA EntersTail ==
    ASSUME NEW q \in Seq(Commands), q # << >>, Enters(q), Head(q).ins # "enter"
    PROVE  Enters(Tail(q))
<1>1. /\ DOMAIN q = 1..Len(q) /\ DOMAIN Tail(q) = 1..Len(q) - 1 /\ Head(q) = q[1] /\ Len(q) \in Nat
      /\ \A k \in 1..Len(q) - 1 : Tail(q)[k] = q[k + 1]
  BY TailIs
<1>2. PICK k \in DOMAIN q : q[k].ins = "enter"
  BY DEF Enters
<1>3. k - 1 \in 1..Len(q) - 1 /\ (k - 1) + 1 = k
  BY <1>1, <1>2
<1> QED BY <1>1, <1>2, <1>3 DEF Enters

(* As much of a message as it has, read from a card that holds it, is found. *)
LEMMA FoundIs ==
    ASSUME NEW c, NEW h, HeardSoFar(c, h), NEW m \in Messages, m \notin {Blank, Garbage},
           Holds(c, m), Need(m) <= Len(h)
    PROVE  Found(h) = m
<1>1. h \in Seq(Messages) /\ Len(h) \in Nat /\ \A i \in 1..Len(h) : h[i] = c.cells[i]
  BY DEF HeardSoFar
<1>2. Need(m) \in Nat \ {0}
  BY LenMessage
<1>3. \A i \in 1..Need(m) : h[i] = m
  BY <1>1, <1>2 DEF Holds
<1>4. h # << >> /\ Head(h) = h[1] /\ h[1] = m
  BY <1>1, <1>2, <1>3
<1>5. ~(Len(h) < Need(m))
  BY <1>1, <1>2
<1> QED BY <1>3, <1>4, <1>5 DEF Found

(* A stage of a write that is on track, and what a command leaves of it: it is *)
(* on track still, or the stage ends as it should.                            *)
OnWay ==
    /\ Busy /\ stage \in {"write", "verify"} /\ SoundCard(card, drv) /\ Need(task.data) <= Chunks
    /\ OnTrack(card, drv, stage, todo, heard, task.data)
Stays(s, c) ==
    /\ s.end = "none" => OnTrack(c, s.drv, stage, s.todo, s.heard, task.data)
    /\ stage = "write" => s.end # "failed" /\ (s.end = "ok" => Holds(c, task.data))
    /\ stage = "verify" /\ s.end # "none" => s.end = "ok" /\ Found(s.heard) = task.data

(* What is asked for is a message. *)
LEMMA WayBasics ==
    ASSUME OnWay
    PROVE  /\ task.data \in Messages \ {Blank, Garbage} /\ Need(task.data) \in 1..Chunks
           /\ Chunks \in Nat /\ card \in Cards /\ todo \in Seq(Commands) /\ todo # << >>
           /\ Head(todo) = todo[1] /\ Head(todo) \in Commands /\ 1 \in DOMAIN todo
           /\ stage = "verify" => ReadsTrue(card, todo, heard) /\ Holds(card, task.data)
<1>1. task.data \in Messages
  BY TaskTyped DEF OnWay
<1>2. task.data \notin {Blank, Garbage}
  BY DEF OnWay, Busy, TaskOK
<1>3. Need(task.data) \in 1..Chunks
  BY <1>1, LenMessage, ChunksAssumption DEF OnWay
<1>4. stage = "verify" => ReadsTrue(card, todo, heard) /\ Holds(card, task.data)
  BY DEF OnWay, Busy, Plan, ReadsAt, OnTrack
<1> QED BY <1>1, <1>2, <1>3, <1>4, BusyBasics, ChunksAssumption DEF OnWay

(* A command that only leads on (Onward). *)
LEMMA OnwardTrack ==
    ASSUME OnWay, NEW c, NEW d, Ready(c, d, Tail(todo)), Head(todo).ins \notin {"enter", "read"},
           stage = "verify" => c.cells = card.cells,
           \A i \in 1..Need(task.data) :
               IF Puts(todo, 1, i) THEN todo[1].msg = task.data => c.cells[i] = task.data
               ELSE c.cells[i] = card.cells[i]
    PROVE  Stays(Onward(d, Tail(todo)), c)
<1> DEFINE s == Onward(d, Tail(todo))
           m == task.data
           r == Tail(todo)
<1>1. todo \in Seq(Commands) /\ todo # << >> /\ r \in Seq(Commands)
  BY WayBasics, TailIs
<1>2. s.drv = d /\ s.todo = r /\ s.heard = heard /\ s.end = IF r = << >> THEN "ok" ELSE "none"
  BY DEF Onward
<1>3. Enters(todo) => Enters(r)
  BY <1>1, WayBasics, EntersTail
<1>4. r = << >> => ~Enters(r) /\ \A k \in DOMAIN r : ~Reads(r, k)
  BY <1>1 DEF Enters
<1>5. CASE stage = "write"
  <2>1. Enters(todo) \/ \A i \in 1..Need(m) : Due(c, r, i, m)
    BY <1>1, <1>5, DueTail DEF OnWay, OnTrack
  <2>2. ASSUME r = << >> PROVE Holds(c, m)
    <3>1. \A i \in 1..Need(m) : Due(c, r, i, m)
      <4>1. ~Enters(r)
        BY <1>4, <2>2
      <4>2. ~Enters(todo)
        BY <1>3, <4>1
      <4> QED BY <2>1, <4>2
    <3>2. ASSUME NEW i \in 1..Need(m) PROVE c.cells[i] = m
      <4>1. Due(c, r, i, m) /\ r \in Seq(Commands) /\ r = << >>
        BY <1>1, <2>2, <3>1
      <4> HIDE DEF r, m
      <4> QED BY <4>1, DueDone
    <3> QED BY <3>2 DEF Holds
  <2>3. OnTrack(c, d, stage, r, heard, m)
    BY <1>3, <1>5, <2>1 DEF OnTrack
  <2> QED BY <1>2, <1>5, <2>2, <2>3 DEF Stays
<1>6. CASE stage = "verify"
  <2>1. HeardSoFar(card, heard) /\ Holds(card, m)
    BY <1>6, WayBasics DEF ReadsTrue
  <2>2. Len(heard) \in Nat /\ Len(heard) <= Chunks
    BY <2>1 DEF HeardSoFar
  <2>3. HeardSoFar(c, heard) /\ Holds(c, m)
    BY <1>6, <2>1 DEF HeardSoFar, Holds
  <2>4. Enters(r) \/ Covers(r, Len(heard))
    BY <1>1, <1>3, <1>6, <2>2, CoversTail DEF OnWay, OnTrack
  <2>5. ASSUME r = << >> PROVE Found(heard) = m
    <3>1. Len(heard) = Chunks
      BY <1>4, <2>2, <2>4, <2>5, CoversDone
    <3> QED BY <2>3, <3>1, WayBasics, FoundIs
  <2>6. OnTrack(c, d, stage, r, heard, m)
    BY <1>6, <2>3, <2>4 DEF OnTrack
  <2> QED BY <1>2, <1>6, <2>5, <2>6 DEF Stays
<1> QED BY <1>5, <1>6 DEF OnWay

(* A cell read of what was written (HeardCell). *)
LEMMA HeardTrack ==
    ASSUME OnWay, stage = "verify", Head(todo).ins = "read", NEW c, NEW d, Standing(c, d),
           Ready(c, d, Tail(todo)), c.cells = card.cells, Family(c.kind) = "page" => c.corrupt = card.corrupt
    PROVE  Stays(HeardCell(d, card.cells[Head(todo).at], Tail(todo)), c)
<1> DEFINE v == card.cells[Head(todo).at]
           s == HeardCell(d, v, Tail(todo))
           h == Append(heard, v)
           m == task.data
           r == Tail(todo)
<1>1. todo \in Seq(Commands) /\ todo # << >> /\ r \in Seq(Commands) /\ todo[1] = Head(todo) /\ 1 \in DOMAIN todo
  BY WayBasics, TailIs
<1>2. HeardSoFar(card, heard) /\ InOrder(todo, Len(heard)) /\ Holds(card, m) /\ ~Enters(todo)
  <2>1. ReadsTrue(card, todo, heard) /\ Holds(card, m)
    BY WayBasics
  <2>2. Reads(todo, 1)
    BY <1>1 DEF Reads
  <2> QED BY <1>1, <2>1, <2>2 DEF ReadsTrue, Enters
<1>3. heard \in Seq(Messages) /\ Len(heard) \in Nat
  BY <1>2 DEF HeardSoFar
<1>4. Head(todo).at = Len(heard) + 1
  BY <1>1, <1>2, <1>3, OrderRead
<1>5. Covers(r, Len(heard) + 1)
  BY <1>1, <1>2, <1>3, <1>4, CoversTail DEF OnWay, OnTrack
<1>6. Holds(c, m)
  BY <1>2 DEF Holds
<1>7. Good(s, c) /\ ReadsAt(stage)
  BY HeardGoes DEF OnWay, ReadsAt
<1>8. s.drv = d /\ s.heard = h
  <2>1. CASE r = << >> \/ ReadEnough(h)
    <3>1. s = EndsWith(d, h, "ok")
      BY <2>1 DEF HeardCell
    <3> QED BY <3>1 DEF EndsWith
  <2>2. CASE ~(r = << >> \/ ReadEnough(h))
    <3>1. s = [Onward(d, r) EXCEPT !.heard = h]
      BY <2>2 DEF HeardCell
    <3>3. Onward(d, r) = [drv |-> d, todo |-> r, heard |-> heard, end |-> IF r = << >> THEN "ok" ELSE "none"]
      BY DEF Onward
    <3> HIDE DEF h, s, r
    <3> DEFINE e == IF r = << >> THEN "ok" ELSE "none"
    <3>4. s = [[drv |-> d, todo |-> r, heard |-> heard, end |-> e] EXCEPT !.heard = h]
      BY <3>1, <3>3, SMTT(20)
    <3> HIDE DEF e
    <3> QED BY <3>4
  <2> QED BY <2>1, <2>2
<1>9. CASE r = << >> \/ ReadEnough(h)
  <2>1. s = EndsWith(d, h, "ok") /\ s.end = "ok"
    BY <1>9, EndsForm DEF HeardCell
  <2>2. HeardSoFar(c, h)
    BY <1>7, <1>8, <2>1 DEF Good, Concluded
  <2>3. h \in Seq(Messages) /\ Len(h) \in Nat /\ Len(h) <= Chunks /\ \A i \in 1..Len(h) : h[i] = c.cells[i]
    BY <2>2 DEF HeardSoFar
  <2>4. h # << >> /\ Len(h) = Len(heard) + 1
    <3>1. v = c.cells[Len(heard) + 1]
      BY <1>4
    <3>2. Len(heard) + 1 \in Cells /\ c.cells \in Filled
      <4>1. Head(todo).at \in Cells
        BY <1>1, CommandForms
      <4>2. card.cells \in Filled
        BY WayBasics, Families
      <4> QED BY <1>4, <4>1, <4>2
    <3>3. v \in Messages
      BY <3>1, <3>2 DEF Filled
    <3> QED BY <1>3, <3>3
  <2>5. Head(h) = m
    <3>1. 1 \in 1..Len(h) /\ Head(h) = h[1] /\ h[1] = c.cells[1]
      BY <2>3, <2>4, <1>3
    <3>2. c.cells[1] = m
      BY <1>6, WayBasics DEF Holds
    <3> QED BY <3>1, <3>2
  <2>6. Need(m) <= Len(h)
    <3>1. CASE r = << >>
      <4>1. \A k \in DOMAIN r : ~Reads(r, k)
        BY <3>1
      <4>2. Len(h) = Chunks
        BY <1>3, <1>5, <2>3, <2>4, <4>1, CoversDone
      <4> QED BY <4>2, WayBasics
    <3>2. CASE ReadEnough(h)
      BY <2>3, <2>5, <3>2, WayBasics DEF ReadEnough
    <3> QED BY <1>9, <3>1, <3>2
  <2>7. Found(h) = m
    BY <1>6, <2>2, <2>6, WayBasics, FoundIs, Zenon
  <2> QED BY <1>8, <2>1, <2>7 DEF Stays
<1>10. CASE ~(r = << >> \/ ReadEnough(h))
  <2>1. s = [Onward(d, r) EXCEPT !.heard = h] /\ s.todo = r /\ s.end = "none"
    BY <1>10 DEF HeardCell, Onward
  <2>2. h \in Seq(Messages) /\ Len(h) = Len(heard) + 1
    <3>1. Head(todo).at \in Cells
      BY <1>1, CommandForms
    <3>2. card.cells \in Filled
      BY WayBasics, Families
    <3>3. v \in Messages
      BY <3>1, <3>2 DEF Filled
    <3>4. \A x \in Messages : Append(heard, x) \in Seq(Messages) /\ Len(Append(heard, x)) = Len(heard) + 1
      BY <1>3, AppendProperties
    <3> QED BY <3>3, <3>4, Zenon
  <2>3. OnTrack(c, d, stage, r, h, m)
    BY <1>5, <1>6, <2>2 DEF OnTrack
  <2> QED BY <1>8, <2>1, <2>3 DEF Stays
<1> QED BY <1>9, <1>10

(* What a call ends with that gives no cause to try it again. *)
LEMMA StaysEnded ==
    ASSUME stage = "write", NEW d, NEW h, NEW c, NEW how \in {"readOnly", "capacity", "gone"}
    PROVE  Stays(EndsWith(d, h, how), c)
<1> DEFINE s == EndsWith(d, h, how)
<1>1. s.end = how
  BY DEF EndsWith
<1> HIDE DEF s
<1>2. s.end \notin {"none", "failed", "ok"}
  BY <1>1
<1> QED BY <1>2 DEF Stays, s

(* What is written is there, and nothing else has changed. *)
LEMMA PutsAre ==
    ASSUME OnWay, Head(todo).ins = "write", NEW g, g = [card.cells EXCEPT ![Head(todo).at] = Head(todo).msg]
    PROVE  \A i \in 1..Need(task.data) : IF Puts(todo, 1, i) THEN todo[1].msg = task.data => g[i] = task.data
                                          ELSE g[i] = card.cells[i]
<1> DEFINE f == card.cells
           x == Head(todo).at
           y == Head(todo).msg
<1>1. f \in Filled /\ y \in Messages /\ g = [f EXCEPT ![x] = y]
  BY WayBasics, CommandForms, Families
<1>2. x = todo[1].at /\ y = todo[1].msg /\ todo[1].ins = "write" /\ 1 \in DOMAIN todo
  BY WayBasics
<1> HIDE DEF f, x, y
<1>3. \A i \in Cells : g[i] = IF i = x THEN y ELSE f[i]
  BY <1>1 DEF Filled
<1>4. 1..Need(task.data) \subseteq Cells
  BY WayBasics DEF Cells
<1>5. \A i : Puts(todo, 1, i) <=> x = i
  BY <1>2 DEF Puts
<1>6. ASSUME NEW i \in 1..Need(task.data)
      PROVE  IF Puts(todo, 1, i) THEN todo[1].msg = task.data => g[i] = task.data ELSE g[i] = f[i]
  <2>1. g[i] = IF i = x THEN y ELSE f[i]
    BY <1>3, <1>4
  <2> QED BY <2>1, <1>2, <1>5
<1> QED BY <1>6 DEF f

(* A page that is not locked takes what is written to it. *)
LEMMA PagePuts ==
    ASSUME NEW c \in PageCards, NEW cmd \in Commands, cmd.ins = "write", ~c.corrupt, cmd.at \in Cells,
           ~LockedPage(c, cmd.at)
    PROVE  LET a == PageAnswer(c, cmd) IN
           a.how = "ok" /\ a.card.cells = [c.cells EXCEPT ![cmd.at] = cmd.msg] /\ a.card.cells \in Filled
<1>1. PageAnswer(c, cmd) = Accepts(Put(c, cmd.at, cmd.msg))
  BY DEF PageAnswer, WriteMem
<1>2. PageAnswer(c, cmd).how = "ok"
  BY <1>1 DEF Accepts, Says
<1>3. PageAnswer(c, cmd).card \in PageCards /\ PageAnswer(c, cmd).card.cells = [c.cells EXCEPT ![cmd.at] = cmd.msg]
  BY <1>2, PageWrites
<1> QED BY <1>2, <1>3 DEF PageCards

(* A card none of whose pages is locked is ready for what is left. *)
LEMMA PageReadyTail ==
    ASSUME NEW c, NEW q \in Seq(Commands), q # << >>, PageReady(c, q),
           \A i \in Cells : ~LockedPage(c, i), NEW c2, c2.kind = c.kind, c2.static = c.static, c2.dynamic = c.dynamic
    PROVE  PageReady(c2, Tail(q))
<1>1. /\ DOMAIN q = 1..Len(q) /\ DOMAIN Tail(q) = 1..Len(q) - 1 /\ Len(q) \in Nat
      /\ \A k \in 1..Len(q) - 1 : k + 1 \in DOMAIN q /\ Tail(q)[k] = q[k + 1]
  BY TailIs
<1>2. \A i \in Cells : ~LockedPage(c2, i)
  BY DEF LockedPage, Static
<1>3. \A k \in DOMAIN Tail(q) : Tail(q)[k].ins = "write" => Tail(q)[k].at \in Cells
  BY <1>1 DEF PageReady
<1> QED BY <1>2, <1>3 DEF PageReady

(* A paged card that is not half locked takes every command of a write. *)
LEMMA PageTrack ==
    ASSUME OnWay, Family(card.kind) = "page", Head(todo).ins # "fit"
    PROVE  LET a == PageAnswer(card, Head(todo)) IN
           Stays(PageReacts(Head(todo), a.how, a.value, Tail(todo)), a.card)
<1> DEFINE cmd == Head(todo)
           a == PageAnswer(card, cmd)
           r == Tail(todo)
           m == task.data
<1>1. /\ todo \in Seq(Commands) /\ todo # << >> /\ cmd = todo[1] /\ cmd \in Commands /\ 1 \in DOMAIN todo
      /\ r \in Seq(Commands)
  BY WayBasics, TailIs
<1>2. Busy /\ card \in PageCards /\ PageReady(card, todo) /\ ~card.corrupt /\ Standing(card, drv)
  <2>1. PageReady(card, todo) /\ ~card.corrupt
    BY DEF OnWay, OnTrack, Ready, SoundCard
  <2> QED BY <2>1, PageIssues, Unmoved DEF OnWay
<1>3. stage \in {"write", "verify"}
  BY DEF OnWay
<1>4. CASE stage = "verify"
  <2>1. cmd.ins = "read" /\ Reading
    BY <1>2, <1>4, PageIssues DEF ReadsAt, Reading
  <2>2. a.card = card /\ a.how = "ok" /\ a.value = card.cells[cmd.at]
    BY <1>1, <1>2, <2>1, PageReads
  <2>3. Ready(card, drv, r)
    <3>1. \A k \in DOMAIN r : r[k].ins = "read"
      <4>1. Issues(card, stage, todo)
        BY <1>2, BusyBasics
      <4>2. Issues(card, stage, r)
        BY <1>1, <4>1, IssuesTail
      <4> QED BY <1>4, <4>2 DEF Issues, Issued, ReadsAt
    <3> QED BY <3>1 DEF Ready, PageReady
  <2>4. Stays(HeardCell(drv, card.cells[cmd.at], r), card)
    BY <1>2, <1>4, <2>1, <2>3, HeardTrack
  <2> HIDE DEF a
  <2>5. PageReacts(cmd, a.how, a.value, r) = HeardCell(drv, card.cells[cmd.at], r)
    BY <2>1, <2>2 DEF PageReacts
  <2> QED BY <2>2, <2>4, <2>5 DEF a
<1>5. CASE stage = "write"
  <2>1. cmd.ins \in {"readLock", "write"} /\ ~Reading /\ (cmd.ins = "readLock" => cmd.at = "static")
    BY <1>2, <1>5, PageIssues DEF Reading
  <2>2. CASE cmd.ins = "readLock"
    <3>1. a.card = card /\ a.how = "ok" /\ a.value = card.static
      BY <1>1, <1>2, <2>1, <2>2, PageReads
    <3> HIDE DEF a
    <3>2. CASE card.static
      <4>1. PageReacts(cmd, a.how, a.value, r) = EndsWith(drv, heard, "readOnly")
        BY <1>5, <2>1, <2>2, <3>1, <3>2 DEF PageReacts
      <4> QED BY <1>5, <3>1, <4>1, StaysEnded DEF a
    <3>3. CASE ~card.static
      <4>1. PageReacts(cmd, a.how, a.value, r) = Onward(drv, r)
        BY <1>5, <2>1, <2>2, <3>1, <3>3 DEF PageReacts
      <4>2. \A i \in Cells : ~LockedPage(card, i)
        <5>1. 1 \in Cells /\ ~LockedPage(card, 1)
          BY <3>3, ChunksAssumption DEF Cells, LockedPage, Static
        <5>2. Whole(card) \/ \A i \in Cells : ~LockedPage(card, i)
          BY DEF OnWay, SoundCard
        <5> QED BY <5>1, <5>2 DEF Whole
      <4>3. Ready(card, drv, r)
        BY <1>1, <1>2, <4>2, PageReadyTail DEF Ready
      <4>4. \A i \in 1..Need(m) : ~Puts(todo, 1, i)
        BY <1>1, <2>2 DEF Puts
      <4>5. Stays(Onward(drv, r), card)
        BY <1>5, <2>2, <4>3, <4>4, OnwardTrack
      <4> QED BY <3>1, <4>1, <4>5 DEF a
    <3> QED BY <3>2, <3>3
  <2>3. CASE cmd.ins = "write"
    <3>1. cmd.at \in Cells /\ \A i \in Cells : ~LockedPage(card, i)
      BY <1>1, <1>2, <2>3 DEF PageReady
    <3>2. a.how = "ok" /\ a.card.cells = [card.cells EXCEPT ![cmd.at] = cmd.msg]
      BY <1>1, <1>2, <2>3, <3>1, PagePuts
    <3>3. a.card \in PageCards /\ a.card.kind = card.kind /\ a.card.static = card.static /\ a.card.dynamic = card.dynamic
      BY <1>1, <1>2, <2>3, PageWrites
    <3>4. Ready(a.card, drv, r)
      <4>1. PageReady(a.card, r)
        BY <1>1, <1>2, <3>1, <3>3, PageReadyTail
      <4> QED BY <3>3, <4>1 DEF Ready
    <3>5. \A i \in 1..Need(m) : IF Puts(todo, 1, i) THEN todo[1].msg = m => a.card.cells[i] = m
                                ELSE a.card.cells[i] = card.cells[i]
      <4> DEFINE g == a.card.cells
      <4>1. g = [card.cells EXCEPT ![cmd.at] = cmd.msg]
        BY <3>2
      <4> HIDE DEF g
      <4>2. \A i \in 1..Need(m) : IF Puts(todo, 1, i) THEN todo[1].msg = m => g[i] = m ELSE g[i] = card.cells[i]
        BY <2>3, <4>1, PutsAre
      <4> QED BY <4>2 DEF g
    <3>6. Stays(Onward(drv, r), a.card)
      <4> HIDE DEF a
      <4> QED BY <1>5, <2>3, <3>4, <3>5, OnwardTrack
    <3> HIDE DEF a
    <3>7. PageReacts(cmd, a.how, a.value, r) = Onward(drv, r)
      BY <1>5, <2>1, <2>3, <3>2 DEF PageReacts
    <3> QED BY <3>6, <3>7 DEF a
  <2> QED BY <2>1, <2>2, <2>3
<1> QED BY <1>3, <1>4, <1>5

(* What is left of Select is left of it when its next command is taken. *)
LEMMA SelectTail ==
    ASSUME NEW q \in Seq(Commands), q # << >>, NEW n \in 0..4, n <= Len(q),
           \A i \in 1..n : q[i] = Select[4 - n + i],
           \A k \in DOMAIN q : k > n => q[k].ins \in {"read", "write", "fit"}
    PROVE  LET r == Tail(q)
               l == IF n = 0 THEN 0 ELSE n - 1 IN
           /\ l \in 0..4 /\ l <= Len(r) /\ \A i \in 1..l : r[i] = Select[4 - l + i]
           /\ \A k \in DOMAIN r : k > l => r[k].ins \in {"read", "write", "fit"}
<1> DEFINE r == Tail(q)
           l == IF n = 0 THEN 0 ELSE n - 1
<1>1. /\ DOMAIN q = 1..Len(q) /\ DOMAIN r = 1..Len(q) - 1 /\ Len(q) \in Nat \ {0} /\ Len(r) = Len(q) - 1
      /\ \A k \in 1..Len(q) - 1 : k + 1 \in DOMAIN q /\ r[k] = q[k + 1]
  BY TailIs
<1> HIDE DEF r
<1>2. l \in 0..4 /\ l <= Len(r)
  BY <1>1
<1>3. ASSUME NEW i \in 1..l PROVE r[i] = Select[4 - l + i]
  <2>1. n > 0 /\ i + 1 \in 1..n /\ i \in 1..Len(q) - 1 /\ 4 - l + i = 4 - n + (i + 1)
    BY <1>1, <1>3
  <2> QED BY <1>1, <2>1
<1>4. ASSUME NEW k \in DOMAIN r, k > l PROVE r[k].ins \in {"read", "write", "fit"}
  <2>1. k + 1 \in DOMAIN q /\ k + 1 > n /\ r[k] = q[k + 1]
    BY <1>1, <1>4
  <2> QED BY <2>1
<1> QED BY <1>2, <1>3, <1>4 DEF r

(* A file takes each command of a call in its place. *)
LEMMA Type4Step ==
    ASSUME NEW c \in Type4Cards, NEW q \in Seq(Commands), q # << >>, Type4Ready(c, q), Head(q).ins # "fit"
    PROVE  LET a == Type4Answer(c, Head(q)) IN
           /\ a.how = "ok" /\ Type4Ready(a.card, Tail(q))
           /\ a.card.cells = IF Head(q).ins = "write" THEN [c.cells EXCEPT ![Head(q).at] = Head(q).msg] ELSE c.cells
           /\ Head(q).ins = "read" => a.value = c.cells[Head(q).at]
<1> DEFINE cmd == Head(q)
           a == Type4Answer(c, cmd)
           r == Tail(q)
<1>1. PICK n \in 0..4 :
        /\ n <= Len(q) /\ \A i \in 1..n : q[i] = Select[4 - n + i]
        /\ \A k \in DOMAIN q : k > n => q[k].ins \in {"read", "write", "fit"}
        /\ n < 4 => c.app
        /\ n \in {1, 2} => c.file = "cc"
        /\ n = 0 => c.file = "ndef"
  BY DEF Type4Ready
<1>2. cmd = q[1] /\ 1 \in DOMAIN q
  BY TailIs
<1> DEFINE l == IF n = 0 THEN 0 ELSE n - 1
<1>3. /\ l \in 0..4 /\ l <= Len(r) /\ \A i \in 1..l : r[i] = Select[4 - l + i]
      /\ \A k \in DOMAIN r : k > l => r[k].ins \in {"read", "write", "fit"}
  BY <1>1, SelectTail
<1> HIDE DEF r
<1>4. ASSUME NEW e, l < 4 => e.app, l \in {1, 2} => e.file = "cc", l = 0 => e.file = "ndef"
      PROVE  Type4Ready(e, r)
  BY <1>3, <1>4 DEF Type4Ready
<1>5. CASE n = 4
  <2>1. cmd = Select[1]
    BY <1>1, <1>2, <1>5
  <2>2. cmd = [ins |-> "selectApp"]
    BY <2>1 DEF Select
  <2>3. a = Accepts([c EXCEPT !.app = TRUE, !.file = "none"])
    BY <2>2 DEF Type4Answer
  <2>4. a.how = "ok" /\ a.card = [c EXCEPT !.app = TRUE, !.file = "none"]
    BY <2>3 DEF Accepts, Says
  <2>5. a.card.app /\ a.card.cells = c.cells
    BY <2>4 DEF Type4Cards
  <2>6. Type4Ready(a.card, r)
    BY <1>4, <1>5, <2>5
  <2> QED BY <2>2, <2>4, <2>5, <2>6 DEF r
<1>6. CASE n = 3
  <2>1. cmd = Select[2]
    BY <1>1, <1>2, <1>6
  <2>2. cmd = [ins |-> "selectFile", at |-> "cc"]
    BY <2>1 DEF Select
  <2>3. a = Accepts([c EXCEPT !.file = "cc"])
    BY <1>1, <1>6, <2>2 DEF Type4Answer
  <2>4. a.how = "ok" /\ a.card = [c EXCEPT !.file = "cc"]
    BY <2>3 DEF Accepts, Says
  <2>5. a.card.app /\ a.card.cells = c.cells /\ a.card.file = "cc"
    BY <1>1, <1>6, <2>4 DEF Type4Cards
  <2>6. Type4Ready(a.card, r)
    BY <1>4, <1>6, <2>5
  <2> QED BY <2>2, <2>4, <2>5, <2>6 DEF r
<1>7. CASE n = 2
  <2>1. cmd = Select[3]
    BY <1>1, <1>2, <1>7
  <2>2. cmd = [ins |-> "readCC"]
    BY <2>1 DEF Select
  <2>3. a = Accepts(c)
    BY <1>1, <1>7, <2>2 DEF Type4Answer
  <2>4. a.how = "ok" /\ a.card = c
    BY <2>3 DEF Accepts, Says
  <2>6. Type4Ready(a.card, r)
    BY <1>1, <1>4, <1>7, <2>4
  <2> QED BY <2>2, <2>4, <2>6 DEF r
<1>8. CASE n = 1
  <2>1. cmd = Select[4]
    BY <1>1, <1>2, <1>8
  <2>2. cmd = [ins |-> "selectFile", at |-> "ndef"]
    BY <2>1 DEF Select
  <2>3. a = Accepts([c EXCEPT !.file = "ndef"])
    BY <1>1, <1>8, <2>2 DEF Type4Answer
  <2>4. a.how = "ok" /\ a.card = [c EXCEPT !.file = "ndef"]
    BY <2>3 DEF Accepts, Says
  <2>5. a.card.app /\ a.card.cells = c.cells /\ a.card.file = "ndef"
    BY <1>1, <1>8, <2>4 DEF Type4Cards
  <2>6. Type4Ready(a.card, r)
    BY <1>4, <1>8, <2>5
  <2> QED BY <2>2, <2>4, <2>5, <2>6 DEF r
<1>9. CASE n = 0
  <2>1. cmd.ins \in {"read", "write"} /\ c.file = "ndef" /\ c.app
    BY <1>1, <1>2, <1>9
  <2>2. CASE cmd.ins = "read"
    <3>1. a = Says(c, c.cells[cmd.at])
      BY <2>1, <2>2 DEF Type4Answer
    <3>2. a.how = "ok" /\ a.card = c /\ a.value = c.cells[cmd.at]
      BY <3>1 DEF Says
    <3>3. Type4Ready(a.card, r)
      BY <1>4, <1>9, <2>1, <3>2
    <3> QED BY <2>2, <3>2, <3>3 DEF r
  <2>3. CASE cmd.ins = "write"
    <3>1. a = Accepts(Put(c, cmd.at, cmd.msg))
      BY <2>1, <2>3 DEF Type4Answer
    <3>2. a.how = "ok" /\ a.card = Put(c, cmd.at, cmd.msg)
      BY <3>1 DEF Accepts, Says
    <3>3. a.card.app /\ a.card.file = "ndef" /\ a.card.cells = [c.cells EXCEPT ![cmd.at] = cmd.msg]
      BY <2>1, <3>2 DEF Put, Type4Cards
    <3>4. Type4Ready(a.card, r)
      BY <1>4, <1>9, <2>1, <3>3
    <3> QED BY <2>3, <3>2, <3>3, <3>4 DEF r
  <2> QED BY <2>1, <2>2, <2>3
<1> QED BY <1>5, <1>6, <1>7, <1>8, <1>9

(* A Type 4 file takes every command of a write, in the order it is sent (FileReacts). *)
LEMMA Type4Track ==
    ASSUME OnWay, Family(card.kind) = "type4", Head(todo).ins # "fit"
    PROVE  LET a == Type4Answer(card, Head(todo)) IN
           Stays(FileReacts(Head(todo), a.how, a.value, Tail(todo)), a.card)
<1> DEFINE cmd == Head(todo)
           a == Type4Answer(card, cmd)
           c == a.card
           r == Tail(todo)
           m == task.data
<1>1. /\ todo \in Seq(Commands) /\ todo # << >> /\ cmd = todo[1] /\ cmd \in Commands /\ 1 \in DOMAIN todo
      /\ r \in Seq(Commands) /\ Busy /\ stage \in {"write", "verify"}
  BY WayBasics, TailIs DEF OnWay
<1>2. card \in Type4Cards /\ Type4Ready(card, todo)
  BY WayBasics, Families DEF OnWay, OnTrack, Ready
<1>3. /\ a.how = "ok" /\ Type4Ready(c, r)
      /\ c.cells = IF cmd.ins = "write" THEN [card.cells EXCEPT ![cmd.at] = cmd.msg] ELSE card.cells
      /\ cmd.ins = "read" => a.value = card.cells[cmd.at]
  BY <1>1, <1>2, Type4Step
<1>4. cmd.ins \in {"selectApp", "selectFile", "readCC", "read", "write"} /\ (cmd.ins = "read" <=> Reading /\ cmd.ins = "read")
      /\ (stage = "verify" => cmd.ins # "write")
  BY <1>1, BusyBasics DEF Issued, ReadsAt, Reading
<1>5. c \in Type4Cards /\ c.kind = card.kind
  BY <1>1, <1>2, <1>4, Type4Answers
<1> HIDE DEF a
<1>6. Ready(c, drv, r) /\ Family(c.kind) = "type4"
  BY <1>3, <1>5 DEF Ready
<1>7. CASE cmd.ins = "read"
  <2>1. FileReacts(cmd, a.how, a.value, r) = HeardCell(drv, card.cells[cmd.at], r)
    BY <1>3, <1>4, <1>7 DEF FileReacts
  <2>2. Standing(c, drv)
    <3>1. CardOK(c)
      BY <1>5, <1>6 DEF CardOK, Cards
    <3>2. DriverOK(c, drv) /\ TaskOK(c, stage, task)
      BY <1>1, <1>5, <1>6 DEF Busy, DriverOK, TaskOK
    <3> QED BY <1>5, <3>1, <3>2 DEF Standing
  <2>3. stage = "verify" /\ c.cells = card.cells
    BY <1>1, <1>3, <1>4, <1>7 DEF Reading
  <2>4. Stays(HeardCell(drv, card.cells[cmd.at], r), c)
    BY <1>6, <1>7, <2>2, <2>3, HeardTrack
  <2> QED BY <2>1, <2>4 DEF a
<1>8. CASE cmd.ins # "read"
  <2>1. FileReacts(cmd, a.how, a.value, r) = Onward(drv, r)
    BY <1>3, <1>4, <1>8 DEF FileReacts
  <2>2. \A i \in 1..Need(m) : IF Puts(todo, 1, i) THEN todo[1].msg = m => c.cells[i] = m ELSE c.cells[i] = card.cells[i]
    <3> DEFINE g == c.cells
    <3>1. cmd.ins = "write" => g = [card.cells EXCEPT ![cmd.at] = cmd.msg]
      BY <1>3
    <3>2. cmd.ins # "write" => g = card.cells
      BY <1>3
    <3> HIDE DEF g
    <3>3. CASE cmd.ins = "write"
      <4>1. \A i \in 1..Need(m) : IF Puts(todo, 1, i) THEN todo[1].msg = m => g[i] = m ELSE g[i] = card.cells[i]
        BY <3>1, <3>3, PutsAre
      <4> QED BY <4>1 DEF g
    <3>4. CASE cmd.ins # "write"
      <4>1. \A i : ~Puts(todo, 1, i)
        BY <1>1, <3>4 DEF Puts
      <4> QED BY <3>2, <3>4, <4>1 DEF g
    <3> QED BY <3>3, <3>4
  <2>3. Head(todo).ins \notin {"enter", "read"} /\ (stage = "verify" => c.cells = card.cells)
    BY <1>3, <1>4, <1>8
  <2>4. Stays(Onward(drv, r), c)
    BY <1>6, <2>2, <2>3, OnwardTrack
  <2> QED BY <2>1, <2>4 DEF a
<1> QED BY <1>7, <1>8

(* A selected application stays selected for what is left. *)
LEMMA DesfireReadyTail ==
    ASSUME NEW c, NEW d, NEW q \in Seq(Commands), q # << >>, DesfireReady(c, d, q), NEW c2, c2.selected,
           NEW d2, \/ d2.probed = d.probed /\ d2.rights = d.rights
                   \/ q[1].ins = "settings"
    PROVE  DesfireReady(c2, d2, Tail(q))
<1> DEFINE r == Tail(q)
<1>1. /\ DOMAIN q = 1..Len(q) /\ DOMAIN r = 1..Len(q) - 1 /\ Len(q) \in Nat \ {0} /\ Len(r) = Len(q) - 1
      /\ \A k \in 1..Len(q) - 1 : k + 1 \in DOMAIN q /\ r[k] = q[k + 1]
  BY TailIs
<1> HIDE DEF r
<1>2. \A k \in DOMAIN r : r[k].ins \in {"select", "settings", "enter", "read", "write"}
  BY <1>1 DEF DesfireReady
<1>3. ASSUME NEW j \in DOMAIN r, NEW k \in DOMAIN r, r[j].ins \in {"read", "write"} PROVE r[k].ins = r[j].ins
  <2>1. j + 1 \in DOMAIN q /\ r[j] = q[j + 1] /\ k + 1 \in DOMAIN q /\ r[k] = q[k + 1]
    BY <1>1
  <2> QED BY <1>3, <2>1 DEF DesfireReady
<1>4. ASSUME NEW k \in DOMAIN r, r[k].ins \in {"select", "settings"} PROVE k < Len(r)
  <2>1. k + 1 \in DOMAIN q /\ r[k] = q[k + 1]
    BY <1>1, <1>4
  <2>2. k + 1 < Len(q)
    BY <1>4, <2>1 DEF DesfireReady
  <2> QED BY <1>1, <1>4, <2>2
<1>5. ASSUME d2.probed, NEW k \in DOMAIN r, r[k].ins = "write" PROVE d2.rights.write = "free"
  <2>1. k + 1 \in DOMAIN q /\ r[k] = q[k + 1] /\ 1 \in DOMAIN q
    BY <1>1, <1>5
  <2>2. q[1].ins = "write"
    BY <1>5, <2>1 DEF DesfireReady
  <2>3. d2.probed = d.probed /\ d2.rights = d.rights
    BY <2>2
  <2> QED BY <1>5, <2>1, <2>3 DEF DesfireReady
<1> QED BY <1>2, <1>3, <1>4, <1>5 DEF DesfireReady, r

(* A file whose rights name no key takes each command of a call. *)
LEMMA DesfireStep ==
    ASSUME NEW c \in DESFireCards, NEW cmd \in Commands, NEW inStep, ~Withheld(c.rights),
           cmd.ins \in {"select", "settings", "read", "write"}, c.selected \/ cmd.ins = "select"
    PROVE  LET a == DesfireAnswer(c, cmd, inStep) IN
           /\ a.how = "ok" /\ a.card.selected
           /\ a.card.cells = IF cmd.ins = "write" THEN [c.cells EXCEPT ![cmd.at] = cmd.msg] ELSE c.cells
           /\ cmd.ins = "settings" => a.value = c.rights
           /\ cmd.ins = "read" => a.value = c.cells[cmd.at]
<1> DEFINE a == DesfireAnswer(c, cmd, inStep)
<1>1. c.rights.read # "key" /\ c.rights.write # "key"
  <2>1. DOMAIN c.rights = {"read", "write", "change"}
    BY DEF DESFireCards, Rights
  <2> QED BY <2>1 DEF Withheld
<1>2. CASE cmd.ins = "select"
  <2>1. a = Accepts([c EXCEPT !.selected = TRUE])
    BY <1>2 DEF DesfireAnswer
  <2> QED BY <1>2, <2>1 DEF Accepts, Says, DESFireCards
<1>3. CASE cmd.ins = "settings"
  <2>1. a = Says(c, c.rights)
    BY <1>3 DEF DesfireAnswer
  <2> QED BY <1>3, <2>1 DEF Says
<1>4. CASE cmd.ins = "read"
  <2>1. a = Says(c, c.cells[cmd.at])
    BY <1>1, <1>4 DEF DesfireAnswer, DesfireFile
  <2> QED BY <1>4, <2>1 DEF Says
<1>5. CASE cmd.ins = "write"
  <2>1. a = Accepts(Put(c, cmd.at, cmd.msg))
    BY <1>1, <1>5 DEF DesfireAnswer, DesfireFile
  <2>2. a.how = "ok" /\ a.card = Put(c, cmd.at, cmd.msg)
    BY <2>1 DEF Accepts, Says
  <2>3. c.selected
    BY <1>5
  <2>4. a.card.selected /\ a.card.cells = [c.cells EXCEPT ![cmd.at] = cmd.msg]
    BY <2>2, <2>3 DEF Put, DESFireCards
  <2> QED BY <1>5, <2>2, <2>4
<1> QED BY <1>2, <1>3, <1>4, <1>5

(* A DESFire file whose rights name no key takes every command of a write
   (DesfireReacts). *)
LEMMA DesfireTrack ==
    ASSUME OnWay, Family(card.kind) = "desfire", Head(todo).ins # "enter", NEW inStep, NEW answered
    PROVE  LET a == DesfireAnswer(card, Head(todo), inStep) IN
           Stays(DesfireReacts(Head(todo), a.how, a.value, answered, Tail(todo)), a.card)
<1> DEFINE cmd == Head(todo)
           a == DesfireAnswer(card, cmd, inStep)
           c == a.card
           r == Tail(todo)
           m == task.data
<1>1. /\ todo \in Seq(Commands) /\ todo # << >> /\ cmd = todo[1] /\ cmd \in Commands /\ 1 \in DOMAIN todo
      /\ r \in Seq(Commands) /\ Busy /\ stage \in {"write", "verify"} /\ Standing(card, drv)
  BY WayBasics, TailIs, Unmoved DEF OnWay
<1>2. card \in DESFireCards /\ DesfireReady(card, drv, todo) /\ ~Withheld(card.rights) /\ ~Withheld(drv.rights)
  BY WayBasics, Families DEF OnWay, OnTrack, Ready, SoundCard
<1>3. /\ cmd.ins \in {"select", "settings", "read", "write"} /\ (card.selected \/ cmd.ins = "select")
      /\ (stage = "verify" => cmd.ins # "write") /\ (cmd.ins = "read" => Reading /\ stage = "verify")
  <2>1. cmd.ins \in {"select", "settings", "read", "write"} /\ (card.selected \/ cmd.ins = "select")
    BY <1>1, <1>2 DEF DesfireReady
  <2> QED BY <1>1, <1>2, <2>1, DesfireIssues DEF ReadsAt, Reading
<1>4. /\ a.how = "ok" /\ c.selected
      /\ c.cells = IF cmd.ins = "write" THEN [card.cells EXCEPT ![cmd.at] = cmd.msg] ELSE card.cells
      /\ cmd.ins = "settings" => a.value = card.rights
      /\ cmd.ins = "read" => a.value = card.cells[cmd.at]
  BY <1>1, <1>2, <1>3, DesfireStep
<1>5. c \in DESFireCards /\ c.kind = card.kind
  BY <1>1, <1>2, <1>3, DesfireAnswers DEF DesfireCommands
<1> HIDE DEF a
<1>6. ~Keyed(cmd)
  <2>1. CASE drv.probed /\ cmd.ins \in {"read", "write"}
    <3>1. drv.rights \in Rights
      BY <1>1, <2>1 DEF Busy, DriverOK
    <3>2. drv.rights.read = "free"
      BY <1>2, <3>1 DEF Withheld, Rights
    <3>3. cmd.ins = "write" => drv.rights.write = "free"
      BY <1>1, <1>2, <2>1 DEF DesfireReady
    <3> QED BY <2>1, <3>2, <3>3 DEF Keyed, RightFor
  <2> QED BY <1>3, <2>1 DEF Keyed
<1>7. DriverAfter(cmd, a.how, answered) = drv
  BY <1>3, <1>6 DEF DriverAfter, Slipped
<1>8. Family(c.kind) = "desfire"
  BY <1>5
<1>9. CASE cmd.ins = "read"
  <2>1. DesfireReacts(cmd, a.how, a.value, answered, r) = HeardCell(drv, card.cells[cmd.at], r)
    BY <1>4, <1>6, <1>7, <1>9 DEF DesfireReacts
  <2>2. stage = "verify" /\ c.cells = card.cells
    BY <1>3, <1>4, <1>9
  <2>3. Standing(c, drv)
    <3>1. CardOK(c)
      BY <1>5, <1>8 DEF CardOK, Cards
    <3>2. c.rights = card.rights
      BY <1>1, <1>2, <1>9, DesfireAnswers DEF DesfireCommands, a
    <3>3. DriverOK(c, drv) /\ TaskOK(c, stage, task)
      BY <1>1, <1>5, <1>8, <2>2, <3>2 DEF Busy, DriverOK, TaskOK
    <3> QED BY <1>5, <3>1, <3>3 DEF Standing
  <2>4. Ready(c, drv, r)
    BY <1>1, <1>2, <1>4, <1>8, DesfireReadyTail DEF Ready
  <2>5. Stays(HeardCell(drv, card.cells[cmd.at], r), c)
    BY <1>8, <1>9, <2>2, <2>3, <2>4, HeardTrack
  <2> QED BY <2>1, <2>5 DEF a
<1>10. CASE cmd.ins # "read"
  <2>1. PICK d : /\ DesfireReacts(cmd, a.how, a.value, answered, r) = Onward(d, r)
                 /\ (d.probed = drv.probed /\ d.rights = drv.rights) \/ cmd.ins = "settings"
    <3>1. CASE cmd.ins = "settings"
      BY <1>4, <1>7, <3>1 DEF DesfireReacts
    <3>2. CASE cmd.ins \in {"select", "write"}
      BY <1>4, <1>6, <1>7, <3>2 DEF DesfireReacts
    <3> QED BY <1>3, <1>10, <3>1, <3>2
  <2>2. Ready(c, d, r)
    <3>1. DesfireReady(c, d, r)
      BY <1>1, <1>2, <1>4, <2>1, DesfireReadyTail
    <3> QED BY <1>8, <3>1 DEF Ready
  <2>3. \A i \in 1..Need(m) : IF Puts(todo, 1, i) THEN todo[1].msg = m => c.cells[i] = m ELSE c.cells[i] = card.cells[i]
    <3> DEFINE g == c.cells
    <3>1. cmd.ins = "write" => g = [card.cells EXCEPT ![cmd.at] = cmd.msg]
      BY <1>4
    <3>2. cmd.ins # "write" => g = card.cells
      BY <1>4
    <3> HIDE DEF g
    <3>3. CASE cmd.ins = "write"
      <4>1. \A i \in 1..Need(m) : IF Puts(todo, 1, i) THEN todo[1].msg = m => g[i] = m ELSE g[i] = card.cells[i]
        BY <3>1, <3>3, PutsAre
      <4> QED BY <4>1 DEF g
    <3>4. CASE cmd.ins # "write"
      <4>1. \A i : ~Puts(todo, 1, i)
        BY <1>1, <3>4 DEF Puts
      <4> QED BY <3>2, <3>4, <4>1 DEF g
    <3> QED BY <3>3, <3>4
  <2>4. Head(todo).ins \notin {"enter", "read"} /\ (stage = "verify" => c.cells = card.cells)
    BY <1>3, <1>4, <1>10
  <2>5. Stays(Onward(d, r), c)
    BY <2>2, <2>3, <2>4, OnwardTrack
  <2> QED BY <2>1, <2>5 DEF a
<1> QED BY <1>9, <1>10

(* The trailers of a sound card, and the keys of each. *)
LEMMA TrailerIs ==
    ASSUME NEW t \in {Factory, Formats.mad, Formats.ndef}
    PROVE  /\ t.b = "factory" /\ (t = Factory => t.a = "factory" /\ t.access = "transport")
           /\ t # Factory => t.a \in PublicKeys /\ t.access \in {"mad", "ndef"}
BY DEF Factory, Formats, Trailer, PublicKeys

(* A key that leads into a factory sector leads into any sound one. *)
LEMMA ReadyWithout ==
    ASSUME NEW t, NEW cmd, Leads(Factory, cmd)
    PROVE  Leads(t, cmd)
BY DEF Leads

(* A sector that has been opened is open for what is left. *)
LEMMA ClassicReadyTail ==
    ASSUME NEW c, NEW q \in Seq(Commands), q # << >>, ClassicReady(c, q), NEW c2,
           q[1].ins \in {"auth", "write"} => InSector(c2, q[1].at)
    PROVE  ClassicReady(c2, Tail(q))
<1> DEFINE r == Tail(q)
<1>1. /\ DOMAIN q = 1..Len(q) /\ DOMAIN r = 1..Len(q) - 1 /\ Len(q) \in Nat \ {0} /\ Len(r) = Len(q) - 1
      /\ \A k \in 1..Len(q) - 1 : k + 1 \in DOMAIN q /\ r[k] = q[k + 1]
  BY TailIs
<1> HIDE DEF r
<1>2. ASSUME NEW k \in DOMAIN r, r[k].ins = "auth"
      PROVE  r[k].at \in 0..Chunks /\ Leads(IF k = 1 THEN c2.trailers[r[1].at] ELSE Factory, r[k])
  <2>1. k + 1 \in DOMAIN q /\ r[k] = q[k + 1] /\ k + 1 # 1
    BY <1>1, <1>2
  <2>2. r[k].at \in 0..Chunks /\ Leads(Factory, r[k])
    BY <1>2, <2>1 DEF ClassicReady
  <2> QED BY <2>2, ReadyWithout
<1>3. ASSUME NEW k \in DOMAIN r, r[k].ins \in {"read", "write", "trailer"}
      PROVE  /\ r[k].at \in 0..Chunks
             /\ IF k = 1 THEN InSector(c2, r[1].at) ELSE r[k - 1].ins \in {"auth", "write"} /\ r[k - 1].at = r[k].at
  <2>1. k + 1 \in DOMAIN q /\ r[k] = q[k + 1] /\ k + 1 # 1 /\ k + 1 - 1 = k
    BY <1>1, <1>3
  <2>2. r[k].at \in 0..Chunks /\ q[k].ins \in {"auth", "write"} /\ q[k].at = r[k].at
    <3> DEFINE x == k + 1
    <3>1. x \in DOMAIN q /\ q[x] = r[k] /\ x # 1 /\ x - 1 = k
      BY <1>1, <2>1
    <3> HIDE DEF x
    <3>2. q[x].at \in 0..Chunks /\ q[x - 1].ins \in {"auth", "write"} /\ q[x - 1].at = q[x].at
      BY <1>3, <3>1 DEF ClassicReady
    <3> QED BY <3>1, <3>2
  <2>3. CASE k = 1
    <3>1. q[1].ins \in {"auth", "write"} /\ q[1].at = r[1].at
      BY <2>2, <2>3
    <3>2. InSector(c2, r[1].at)
      BY <3>1
    <3> QED BY <2>2, <2>3, <3>2
  <2>4. CASE k # 1
    <3>1. k - 1 \in 1..Len(q) - 1 /\ (k - 1) + 1 = k
      BY <1>1, <2>4
    <3>2. r[k - 1] = q[k]
      BY <1>1, <3>1
    <3> QED BY <2>2, <2>4, <3>2
  <2> QED BY <2>3, <2>4
<1> QED BY <1>2, <1>3 DEF ClassicReady, r

(* The same sector, tried with another key. *)
LEMMA FirstIs ==
    ASSUME NEW q \in Seq(Commands), q # << >>, NEW x \in Commands
    PROVE  LET p == <<x>> \o Tail(q) IN
           /\ p \in Seq(Commands) /\ p # << >> /\ Len(p) = Len(q) /\ DOMAIN p = DOMAIN q /\ p[1] = x
           /\ \A k \in DOMAIN q : k # 1 => p[k] = q[k]
<1> DEFINE r == Tail(q)
<1>1. /\ DOMAIN q = 1..Len(q) /\ Len(q) \in Nat \ {0} /\ Len(r) = Len(q) - 1 /\ r \in Seq(Commands)
      /\ \A k \in 1..Len(q) - 1 : r[k] = q[k + 1]
  BY TailIs
<1> HIDE DEF r
<1>2. <<x>> \in Seq(Commands) /\ Len(<<x>>) = 1 /\ <<x>>[1] = x
  OBVIOUS
<1> DEFINE u == <<x>>
           p == u \o r
<1>3. u \in Seq(Commands) /\ Len(u) = 1 /\ u[1] = x
  BY <1>2
<1> HIDE DEF u
<1>5. /\ p \in Seq(Commands) /\ Len(p) = 1 + Len(r) /\ DOMAIN p = 1..1 + Len(r)
      /\ \A k \in 1..1 : p[k] = u[k]
      /\ \A k \in 1..Len(r) : p[1 + k] = r[k]
  <2>1. /\ u \o r \in Seq(Commands) /\ Len(u \o r) = Len(u) + Len(r) /\ DOMAIN (u \o r) = 1..Len(u) + Len(r)
        /\ \A k \in 1..Len(u) : (u \o r)[k] = u[k]
        /\ \A k \in 1..Len(r) : Len(u) + k \in 1..Len(u) + Len(r) /\ (u \o r)[Len(u) + k] = r[k]
    <3>1. u \in Seq(Commands) /\ r \in Seq(Commands)
      BY <1>1, <1>3
    <3> QED BY <3>1, Joined
  <2> QED BY <1>3, <2>1
<1> HIDE DEF p
<1>6. Len(p) = Len(q) /\ p[1] = x /\ DOMAIN p = 1..Len(q) /\ p # << >>
  BY <1>1, <1>3, <1>5
<1>4. ASSUME NEW k \in DOMAIN q, k # 1 PROVE p[k] = q[k]
  <2>1. k - 1 \in 1..Len(q) - 1 /\ k - 1 + 1 = k
    BY <1>1, <1>4
  <2>2. p[1 + (k - 1)] = r[k - 1]
    BY <1>1, <1>5, <2>1
  <2> QED BY <1>1, <2>1, <2>2
<1> QED BY <1>1, <1>4, <1>5, <1>6 DEF p, u, r

(* A sector tried with the next key is as before (authenticateSector). *)
LEMMA AnotherKey ==
    ASSUME OnWay, Family(card.kind) = "classic", Head(todo).ins = "auth", NEW x \in Commands, x.ins = "auth",
           x.at = Head(todo).at, Leads(card.trailers[x.at], x)
    PROVE  Stays(Onward(drv, <<x>> \o Tail(todo)), card)
<1> DEFINE m == task.data
<1>1. /\ todo \in Seq(Commands) /\ todo # << >> /\ Head(todo) = todo[1] /\ 1 \in DOMAIN todo
      /\ stage \in {"write", "verify"}
  BY WayBasics DEF OnWay
<1>2. PICK p : p = <<x>> \o Tail(todo)
  OBVIOUS
<1>3. /\ p \in Seq(Commands) /\ p # << >> /\ Len(p) = Len(todo) /\ DOMAIN p = DOMAIN todo /\ p[1] = x
      /\ \A k \in DOMAIN todo : k # 1 => p[k] = todo[k]
  BY <1>1, <1>2, FirstIs
<1>4. ClassicReady(card, p)
  <2>0. ClassicReady(card, todo)
    BY DEF OnWay, OnTrack, Ready
  <2>1. ASSUME NEW k \in DOMAIN p, p[k].ins = "auth"
        PROVE  p[k].at \in 0..Chunks /\ Leads(IF k = 1 THEN card.trailers[p[1].at] ELSE Factory, p[k])
    <3>1. CASE k = 1
      <4>1. todo[1].at \in 0..Chunks
        BY <1>1, <2>0 DEF ClassicReady
      <4> QED BY <1>1, <1>3, <3>1, <4>1
    <3>2. CASE k # 1
      BY <1>3, <2>0, <2>1, <3>2 DEF ClassicReady
    <3> QED BY <3>1, <3>2
  <2>2. ASSUME NEW k \in DOMAIN p, p[k].ins \in {"read", "write", "trailer"}
        PROVE  /\ p[k].at \in 0..Chunks
               /\ IF k = 1 THEN InSector(card, p[1].at) ELSE p[k - 1].ins \in {"auth", "write"} /\ p[k - 1].at = p[k].at
    <3>1. k # 1 /\ p[k] = todo[k] /\ k \in DOMAIN todo
      BY <1>3, <2>2
    <3>2. p[k].at \in 0..Chunks /\ todo[k - 1].ins \in {"auth", "write"} /\ todo[k - 1].at = p[k].at
      BY <2>0, <2>2, <3>1 DEF ClassicReady
    <3>3. k - 1 \in DOMAIN todo
      BY <1>1, <3>1
    <3>4. p[k - 1].ins \in {"auth", "write"} /\ p[k - 1].at = p[k].at
      <4>1. CASE k - 1 = 1
        BY <1>1, <1>3, <3>2, <4>1
      <4>2. CASE k - 1 # 1
        BY <1>3, <3>2, <3>3, <4>2
      <4> QED BY <4>1, <4>2
    <3> QED BY <3>1, <3>2, <3>4
  <2> QED BY <2>1, <2>2 DEF ClassicReady
<1>5. \A k : /\ p[k].ins \in {"write", "read", "enter"} /\ k \in DOMAIN p => k # 1
             /\ todo[k].ins \in {"write", "read", "enter"} /\ k \in DOMAIN todo => k # 1
  BY <1>1, <1>3
<1>6. Enters(todo) => Enters(p)
  BY <1>3, <1>5 DEF Enters
<1>7. \A i, k : Puts(p, k, i) <=> Puts(todo, k, i)
  BY <1>3, <1>5 DEF Puts
<1>8. \A i : Due(card, todo, i, m) => Due(card, p, i, m)
  <2> SUFFICES ASSUME NEW i, Due(card, todo, i, m) PROVE Due(card, p, i, m)
    OBVIOUS
  <2>1. \A k : Puts(p, k, i) => k \in DOMAIN todo /\ p[k] = todo[k]
    BY <1>3, <1>5 DEF Puts
  <2>2. ASSUME NEW j \in DOMAIN p, Puts(p, j, i), p[j].msg # m
        PROVE  \E k \in j + 1..Len(p) : Puts(p, k, i) /\ p[k].msg = m
    <3>1. PICK k \in j + 1..Len(todo) : Puts(todo, k, i) /\ todo[k].msg = m
      BY <1>7, <2>1, <2>2 DEF Due
    <3> QED BY <1>3, <1>7, <2>1, <3>1
  <2>3. card.cells[i] = m \/ \E k \in DOMAIN p : Puts(p, k, i) /\ p[k].msg = m
    BY <1>3, <1>7, <2>1 DEF Due
  <2> QED BY <2>2, <2>3 DEF Due
<1>9. \A n : Covers(todo, n) => Covers(p, n)
  BY <1>3, <1>5 DEF Covers, Reads
<1>10. OnTrack(card, drv, stage, p, heard, m)
  <2>1. Ready(card, drv, p)
    BY <1>4 DEF Ready
  <2> QED BY <1>6, <1>8, <1>9, <2>1 DEF OnTrack, OnWay
<1>11. LET s == Onward(drv, p) IN s.end = "none" /\ s.drv = drv /\ s.todo = p /\ s.heard = heard
  BY <1>3 DEF Onward
<1> QED BY <1>2, <1>10, <1>11 DEF Stays

(* A key taken is the factory one, as the key it is of the sector. *)
LEMMA AuthTaken ==
    ASSUME NEW c \in ClassicCards, SoundTrailers(c), NEW cmd \in Commands, cmd.ins = "auth", cmd.at \in 0..Chunks,
           Leads(c.trailers[cmd.at], cmd)
    PROVE  LET a == ClassicAnswer(c, cmd)
               t == c.trailers[cmd.at] IN
           /\ a.how = "ok" => InSector(a.card, cmd.at) /\ cmd.key = "factory"
           /\ a.how = "refused" => a.card = c /\ (cmd.key = "factory" => ~cmd.asB /\ t # Factory)
<1> DEFINE t == c.trailers[cmd.at]
           a == ClassicAnswer(c, cmd)
<1>1. t \in {Factory, Formats.mad, Formats.ndef}
  BY DEF SoundTrailers, ClassicCards
<1>2. /\ t.b = "factory" /\ (t = Factory => t.a = "factory") /\ (t # Factory => t.a \in PublicKeys)
      /\ cmd.asB \in BOOLEAN
  BY <1>1, TrailerIs, CommandForms
<1>3. a = IF cmd.key = (IF cmd.asB THEN t.b ELSE t.a)
          THEN Accepts([c EXCEPT !.authed = cmd.at, !.asB = cmd.asB]) ELSE Refuses(c)
  BY DEF ClassicAnswer, Authenticate
<1>4. IF cmd.key = "factory" THEN cmd.asB => t # Factory ELSE cmd.key \notin PublicKeys
  BY DEF Leads
<1>5. "factory" \notin PublicKeys
  BY DEF PublicKeys
<1> HIDE DEF t
<1>6. CASE cmd.key = (IF cmd.asB THEN t.b ELSE t.a)
  <2>1. a.how = "ok" /\ a.card = [c EXCEPT !.authed = cmd.at, !.asB = cmd.asB]
    BY <1>3, <1>6 DEF Accepts, Says
  <2>2. cmd.key = "factory" /\ (cmd.asB <=> t # Factory)
    BY <1>2, <1>4, <1>5, <1>6
  <2>3. a.card.authed = cmd.at /\ a.card.asB = cmd.asB /\ a.card.trailers = c.trailers
    BY <2>1 DEF ClassicCards
  <2>4. a.card.asB <=> a.card.trailers[cmd.at] # Factory
    BY <1>2, <2>2, <2>3 DEF t
  <2> QED BY <2>1, <2>2, <2>3, <2>4 DEF InSector
<1>7. CASE cmd.key # (IF cmd.asB THEN t.b ELSE t.a)
  <2>1. a.how = "refused" /\ a.card = c
    BY <1>3, <1>7 DEF Refuses
  <2>2. cmd.key = "factory" => ~cmd.asB /\ t # Factory
    BY <1>2, <1>7
  <2> QED BY <2>1, <2>2 DEF t
<1> QED BY <1>6, <1>7

(* What is tried when a key is refused leads to it too. *)
LEMMA KeysAhead ==
    ASSUME NEW cmd \in Commands, cmd.ins = "auth", NEW t, Leads(t, cmd), cmd.key = "factory" => ~cmd.asB /\ t # Factory
    PROVE  /\ ~cmd.asB => Leads(t, [cmd EXCEPT !.asB = TRUE])
           /\ cmd.asB => /\ cmd.rest # << >> /\ Leads(t, Auth(cmd.at, cmd.rest))
                         /\ Auth(cmd.at, cmd.rest) \in Commands
<1>1. cmd.at \in Int /\ cmd.asB \in BOOLEAN /\ cmd.rest \in Seq(TriedKeys)
      /\ cmd = [ins |-> "auth", at |-> cmd.at, key |-> cmd.key, asB |-> cmd.asB, rest |-> cmd.rest]
  BY CommandForms
<1>2. ASSUME ~cmd.asB PROVE Leads(t, [cmd EXCEPT !.asB = TRUE])
  <2> DEFINE x == [cmd EXCEPT !.asB = TRUE]
  <2>1. x.key = cmd.key /\ x.rest = cmd.rest /\ x.asB = TRUE
    BY <1>1
  <2> HIDE DEF x
  <2>2. Leads(t, x)
    BY <1>2, <2>1 DEF Leads
  <2> QED BY <2>2 DEF x
<1>3. ASSUME cmd.asB
      PROVE  cmd.rest # << >> /\ Leads(t, Auth(cmd.at, cmd.rest)) /\ Auth(cmd.at, cmd.rest) \in Commands
  <2> DEFINE keys == cmd.rest
  <2>1. FactoryAhead(keys) /\ keys \in Seq(TriedKeys)
    BY <1>1, <1>3 DEF Leads
  <2> HIDE DEF keys
  <2>2. PICK i \in DOMAIN keys : keys[i] = "factory" /\ \A j \in 1..i - 1 : keys[j] \notin PublicKeys
    BY <2>1 DEF FactoryAhead
  <2>3. Len(keys) \in Nat /\ DOMAIN keys = 1..Len(keys) /\ i \in 1..Len(keys)
    BY <2>1, <2>2
  <2>4. keys # << >> /\ Head(keys) = keys[1] /\ Len(Tail(keys)) = Len(keys) - 1
        /\ DOMAIN Tail(keys) = 1..Len(keys) - 1 /\ \A k \in 1..Len(keys) - 1 : Tail(keys)[k] = keys[k + 1]
    <3>1. keys # << >>
      BY <2>1, <2>3
    <3> QED BY <2>1, <3>1, HeadTailProperties
  <2>5. Auth(cmd.at, keys) \in Commands
    BY <1>1, <2>1, <2>4, AuthTyped
  <2>6. /\ Auth(cmd.at, keys).key = keys[1] /\ Auth(cmd.at, keys).asB = FALSE
        /\ Auth(cmd.at, keys).rest = Tail(keys)
    BY <2>4 DEF Auth
  <2>7. CASE keys[1] = "factory"
    BY <2>4, <2>5, <2>6, <2>7 DEF Leads, keys
  <2>8. CASE keys[1] # "factory"
    <3>1. i # 1 /\ keys[1] \notin PublicKeys
      BY <2>2, <2>3, <2>8
    <3>2. i - 1 \in 1..Len(keys) - 1 /\ i - 1 + 1 = i
      BY <2>3, <3>1
    <3>3. Tail(keys)[i - 1] = "factory" /\ i - 1 \in DOMAIN Tail(keys)
      BY <2>2, <2>4, <3>2
    <3>4. ASSUME NEW j \in 1..i - 1 - 1 PROVE Tail(keys)[j] \notin PublicKeys
      <4>1. j \in 1..Len(keys) - 1 /\ j + 1 \in 1..i - 1
        BY <2>3, <3>2
      <4> QED BY <2>2, <2>4, <4>1
    <3>5. FactoryAhead(Tail(keys))
      BY <3>3, <3>4 DEF FactoryAhead
    <3> QED BY <2>4, <2>5, <2>6, <2>8, <3>1, <3>5 DEF Leads, keys
  <2> QED BY <2>7, <2>8
<1> QED BY <1>2, <1>3

(* A sector opened so takes what is written to it. *)
LEMMA SectorTakes ==
    ASSUME NEW c \in ClassicCards, SoundTrailers(c), NEW cmd \in Commands, cmd.at \in 0..Chunks, InSector(c, cmd.at),
           cmd.ins \in {"read", "write", "trailer"}
    PROVE  LET a == ClassicAnswer(c, cmd) IN
           /\ a.how = "ok"
           /\ cmd.ins = "write" => InSector(a.card, cmd.at)
           /\ a.card.cells = IF cmd.ins = "write" /\ cmd.at # 0 THEN [c.cells EXCEPT ![cmd.at] = cmd.msg] ELSE c.cells
           /\ cmd.ins = "read" => a.value = c.cells[cmd.at] /\ a.card = c
<1> DEFINE t == c.trailers[cmd.at]
           a == ClassicAnswer(c, cmd)
<1>1. t \in {Factory, Formats.mad, Formats.ndef}
  BY DEF SoundTrailers, ClassicCards
<1>2. /\ (t = Factory => t.access = "transport") /\ (t # Factory => t.access \in {"mad", "ndef"})
      /\ c.authed = cmd.at /\ (c.asB <=> t # Factory)
  BY <1>1, TrailerIs DEF InSector
<1>3. CASE cmd.ins = "read"
  <2>1. a = Says(c, c.cells[cmd.at])
    BY <1>2, <1>3 DEF ClassicAnswer
  <2> QED BY <1>3, <2>1 DEF Says
<1>4. CASE cmd.ins = "write"
  <2>1. DataWrite(t, c.asB)
    BY <1>2 DEF DataWrite
  <2>2. a = IF cmd.at = 0 THEN Accepts([c EXCEPT !.mad = TRUE]) ELSE Accepts(Put(c, cmd.at, cmd.msg))
    BY <1>2, <1>4, <2>1 DEF ClassicAnswer
  <2>3. CASE cmd.at = 0
    <3>1. a.how = "ok" /\ a.card = [c EXCEPT !.mad = TRUE]
      BY <2>2, <2>3 DEF Accepts, Says
    <3>2. a.card.authed = c.authed /\ a.card.asB = c.asB /\ a.card.trailers = c.trailers /\ a.card.cells = c.cells
      BY <3>1 DEF ClassicCards
    <3> QED BY <1>4, <2>3, <3>1, <3>2 DEF InSector
  <2>4. CASE cmd.at # 0
    <3>1. a.how = "ok" /\ a.card = Put(c, cmd.at, cmd.msg)
      BY <2>2, <2>4 DEF Accepts, Says
    <3>2. /\ a.card.authed = c.authed /\ a.card.asB = c.asB /\ a.card.trailers = c.trailers
          /\ a.card.cells = [c.cells EXCEPT ![cmd.at] = cmd.msg]
      BY <3>1 DEF Put, ClassicCards
    <3> QED BY <1>4, <2>4, <3>1, <3>2 DEF InSector
  <2> QED BY <2>3, <2>4
<1>5. CASE cmd.ins = "trailer"
  <2>1. TrailerWrite(t, c.asB)
    BY <1>2 DEF TrailerWrite
  <2>2. a = Accepts([c EXCEPT !.trailers[cmd.at] = Formats[cmd.to]])
    BY <1>2, <1>5, <2>1 DEF ClassicAnswer
  <2>3. a.how = "ok" /\ a.card = [c EXCEPT !.trailers[cmd.at] = Formats[cmd.to]]
    BY <2>2 DEF Accepts, Says
  <2> QED BY <1>5, <2>3 DEF ClassicCards
<1> QED BY <1>3, <1>4, <1>5

(* A sound Classic lets every sector be opened and takes what is written. *)
LEMMA ClassicTrack ==
    ASSUME OnWay, Family(card.kind) = "classic", Head(todo).ins # "fit"
    PROVE  LET a == ClassicAnswer(card, Head(todo)) IN
           Stays(ClassicReacts(Head(todo), a.how, a.value, Tail(todo)), a.card)
<1> DEFINE cmd == Head(todo)
           a == ClassicAnswer(card, cmd)
           c == a.card
           r == Tail(todo)
           m == task.data
<1>1. /\ todo \in Seq(Commands) /\ todo # << >> /\ cmd = todo[1] /\ cmd \in Commands /\ 1 \in DOMAIN todo
      /\ r \in Seq(Commands) /\ Busy /\ stage \in {"write", "verify"} /\ Standing(card, drv)
  BY WayBasics, TailIs, Unmoved DEF OnWay
<1>2. card \in ClassicCards /\ ClassicReady(card, todo) /\ SoundTrailers(card)
  BY WayBasics, Families DEF OnWay, OnTrack, Ready, SoundCard
<1>3. /\ cmd.ins \in {"auth", "read", "write", "trailer"}
      /\ (stage = "verify" => cmd.ins \in {"auth", "read"}) /\ (stage = "write" => cmd.ins # "read")
  BY <1>1, <1>2, BusyBasics DEF Issued, ReadsAt
<1>4. CASE cmd.ins = "auth"
  <2>1. cmd.at \in 0..Chunks /\ Leads(card.trailers[cmd.at], cmd)
    BY <1>1, <1>2, <1>4 DEF ClassicReady
  <2>2. /\ a.how = "ok" => InSector(c, cmd.at)
        /\ a.how = "refused" => c = card /\ (cmd.key = "factory" => ~cmd.asB /\ card.trailers[cmd.at] # Factory)
    BY <1>1, <1>2, <1>4, <2>1, AuthTaken
  <2>3. a.how \in {"ok", "refused"} /\ c.kind = card.kind /\ c.cells = card.cells
    BY <1>1, <1>2, <1>4, ClassicOpens
  <2> HIDE DEF a
  <2>4. CASE a.how = "ok"
    <3>1. ClassicReacts(cmd, a.how, a.value, r) = Onward(drv, r)
      BY <1>4, <2>4 DEF ClassicReacts
    <3>2. ClassicReady(c, r)
      BY <1>1, <1>2, <2>2, <2>4, ClassicReadyTail
    <3>3. Ready(c, drv, r)
      BY <2>3, <3>2 DEF Ready
    <3>4. \A i \in 1..Need(m) : ~Puts(todo, 1, i)
      BY <1>1, <1>4 DEF Puts
    <3>5. Stays(Onward(drv, r), c)
      BY <1>4, <2>3, <3>3, <3>4, OnwardTrack
    <3> QED BY <3>1, <3>5 DEF a
  <2>5. CASE a.how = "refused"
    <3>1. /\ ~cmd.asB => Leads(card.trailers[cmd.at], [cmd EXCEPT !.asB = TRUE])
          /\ cmd.asB => /\ cmd.rest # << >> /\ Leads(card.trailers[cmd.at], Auth(cmd.at, cmd.rest))
                        /\ Auth(cmd.at, cmd.rest) \in Commands
      BY <1>1, <1>4, <2>1, <2>2, <2>5, KeysAhead
    <3>2. CASE ~cmd.asB
      <4> DEFINE x == [cmd EXCEPT !.asB = TRUE]
      <4>1. x \in Commands /\ x.ins = "auth" /\ x.at = cmd.at
        BY <1>1, <1>4, OtherKey
      <4>2. Leads(card.trailers[x.at], x)
        BY <3>1, <3>2, <4>1
      <4>3. ClassicReacts(cmd, a.how, a.value, r) = Onward(drv, <<x>> \o r)
        BY <1>4, <2>5, <3>2 DEF ClassicReacts
      <4> HIDE DEF x
      <4>4. Stays(Onward(drv, <<x>> \o r), card)
        BY <1>4, <4>1, <4>2, AnotherKey
      <4> QED BY <2>2, <2>5, <4>3, <4>4 DEF a
    <3>3. CASE cmd.asB
      <4> DEFINE x == Auth(cmd.at, cmd.rest)
      <4>1. x \in Commands /\ x.ins = "auth" /\ x.at = cmd.at
        BY <3>1, <3>3 DEF Auth
      <4>2. Leads(card.trailers[x.at], x)
        BY <3>1, <3>3, <4>1
      <4>3. ClassicReacts(cmd, a.how, a.value, r) = Onward(drv, <<x>> \o r)
        BY <1>4, <2>5, <3>1, <3>3 DEF ClassicReacts
      <4> HIDE DEF x
      <4>4. Stays(Onward(drv, <<x>> \o r), card)
        BY <1>4, <4>1, <4>2, AnotherKey
      <4> QED BY <2>2, <2>5, <4>3, <4>4 DEF a
    <3> QED BY <3>2, <3>3
  <2> QED BY <2>3, <2>4, <2>5
<1>5. CASE cmd.ins \in {"read", "write", "trailer"}
  <2>1. cmd.at \in 0..Chunks /\ InSector(card, cmd.at)
    BY <1>1, <1>2, <1>5 DEF ClassicReady
  <2>2. /\ a.how = "ok"
        /\ cmd.ins = "write" => InSector(c, cmd.at)
        /\ c.cells = IF cmd.ins = "write" /\ cmd.at # 0 THEN [card.cells EXCEPT ![cmd.at] = cmd.msg] ELSE card.cells
        /\ cmd.ins = "read" => a.value = card.cells[cmd.at] /\ c = card
    BY <1>1, <1>2, <1>5, <2>1, SectorTakes
  <2>3. c.kind = card.kind
    <3>1. CASE cmd.ins = "read"
      BY <2>2, <3>1
    <3>2. CASE cmd.ins \in {"write", "trailer"}
      BY <1>1, <1>2, <3>2, ClassicWrites
    <3> QED BY <1>5, <3>1, <3>2
  <2> HIDE DEF a
  <2>4. Ready(c, drv, r)
    <3>1. ClassicReady(c, r)
      BY <1>1, <1>2, <1>5, <2>2, ClassicReadyTail
    <3> QED BY <2>3, <3>1 DEF Ready
  <2>5. CASE cmd.ins = "read"
    <3>1. ClassicReacts(cmd, a.how, a.value, r) = HeardCell(drv, card.cells[cmd.at], r)
      BY <2>2, <2>5 DEF ClassicReacts
    <3>2. Stays(HeardCell(drv, card.cells[cmd.at], r), card)
      BY <1>1, <1>3, <2>2, <2>4, <2>5, HeardTrack
    <3> QED BY <2>2, <2>5, <3>1, <3>2 DEF a
  <2>6. CASE cmd.ins # "read"
    <3>1. ClassicReacts(cmd, a.how, a.value, r) = Onward(drv, r)
      BY <2>2, <2>6 DEF ClassicReacts
    <3>2. \A i \in 1..Need(m) : IF Puts(todo, 1, i) THEN todo[1].msg = m => c.cells[i] = m
                                ELSE c.cells[i] = card.cells[i]
      <4> DEFINE g == c.cells
      <4>1. IF cmd.ins = "write" /\ cmd.at # 0 THEN g = [card.cells EXCEPT ![cmd.at] = cmd.msg] ELSE g = card.cells
        BY <2>2
      <4> HIDE DEF g
      <4>2. CASE cmd.ins = "write" /\ cmd.at # 0
        <5>1. \A i \in 1..Need(m) : IF Puts(todo, 1, i) THEN todo[1].msg = m => g[i] = m ELSE g[i] = card.cells[i]
          BY <4>1, <4>2, PutsAre
        <5> QED BY <5>1 DEF g
      <4>3. CASE ~(cmd.ins = "write" /\ cmd.at # 0)
        <5>1. \A i \in 1..Need(m) : i # 0
          BY WayBasics
        <5>2. \A i \in 1..Need(m) : ~Puts(todo, 1, i)
          BY <1>1, <4>3, <5>1 DEF Puts
        <5>3. g = card.cells
          BY <4>1, <4>3
        <5> QED BY <5>2, <5>3 DEF g
      <4> QED BY <4>2, <4>3
    <3>3. stage # "verify"
      BY <1>3, <1>5, <2>6
    <3>4. Stays(Onward(drv, r), c)
      BY <1>5, <2>4, <2>6, <3>2, <3>3, OnwardTrack
    <3> QED BY <3>1, <3>4 DEF a
  <2> QED BY <2>5, <2>6
<1> QED BY <1>3, <1>4, <1>5

(* The room there is, and the choice a DESFire driver makes. *)
LEMMA FitTrack ==
    ASSUME OnWay, ~TooLarge, Head(todo).ins = "fit"
    PROVE  Stays(Fitted, card)
<1> DEFINE r == Tail(todo)
<1>1. /\ todo \in Seq(Commands) /\ todo # << >> /\ Head(todo) = todo[1] /\ 1 \in DOMAIN todo /\ Busy
      /\ Ready(card, drv, todo) /\ Family(card.kind) \in {"page", "classic", "type4", "desfire"}
  BY WayBasics, Families DEF OnWay, OnTrack
<1>2. Ready(card, drv, r)
  <2>1. CASE Family(card.kind) = "page"
    <3>1. PageReady(card, todo)
      BY <1>1, <2>1 DEF Ready
    <3>2. CASE \A i \in Cells : ~LockedPage(card, i)
      <4>1. PageReady(card, r)
        BY <1>1, <3>1, <3>2, PageReadyTail
      <4> QED BY <2>1, <4>1 DEF Ready
    <3>3. CASE ~\A i \in Cells : ~LockedPage(card, i)
      <4>1. \A k \in DOMAIN todo : todo[k].ins # "write"
        BY <1>1, <3>1, <3>3 DEF PageReady
      <4>2. \A k \in DOMAIN r : r[k].ins # "write"
        BY <1>1, <4>1, TailIs
      <4> QED BY <2>1, <4>2 DEF Ready, PageReady
    <3> QED BY <3>2, <3>3
  <2>2. CASE Family(card.kind) = "classic"
    <3>1. ClassicReady(card, todo)
      BY <1>1, <2>2 DEF Ready
    <3>2. ClassicReady(card, r)
      BY <1>1, <3>1, ClassicReadyTail
    <3> QED BY <2>2, <3>2 DEF Ready
  <2>3. CASE Family(card.kind) = "type4"
    <3>1. Type4Ready(card, todo)
      BY <1>1, <2>3 DEF Ready
    <3>2. PICK n \in 0..4 :
            /\ n <= Len(todo) /\ \A i \in 1..n : todo[i] = Select[4 - n + i]
            /\ \A k \in DOMAIN todo : k > n => todo[k].ins \in {"read", "write", "fit"}
            /\ n < 4 => card.app
            /\ n \in {1, 2} => card.file = "cc"
            /\ n = 0 => card.file = "ndef"
      BY <3>1 DEF Type4Ready
    <3>3. n = 0
      <4>1. ASSUME n \in 1..4 PROVE FALSE
        <5>1. Head(todo) = Select[4 - n + 1] /\ 4 - n + 1 \in 1..4
          BY <1>1, <3>2, <4>1
        <5>2. \A k \in 1..4 : Select[k].ins # "fit"
          BY DEF Select
        <5> QED BY <5>1, <5>2
      <4> QED BY <4>1
    <3>4. \A k \in DOMAIN r : r[k].ins \in {"read", "write", "fit"}
      <4>1. \A k \in DOMAIN todo : todo[k].ins \in {"read", "write", "fit"}
        BY <1>1, <3>2, <3>3
      <4> QED BY <1>1, <4>1, TailIs
    <3>5. Type4Ready(card, r)
      <4>1. Len(r) \in Nat /\ DOMAIN r \subseteq Nat
        BY <1>1, TailIs
      <4>2. card.app /\ card.file = "ndef"
        BY <3>2, <3>3
      <4> HIDE DEF r
      <4> QED BY <3>4, <4>1, <4>2 DEF Type4Ready
    <3> QED BY <2>3, <3>5 DEF Ready
  <2>4. CASE Family(card.kind) = "desfire"
    BY <1>1, <2>4 DEF Ready, DesfireReady
  <2> QED BY <1>1, <2>1, <2>2, <2>3, <2>4
<1>3. Fitted = Onward(drv, r)
  BY DEF Fitted
<1>4. \A i \in 1..Need(task.data) : ~Puts(todo, 1, i)
  BY <1>1 DEF Puts
<1>5. Stays(Onward(drv, r), card)
  BY <1>2, <1>4, OnwardTrack
<1> QED BY <1>3, <1>5

-----------------------------------------------------------------------------
(* How a call begins *)

(* Commands that need no sector open when they begin. *)
AnySector(q) ==
    \A k \in DOMAIN q :
        /\ q[k].ins = "auth" => q[k].at \in 0..Chunks /\ Leads(Factory, q[k])
        /\ q[k].ins \in {"read", "write", "trailer"} =>
              k > 1 /\ q[k].at \in 0..Chunks /\ q[k - 1].ins \in {"auth", "write"} /\ q[k - 1].at = q[k].at

(* Commands that open every sector they use are ready for any sound trailers. *)
LEMMA AnyReady ==
    ASSUME NEW q \in Seq(Commands), AnySector(q), NEW c
    PROVE  ClassicReady(c, q)
<1>1. DOMAIN q = 1..Len(q) /\ Len(q) \in Nat
  BY LenProperties
<1>2. ASSUME NEW k \in DOMAIN q, q[k].ins = "auth"
      PROVE  q[k].at \in 0..Chunks /\ Leads(IF k = 1 THEN c.trailers[q[1].at] ELSE Factory, q[k])
  BY <1>2, ReadyWithout DEF AnySector
<1> QED BY <1>1, <1>2 DEF AnySector, ClassicReady

(* Two such calls, one after the other, are another. *)
LEMMA AnyJoined ==
    ASSUME NEW p \in Seq(Commands), NEW q \in Seq(Commands), AnySector(p), AnySector(q)
    PROVE  AnySector(p \o q)
<1> PICK n \in Nat, l \in Nat : n = Len(p) /\ l = Len(q) /\ DOMAIN p = 1..n /\ DOMAIN q = 1..l
  BY LenProperties
<1> DEFINE s == p \o q
<1>1. /\ DOMAIN s = 1..n + l /\ \A k \in 1..n : s[k] = p[k]
      /\ \A k \in 1..n + l : \/ k \in 1..n /\ s[k] = p[k]
                             \/ k - n \in 1..l /\ s[k] = q[k - n]
  BY Joined
<1> HIDE DEF s
<1>2. ASSUME NEW k \in DOMAIN s
      PROVE  /\ s[k].ins = "auth" => s[k].at \in 0..Chunks /\ Leads(Factory, s[k])
             /\ s[k].ins \in {"read", "write", "trailer"} =>
                  k > 1 /\ s[k].at \in 0..Chunks /\ s[k - 1].ins \in {"auth", "write"} /\ s[k - 1].at = s[k].at
  <2>1. CASE k \in 1..n /\ s[k] = p[k]
    <3>1. s[k].ins = "auth" => s[k].at \in 0..Chunks /\ Leads(Factory, s[k])
      BY <2>1 DEF AnySector
    <3>2. ASSUME s[k].ins \in {"read", "write", "trailer"}
          PROVE  k > 1 /\ s[k].at \in 0..Chunks /\ s[k - 1].ins \in {"auth", "write"} /\ s[k - 1].at = s[k].at
      <4>1. k > 1 /\ s[k].at \in 0..Chunks /\ p[k - 1].ins \in {"auth", "write"} /\ p[k - 1].at = s[k].at
        BY <2>1, <3>2 DEF AnySector
      <4>2. k - 1 \in 1..n
        BY <2>1, <4>1
      <4> QED BY <1>1, <4>1, <4>2
    <3> QED BY <3>1, <3>2
  <2>2. CASE k - n \in 1..l /\ s[k] = q[k - n]
    <3>1. PICK j \in 1..l : j = k - n /\ s[k] = q[j]
      BY <2>2
    <3>2. s[k].ins = "auth" => s[k].at \in 0..Chunks /\ Leads(Factory, s[k])
      BY <3>1 DEF AnySector
    <3>3. ASSUME s[k].ins \in {"read", "write", "trailer"}
          PROVE  k > 1 /\ s[k].at \in 0..Chunks /\ s[k - 1].ins \in {"auth", "write"} /\ s[k - 1].at = s[k].at
      <4>1. j > 1 /\ s[k].at \in 0..Chunks /\ q[j - 1].ins \in {"auth", "write"} /\ q[j - 1].at = s[k].at
        BY <3>1, <3>3 DEF AnySector
      <4>2. k \in 1..n + l /\ k - 1 \in 1..n + l /\ k - 1 \notin 1..n /\ (k - 1) - n = j - 1 /\ k > 1
        BY <1>1, <3>1, <4>1
      <4>3. s[k - 1] = q[j - 1]
        BY <1>1, <4>2
      <4> QED BY <4>1, <4>2, <4>3
    <3> QED BY <3>2, <3>3
  <2> QED BY <1>1, <2>1, <2>2
<1> QED BY <1>2 DEF AnySector, s

(* What is due after commands that write nothing. *)
LEMMA DueOver ==
    ASSUME NEW p \in Seq(Commands), NEW q \in Seq(Commands), NEW c, NEW i, NEW m, Due(c, q, i, m),
           \A k \in DOMAIN p : p[k].ins # "write"
    PROVE  Due(c, p \o q, i, m)
<1> PICK n \in Nat, l \in Nat : n = Len(p) /\ l = Len(q) /\ DOMAIN p = 1..n /\ DOMAIN q = 1..l
  BY LenProperties
<1> DEFINE s == p \o q
<1>1. /\ DOMAIN s = 1..n + l /\ Len(s) = n + l
      /\ \A k \in 1..l : n + k \in 1..n + l /\ s[n + k] = q[k]
      /\ \A k \in 1..n + l : \/ k \in 1..n /\ s[k] = p[k]
                             \/ k - n \in 1..l /\ s[k] = q[k - n]
  BY Joined
<1> HIDE DEF s
<1>2. \A k \in 1..l : Puts(s, n + k, i) <=> Puts(q, k, i)
  BY <1>1 DEF Puts
<1>3. ASSUME NEW j \in DOMAIN s, Puts(s, j, i), s[j].msg # m
      PROVE  \E k \in j + 1..Len(s) : Puts(s, k, i) /\ s[k].msg = m
  <2>1. j - n \in 1..l /\ s[j] = q[j - n]
    BY <1>1, <1>3 DEF Puts
  <2>2. PICK x \in 1..l : x = j - n /\ s[j] = q[x] /\ j = n + x
    BY <1>1, <2>1
  <2>3. Puts(q, x, i) /\ q[x].msg # m
    BY <1>2, <1>3, <2>2
  <2>4. PICK k \in x + 1..l : Puts(q, k, i) /\ q[k].msg = m
    BY <2>3 DEF Due
  <2>5. k \in 1..l /\ n + k \in j + 1..Len(s)
    BY <1>1, <2>2, <2>4, SMTT(20)
  <2>6. Puts(s, n + k, i) /\ s[n + k].msg = m
    BY <1>1, <1>2, <2>4, <2>5
  <2> QED BY <2>5, <2>6
<1>4. c.cells[i] = m \/ \E k \in DOMAIN s : Puts(s, k, i) /\ s[k].msg = m
  <2>1. CASE c.cells[i] = m
    BY <2>1
  <2>2. CASE \E k \in DOMAIN q : Puts(q, k, i) /\ q[k].msg = m
    <3>1. PICK k \in 1..l : Puts(q, k, i) /\ q[k].msg = m
      BY <2>2
    <3>2. n + k \in DOMAIN s /\ Puts(s, n + k, i) /\ s[n + k].msg = m
      BY <1>1, <1>2, <3>1
    <3> QED BY <3>2
  <2> QED BY <2>1, <2>2 DEF Due
<1> QED BY <1>3, <1>4 DEF Due, s

(* The last word on a cell is the message. *)
LEMMA DueLast ==
    ASSUME NEW q \in Seq(Commands), NEW c, NEW i, NEW m, NEW x \in DOMAIN q, Puts(q, x, i), q[x].msg = m,
           \A j \in DOMAIN q : Puts(q, j, i) => q[j].msg = m \/ j < x
    PROVE  Due(c, q, i, m)
<1>1. DOMAIN q = 1..Len(q) /\ Len(q) \in Nat
  BY LenProperties
<1>2. ASSUME NEW j \in DOMAIN q, Puts(q, j, i), q[j].msg # m
      PROVE  \E k \in j + 1..Len(q) : Puts(q, k, i) /\ q[k].msg = m
  <2>1. x \in j + 1..Len(q)
    BY <1>1, <1>2
  <2> QED BY <2>1
<1> QED BY <1>2 DEF Due

(* The reads that come after commands of another kind. *)
LEMMA CoversOver ==
    ASSUME NEW p \in Seq(Commands), NEW q \in Seq(Commands), NEW n \in Nat, Covers(q, n)
    PROVE  Covers(p \o q, n)
<1> PICK a \in Nat, l \in Nat : a = Len(p) /\ l = Len(q) /\ DOMAIN p = 1..a /\ DOMAIN q = 1..l
  BY LenProperties
<1> DEFINE s == p \o q
<1>1. DOMAIN s = 1..a + l /\ \A k \in 1..l : a + k \in 1..a + l /\ s[a + k] = q[k]
  BY Joined
<1> HIDE DEF s
<1>2. ASSUME NEW i \in n + 1..Chunks PROVE \E k \in DOMAIN s : Reads(s, k) /\ s[k].at = i
  <2>1. PICK k \in 1..l : Reads(q, k) /\ q[k].at = i
    BY DEF Covers
  <2>2. Reads(s, a + k) /\ s[a + k].at = i /\ a + k \in DOMAIN s
    BY <1>1, <2>1 DEF Reads
  <2> QED BY <2>2
<1> QED BY <1>2 DEF Covers, s

(* No key configured is one that everybody has.  Those are tried in the end  *)
(* anyway; one configured is tried first, opens a formatted sector by Key A, *)
(* and that may not rewrite its trailer.                                     *)
NoPublicKey == \A i \in DOMAIN Candidates : Candidates[i] \notin PublicKeys
(* Where no public key is configured, the factory's comes before them. *)
LEMMA OpeningLeads ==
    ASSUME NoPublicKey, NEW s
    PROVE  Leads(Factory, Opening(s))
<1> DEFINE d == <<"factory", "forum", "mad">>
           n == Len(Candidates)
           keys == KeysToTry
<1>1. Candidates \in Seq(Keys) /\ d \in Seq(Keys) /\ Len(d) = 3 /\ d[1] = "factory"
  <2>1. "factory" \in Keys /\ "forum" \in Keys /\ "mad" \in Keys /\ Candidates \in Seq(Keys)
    BY KeysAssumption
  <2>2. d \in Seq(Keys)
    BY <2>1
  <2>3. Len(d) = 3 /\ d[1] = "factory"
    OBVIOUS
  <2> QED BY <2>1, <2>2, <2>3
<1> HIDE DEF d
<1>2. /\ Candidates \o d \in Seq(Keys) /\ n \in Nat /\ Len(Candidates \o d) = n + Len(d)
      /\ \A k \in 1..n : (Candidates \o d)[k] = Candidates[k]
      /\ \A k \in 1..Len(d) : (Candidates \o d)[n + k] = d[k]
  <2>1. Candidates \in Seq(Keys) /\ d \in Seq(Keys)
    BY <1>1
  <2> QED BY <2>1, Joined
<1>3. keys = Candidates \o d
  BY DEF KeysToTry, d
<1> HIDE DEF keys
<1>4. /\ keys \in Seq(Keys) /\ Len(keys) = n + 3 /\ n \in Nat /\ keys[n + 1] = "factory"
      /\ \A k \in 1..n : keys[k] \notin PublicKeys
  <2>1. DOMAIN Candidates = 1..n
    BY <1>1, LenProperties
  <2>2. 1 \in 1..Len(d) /\ keys[n + 1] = d[1] /\ Len(keys) = n + 3 /\ keys \in Seq(Keys)
    BY <1>1, <1>2, <1>3
  <2>3. \A k \in 1..n : keys[k] \notin PublicKeys
    BY <1>2, <1>3, <2>1 DEF NoPublicKey
  <2> QED BY <1>1, <1>2, <2>2, <2>3
<1>5. /\ keys # << >> /\ Head(keys) = keys[1] /\ DOMAIN Tail(keys) = 1..n + 2
      /\ \A k \in 1..n + 2 : Tail(keys)[k] = keys[k + 1]
  <2>1. keys # << >>
    BY <1>4
  <2> QED BY <1>4, <2>1, HeadTailProperties
<1>6. Opening(s).key = keys[1] /\ Opening(s).asB = FALSE /\ Opening(s).rest = Tail(keys)
  BY <1>5 DEF Opening, Auth, keys
<1>7. CASE n = 0
  BY <1>4, <1>6, <1>7 DEF Leads
<1>8. CASE n # 0
  <2>1. keys[1] \notin PublicKeys
    BY <1>4, <1>8
  <2>2. n \in 1..n + 2 /\ Tail(keys)[n] = "factory"
    BY <1>4, <1>5, <1>8
  <2>3. ASSUME NEW j \in 1..n - 1 PROVE Tail(keys)[j] \notin PublicKeys
    <3>1. j + 1 \in 1..n /\ j \in 1..n + 2
      BY <1>4
    <3> QED BY <1>4, <1>5, <3>1
  <2>4. FactoryAhead(Tail(keys))
    BY <1>5, <2>2, <2>3 DEF FactoryAhead
  <2> QED BY <1>6, <2>1, <2>4 DEF Leads
<1> QED BY <1>4, <1>7, <1>8

(* A write of the cells writes each of them (WriteCells). *)
LEMMA CellsDue ==
    ASSUME NEW m \in Messages
    PROVE  LET q == WriteCells(m) IN
           /\ q \in Seq(Commands) /\ q # << >> /\ DOMAIN q = 1..Need(m)
           /\ \A k \in 1..Need(m) : q[k].ins = "write" /\ q[k].at = k
           /\ \A c : \A i \in 1..Need(m) : Due(c, q, i, m)
<1> PICK n \in Nat \ {0} : n = Need(m)
  BY LenMessage
<1> DEFINE q == WriteCells(m)
<1>1. q = [k \in 1..n |-> Write(k, m)] /\ \A k \in 1..n : Write(k, m) \in Commands
  BY WriteTyped DEF WriteCells
<1>2. q \in Seq(Commands) /\ Len(q) = n /\ DOMAIN q = 1..n
  BY <1>1, ListIs
<1>3. \A k \in 1..n : q[k].ins = "write" /\ q[k].at = k /\ q[k].msg = m
  BY <1>1 DEF Write
<1> HIDE DEF q
<1>4. ASSUME NEW c, NEW i \in 1..n PROVE Due(c, q, i, m)
  <2>1. Puts(q, i, i) /\ q[i].msg = m /\ i \in DOMAIN q
    BY <1>2, <1>3 DEF Puts
  <2>2. \A j \in DOMAIN q : Puts(q, j, i) => q[j].msg = m \/ j < i
    BY <1>2, <1>3
  <2> QED BY <1>2, <2>1, <2>2, DueLast
<1> QED BY <1>2, <1>3, <1>4 DEF q

(* Reading cell after cell. *)
LEMMA CellsCovered ==
    /\ ReadCells \in Seq(Commands) /\ ReadCells # << >>
    /\ DOMAIN ReadCells = 1..Chunks /\ \A k \in 1..Chunks : ReadCells[k].ins = "read" /\ ReadCells[k].at = k
    /\ \A n \in Nat : Covers(ReadCells, n)
<1> DEFINE q == ReadCells
<1>1. q \in Seq(Commands) /\ DOMAIN q = 1..Chunks /\ q # << >> /\ Chunks \in Nat \ {0}
      /\ \A k \in 1..Chunks : q[k].ins = "read" /\ q[k].at = k
  <2>1. q \in Seq(Commands) /\ Len(q) = Chunks /\ DOMAIN q = 1..Chunks
    BY ReadCellsIs, ListIs
  <2> QED BY <2>1, ReadCellsIs
<1> HIDE DEF q
<1>2. ASSUME NEW n \in Nat PROVE Covers(q, n)
  <2>1. \A i \in n + 1..Chunks : i \in DOMAIN q /\ Reads(q, i) /\ q[i].at = i
    BY <1>1 DEF Reads
  <2> QED BY <2>1 DEF Covers
<1> QED BY <1>1, <1>2 DEF q

(* A write of a paged card is on track when it begins (WriteData). *)
LEMMA PageBegins ==
    ASSUME NEW m \in Messages, Need(m) <= Chunks, NEW c, Family(c.kind) = "page", NEW d, SoundCard(c, d)
    PROVE  OnTrack(c, d, "write", <<ReadLock("static"), Fit>> \o WriteCells(m), << >>, m)
<1> PICK n \in Nat \ {0} : n = Need(m)
  BY LenMessage
<1> DEFINE p == <<ReadLock("static"), Fit>>
           q == WriteCells(m)
           s == p \o q
<1>1. p \in Seq(Commands) /\ Len(p) = 2 /\ p[1].ins = "readLock" /\ p[2].ins = "fit"
  <2>1. ReadLock("static") \in Commands /\ ReadLock("static").ins = "readLock"
    BY LockTyped DEF ReadLock
  <2>2. Fit \in Commands /\ Fit.ins = "fit"
    BY PlainTyped DEF Fit
  <2> QED BY <2>1, <2>2
<1>2. /\ q \in Seq(Commands) /\ DOMAIN q = 1..n /\ \A k \in 1..n : q[k].ins = "write" /\ q[k].at = k
      /\ \A i \in 1..n : Due(c, q, i, m)
  BY CellsDue
<1> HIDE DEF p, q
<1>3. Len(q) = n /\ DOMAIN p = 1..2
  BY <1>1, <1>2, LenProperties
<1>4. /\ DOMAIN (p \o q) = 1..Len(p) + Len(q) /\ \A k \in 1..Len(p) : (p \o q)[k] = p[k]
      /\ \A k \in 1..Len(p) + Len(q) : \/ k \in 1..Len(p) /\ (p \o q)[k] = p[k]
                                       \/ k - Len(p) \in 1..Len(q) /\ (p \o q)[k] = q[k - Len(p)]
  <2>1. p \in Seq(Commands) /\ q \in Seq(Commands)
    BY <1>1, <1>2
  <2> QED BY <2>1, Joined
<1>5. /\ DOMAIN s = 1..2 + n /\ s[1] = p[1]
      /\ \A k \in 1..2 + n : (k \in 1..2 /\ s[k] = p[k]) \/ (k - 2 \in 1..n /\ s[k] = q[k - 2])
  BY <1>1, <1>3, <1>4
<1>6. \A i \in 1..n : Due(c, s, i, m)
  <2>1. \A k \in DOMAIN p : p[k].ins # "write"
    BY <1>1, <1>3
  <2> TAKE i \in 1..n
  <2>2. Due(c, q, i, m)
    BY <1>2
  <2>3. p \in Seq(Commands) /\ q \in Seq(Commands)
    BY <1>1, <1>2
  <2> QED BY <2>1, <2>2, <2>3, DueOver
<1> HIDE DEF s
<1>7. PageReady(c, s)
  <2>1. ASSUME NEW k \in DOMAIN s, s[k].ins = "write" PROVE s[k].at \in Cells
    <3>1. k \in 1..2 => p[k].ins # "write"
      BY <1>1
    <3>2. k - 2 \in 1..n /\ s[k].at = k - 2
      BY <1>2, <1>5, <2>1, <3>1
    <3> QED BY <3>2, ChunksAssumption DEF Cells
  <2>2. s[1].ins = "readLock"
    BY <1>1, <1>5
  <2>3. Whole(c) \/ \A i \in Cells : ~LockedPage(c, i)
    BY DEF SoundCard
  <2>4. Whole(c) <=> \A i \in Cells : LockedPage(c, i)
    BY DEF Whole
  <2> QED BY <2>1, <2>2, <2>3, <2>4 DEF PageReady
<1> QED BY <1>6, <1>7 DEF OnTrack, Ready, s, p, q

(* Commands of a file are ready after its selection (Select). *)
LEMMA Type4Begins ==
    ASSUME NEW q \in Seq(Commands), \A k \in DOMAIN q : q[k].ins \in {"read", "write", "fit"}, NEW c
    PROVE  Type4Ready(c, Select \o q)
<1>1. Select \in Seq(Commands) /\ Len(Select) = 4
  <2>1. Select \in Seq(May("type4", "write"))
    BY SelectIs
  <2>2. May("type4", "write") \subseteq Commands
    BY DEF May
  <2>3. Len(Select) = 4
    BY DEF Select
  <2> QED BY <2>1, <2>2, <2>3, SeqMonotonic
<1> DEFINE p == Select
           s == p \o q
<1>2. p \in Seq(Commands) /\ Len(p) = 4 /\ Len(q) \in Nat /\ DOMAIN q = 1..Len(q)
  BY <1>1, LenProperties
<1>3. /\ DOMAIN (p \o q) = 1..Len(p) + Len(q) /\ Len(p \o q) = Len(p) + Len(q)
      /\ \A k \in 1..Len(p) : (p \o q)[k] = p[k]
      /\ \A k \in 1..Len(p) + Len(q) : \/ k \in 1..Len(p) /\ (p \o q)[k] = p[k]
                                       \/ k - Len(p) \in 1..Len(q) /\ (p \o q)[k] = q[k - Len(p)]
  <2>1. p \in Seq(Commands) /\ q \in Seq(Commands)
    BY <1>2
  <2> HIDE DEF p
  <2> QED BY <2>1, Joined
<1> HIDE DEF p
<1>4. 4 <= Len(s) /\ \A i \in 1..4 : s[i] = p[4 - 4 + i]
  BY <1>2, <1>3
<1>5. ASSUME NEW k \in DOMAIN s, k > 4 PROVE s[k].ins \in {"read", "write", "fit"}
  <2>1. k - 4 \in 1..Len(q) /\ s[k] = q[k - 4]
    BY <1>2, <1>3, <1>5
  <2> QED BY <1>2, <2>1
<1> HIDE DEF s
<1> QED BY <1>4, <1>5 DEF Type4Ready, s, p

(* A sector after the other, each opened first. *)
LEMMA OpeningIs ==
    ASSUME NoPublicKey, NEW s \in 0..Chunks
    PROVE  Opening(s) \in Commands /\ Opening(s).ins = "auth" /\ Opening(s).at = s /\ Leads(Factory, Opening(s))
<1>1. s \in Int
  OBVIOUS
<1> QED BY <1>1, OpeningTyped, OpeningLeads

(* A write of the sectors writes each cell, in a sector just opened (WriteSectors). *)
LEMMA SectorsDue ==
    ASSUME NoPublicKey, NEW m \in Messages, Need(m) <= Chunks
    PROVE  /\ WriteSectors(m) \in Seq(Commands) /\ AnySector(WriteSectors(m))
           /\ \A c : \A i \in 1..Need(m) : Due(c, WriteSectors(m), i, m)
<1> PICK n \in Nat \ {0} : n = Need(m)
  BY LenMessage
<1>0. Chunks \in Nat /\ n <= Chunks
  BY ChunksAssumption
<1> DEFINE q == WriteSectors(m)
<1>1. /\ DOMAIN q = 1..2 * n /\ q = [k \in 1..2 * n |-> q[k]]
      /\ \A k \in 1..2 * n : q[k] = IF k % 2 = 1 THEN Opening((k + 1) \div 2) ELSE Write(k \div 2, m)
  BY DEF WriteSectors
<1> HIDE DEF q
<1>2. ASSUME NEW i \in 1..n
      PROVE  /\ 2 * i \in 1..2 * n /\ 2 * i - 1 \in 1..2 * n
             /\ q[2 * i - 1] = Opening(i) /\ q[2 * i] = Write(i, m)
  <2>1. /\ 2 * i \in 1..2 * n /\ 2 * i - 1 \in 1..2 * n /\ (2 * i) % 2 = 0 /\ (2 * i - 1) % 2 = 1
        /\ (2 * i) \div 2 = i /\ (2 * i - 1 + 1) \div 2 = i
    OBVIOUS
  <2> QED BY <1>1, <2>1
<1>3. ASSUME NEW k \in 1..2 * n
      PROVE  \E i \in 1..n : k = 2 * i - 1 \/ k = 2 * i
  <2>1. k = 2 * ((k + 1) \div 2) - 1 \/ k = 2 * ((k + 1) \div 2)
    OBVIOUS
  <2>2. (k + 1) \div 2 \in 1..n
    OBVIOUS
  <2> QED BY <2>1, <2>2
<1>4. ASSUME NEW i \in 1..n
      PROVE  /\ Opening(i) \in Commands /\ Opening(i).ins = "auth" /\ Opening(i).at = i /\ Leads(Factory, Opening(i))
             /\ Write(i, m) \in Commands /\ Write(i, m).ins = "write" /\ Write(i, m).at = i /\ Write(i, m).msg = m
             /\ i \in 0..Chunks
  <2>1. i \in 0..Chunks /\ i \in Int
    BY <1>0
  <2> QED BY <2>1, OpeningIs, WriteTyped DEF Write
<1>5. q \in Seq(Commands)
  <2>1. \A k \in 1..2 * n : q[k] \in Commands
    <3> TAKE k \in 1..2 * n
    <3>1. PICK i \in 1..n : k = 2 * i - 1 \/ k = 2 * i
      BY <1>3
    <3>2. CASE k = 2 * i - 1
      <4>1. q[k] = Opening(i)
        BY <1>2, <3>2
      <4> QED BY <1>4, <4>1
    <3>3. CASE k = 2 * i
      <4>1. q[k] = Write(i, m)
        BY <1>2, <3>3
      <4> QED BY <1>4, <4>1
    <3> QED BY <3>1, <3>2, <3>3
  <2>2. q \in [1..2 * n -> Commands] /\ 2 * n \in Nat
    BY <1>1, <2>1
  <2> QED BY <2>2, ListIs
<1>6. AnySector(q)
  <2>1. ASSUME NEW k \in DOMAIN q
        PROVE  /\ q[k].ins = "auth" => q[k].at \in 0..Chunks /\ Leads(Factory, q[k])
               /\ q[k].ins \in {"read", "write", "trailer"} =>
                     k > 1 /\ q[k].at \in 0..Chunks /\ q[k - 1].ins \in {"auth", "write"} /\ q[k - 1].at = q[k].at
    <3>1. PICK i \in 1..n : k = 2 * i - 1 \/ k = 2 * i
      BY <1>1, <1>3, <2>1
    <3>2. CASE k = 2 * i - 1
      <4>1. q[k] = Opening(i)
        BY <1>2, <3>2
      <4> QED BY <1>4, <4>1
    <3>3. CASE k = 2 * i
      <4>1. q[k] = Write(i, m) /\ q[k - 1] = Opening(i) /\ k > 1
        BY <1>2, <3>3
      <4> QED BY <1>4, <4>1
    <3> QED BY <3>1, <3>2, <3>3
  <2> QED BY <2>1 DEF AnySector
<1>7. ASSUME NEW c, NEW i \in 1..n PROVE Due(c, q, i, m)
  <2>1. 2 * i \in DOMAIN q /\ Puts(q, 2 * i, i) /\ q[2 * i].msg = m
    BY <1>1, <1>2, <1>4 DEF Puts
  <2>2. ASSUME NEW j \in DOMAIN q, Puts(q, j, i) PROVE q[j].msg = m
    <3>1. PICK x \in 1..n : j = 2 * x - 1 \/ j = 2 * x
      BY <1>1, <1>3, <2>2
    <3>2. j # 2 * x - 1
      BY <1>2, <1>4, <2>2 DEF Puts
    <3> QED BY <1>2, <1>4, <3>1, <3>2
  <2> HIDE DEF q
  <2> QED BY <1>5, <2>1, <2>2, DueLast
<1> QED BY <1>5, <1>6, <1>7 DEF q

(* A read of the sectors reads each cell, in a sector just opened (ReadSectors). *)
LEMMA SectorsCovered ==
    ASSUME NoPublicKey
    PROVE  ReadSectors \in Seq(Commands) /\ AnySector(ReadSectors) /\ Covers(ReadSectors, 0)
<1> PICK n \in Nat \ {0} : n = Chunks
  BY ChunksAssumption
<1> DEFINE q == ReadSectors
<1>1. /\ DOMAIN q = 1..2 * n /\ q \in [1..2 * n -> Commands]
      /\ \A k \in 1..2 * n : q[k] = IF k % 2 = 1 THEN Opening((k + 1) \div 2) ELSE Read(k \div 2)
  BY ReadSectorsIs DEF ReadSectors
<1>2. q \in Seq(Commands)
  BY <1>1, ListIs
<1> HIDE DEF q
<1>3. ASSUME NEW i \in 1..n
      PROVE  /\ 2 * i \in 1..2 * n /\ 2 * i - 1 \in 1..2 * n
             /\ q[2 * i - 1] = Opening(i) /\ q[2 * i] = Read(i)
  <2>1. /\ 2 * i \in 1..2 * n /\ 2 * i - 1 \in 1..2 * n /\ (2 * i) % 2 = 0 /\ (2 * i - 1) % 2 = 1
        /\ (2 * i) \div 2 = i /\ (2 * i - 1 + 1) \div 2 = i
    OBVIOUS
  <2> QED BY <1>1, <2>1
<1>4. ASSUME NEW k \in 1..2 * n
      PROVE  \E i \in 1..n : k = 2 * i - 1 \/ k = 2 * i
  <2>1. k = 2 * ((k + 1) \div 2) - 1 \/ k = 2 * ((k + 1) \div 2)
    OBVIOUS
  <2>2. (k + 1) \div 2 \in 1..n
    OBVIOUS
  <2> QED BY <2>1, <2>2
<1>5. ASSUME NEW i \in 1..n
      PROVE  /\ Opening(i).ins = "auth" /\ Opening(i).at = i /\ Leads(Factory, Opening(i))
             /\ Read(i).ins = "read" /\ Read(i).at = i /\ i \in 0..Chunks
  <2>1. i \in 0..Chunks
    OBVIOUS
  <2> QED BY <2>1, OpeningIs DEF Read
<1>6. AnySector(q)
  <2>1. ASSUME NEW k \in DOMAIN q
        PROVE  /\ q[k].ins = "auth" => q[k].at \in 0..Chunks /\ Leads(Factory, q[k])
               /\ q[k].ins \in {"read", "write", "trailer"} =>
                     k > 1 /\ q[k].at \in 0..Chunks /\ q[k - 1].ins \in {"auth", "write"} /\ q[k - 1].at = q[k].at
    <3>1. PICK i \in 1..n : k = 2 * i - 1 \/ k = 2 * i
      BY <1>1, <1>4, <2>1
    <3>2. CASE k = 2 * i - 1
      <4>1. q[k] = Opening(i)
        BY <1>3, <3>2
      <4> QED BY <1>5, <4>1
    <3>3. CASE k = 2 * i
      <4>1. q[k] = Read(i) /\ q[k - 1] = Opening(i) /\ k > 1
        BY <1>3, <3>3
      <4> QED BY <1>5, <4>1
    <3> QED BY <3>1, <3>2, <3>3
  <2> QED BY <2>1 DEF AnySector
<1>7. Covers(q, 0)
  <2>1. ASSUME NEW i \in 0 + 1..Chunks PROVE \E k \in DOMAIN q : Reads(q, k) /\ q[k].at = i
    <3>1. 2 * i \in DOMAIN q /\ q[2 * i] = Read(i)
      BY <1>1, <1>3
    <3>2. Reads(q, 2 * i) /\ q[2 * i].at = i
      BY <3>1, <1>5 DEF Reads
    <3> QED BY <3>1, <3>2
  <2> QED BY <2>1 DEF Covers
<1> QED BY <1>2, <1>6, <1>7 DEF q

(* The preflight opens each sector and uses none (Preflight). *)
LEMMA PreflightAny ==
    ASSUME NoPublicKey
    PROVE  Preflight \in Seq(Commands) /\ AnySector(Preflight) /\ \A k \in DOMAIN Preflight : Preflight[k].ins = "auth"
<1> PICK n \in Nat : n = Chunks + 1
  BY ChunksAssumption
<1> DEFINE q == Preflight
<1>1. q = [k \in 1..n |-> Opening(k - 1)]
  BY DEF Preflight
<1>2. \A k \in 1..n : k - 1 \in 0..Chunks
  BY ChunksAssumption
<1>3. \A k \in 1..n : /\ q[k] \in Commands /\ q[k].ins = "auth" /\ q[k].at \in 0..Chunks /\ Leads(Factory, q[k])
  BY <1>1, <1>2, OpeningIs
<1>4. DOMAIN q = 1..n /\ q \in [1..n -> Commands]
  BY <1>1, <1>3
<1>5. q \in Seq(Commands)
  BY <1>4, ListIs
<1> HIDE DEF q
<1>6. AnySector(q)
  BY <1>3, <1>4 DEF AnySector
<1> QED BY <1>3, <1>4, <1>5, <1>6 DEF q

(* A format writes each cell, in a sector just opened (FormatSectors). *)
LEMMA FormatDue ==
    ASSUME NoPublicKey, NEW m \in Messages, Need(m) <= Chunks
    PROVE  /\ FormatSectors(m) \in Seq(Commands) /\ AnySector(FormatSectors(m))
           /\ \A c : \A i \in 1..Need(m) : Due(c, FormatSectors(m), i, m)
<1> PICK n \in Nat \ {0} : n = Chunks
  BY ChunksAssumption
<1>0. 3 * (Chunks + 1) = 3 * n + 3 /\ Need(m) \in Nat /\ Need(m) <= n
  BY LenMessage
<1> DEFINE q == FormatSectors(m)
           put(s) == IF s \in 1..Need(m) THEN m ELSE Blank
           to(s) == IF s = 0 THEN "mad" ELSE "ndef"
<1>1. /\ DOMAIN q = 1..3 * n + 3
      /\ \A k \in 1..3 * n + 3 : /\ k % 3 = 1 => q[k] = Opening((k - 1) \div 3)
                                 /\ k % 3 = 2 => q[k] = Write((k - 1) \div 3, put((k - 1) \div 3))
                                 /\ k % 3 = 0 => q[k] = TrailerTo((k - 1) \div 3, to((k - 1) \div 3))
  BY <1>0 DEF FormatSectors
<1>2. q \in Seq(Commands)
  <2>1. FormatSectors(m) \in Seq(May("classic", "write"))
    BY FormatSectorsMay
  <2>2. May("classic", "write") \subseteq Commands
    BY DEF May
  <2> QED BY <2>1, <2>2, SeqMonotonic
<1> HIDE DEF q
<1>3. ASSUME NEW s \in 0..n
      PROVE  /\ 3 * s + 1 \in 1..3 * n + 3 /\ 3 * s + 2 \in 1..3 * n + 3 /\ 3 * s + 3 \in 1..3 * n + 3
             /\ q[3 * s + 1] = Opening(s) /\ q[3 * s + 2] = Write(s, put(s)) /\ q[3 * s + 3] = TrailerTo(s, to(s))
  <2>1. /\ 3 * s + 1 \in 1..3 * n + 3 /\ 3 * s + 2 \in 1..3 * n + 3 /\ 3 * s + 3 \in 1..3 * n + 3
        /\ (3 * s + 1) % 3 = 1 /\ (3 * s + 2) % 3 = 2 /\ (3 * s + 3) % 3 = 0
        /\ (3 * s + 1 - 1) \div 3 = s /\ (3 * s + 2 - 1) \div 3 = s /\ (3 * s + 3 - 1) \div 3 = s
    OBVIOUS
  <2>2. PICK x, y, z : x = 3 * s + 1 /\ y = 3 * s + 2 /\ z = 3 * s + 3
    OBVIOUS
  <2>3. /\ x \in 1..3 * n + 3 /\ x % 3 = 1 /\ (x - 1) \div 3 = s
        /\ y \in 1..3 * n + 3 /\ y % 3 = 2 /\ (y - 1) \div 3 = s
        /\ z \in 1..3 * n + 3 /\ z % 3 = 0 /\ (z - 1) \div 3 = s
    BY <2>1, <2>2
  <2> HIDE DEF put, to
  <2>4. q[x] = Opening(s) /\ q[y] = Write(s, put(s)) /\ q[z] = TrailerTo(s, to(s))
    BY <1>1, <2>3
  <2> QED BY <2>2, <2>3, <2>4
<1>4. ASSUME NEW k \in 1..3 * n + 3
      PROVE  \E s \in 0..n : k = 3 * s + 1 \/ k = 3 * s + 2 \/ k = 3 * s + 3
  <2>1. PICK s \in Int : s = (k - 1) \div 3 /\ 3 * s <= k - 1 /\ k - 1 < 3 * s + 3
    OBVIOUS
  <2>2. s \in 0..n
    BY <2>1
  <2>3. k = 3 * s + 1 \/ k = 3 * s + 2 \/ k = 3 * s + 3
    BY <2>1
  <2> QED BY <2>2, <2>3
<1>5. ASSUME NEW s \in 0..n
      PROVE  /\ Opening(s).ins = "auth" /\ Opening(s).at = s /\ Leads(Factory, Opening(s))
             /\ Write(s, put(s)).ins = "write" /\ Write(s, put(s)).at = s /\ Write(s, put(s)).msg = put(s)
             /\ TrailerTo(s, to(s)).ins = "trailer" /\ TrailerTo(s, to(s)).at = s /\ s \in 0..Chunks
  BY OpeningIs DEF Write, TrailerTo
<1> HIDE DEF put, to
<1>6. AnySector(q)
  <2>1. ASSUME NEW k \in DOMAIN q
        PROVE  /\ q[k].ins = "auth" => q[k].at \in 0..Chunks /\ Leads(Factory, q[k])
               /\ q[k].ins \in {"read", "write", "trailer"} =>
                     k > 1 /\ q[k].at \in 0..Chunks /\ q[k - 1].ins \in {"auth", "write"} /\ q[k - 1].at = q[k].at
    <3>1. PICK s \in 0..n : k = 3 * s + 1 \/ k = 3 * s + 2 \/ k = 3 * s + 3
      BY <1>1, <1>4, <2>1
    <3>2. CASE k = 3 * s + 1
      <4>1. q[k] = Opening(s)
        BY <1>3, <3>2
      <4> QED BY <1>5, <4>1
    <3>3. CASE k = 3 * s + 2
      <4>1. q[k] = Write(s, put(s)) /\ q[k - 1] = Opening(s) /\ k > 1
        BY <1>3, <3>3
      <4> QED BY <1>5, <4>1
    <3>4. CASE k = 3 * s + 3
      <4>1. q[k] = TrailerTo(s, to(s)) /\ q[k - 1] = Write(s, put(s)) /\ k > 1
        BY <1>3, <3>4
      <4> QED BY <1>5, <4>1
    <3> QED BY <3>1, <3>2, <3>3, <3>4
  <2> QED BY <2>1 DEF AnySector
<1>7. ASSUME NEW c, NEW i \in 1..Need(m) PROVE Due(c, q, i, m)
  <2>0. i \in 0..n
    BY <1>0
  <2> DEFINE x == 3 * i + 2
  <2>1. put(i) = m
    BY DEF put
  <2>2. x \in DOMAIN q /\ q[x] = Write(i, put(i))
    BY <1>1, <1>3, <2>0
  <2>3. x \in DOMAIN q /\ Puts(q, x, i) /\ q[x].msg = m
    BY <1>5, <2>0, <2>1, <2>2 DEF Puts
  <2>4. ASSUME NEW j \in DOMAIN q, Puts(q, j, i) PROVE q[j].msg = m
    <3>1. PICK s \in 0..n : j = 3 * s + 1 \/ j = 3 * s + 2 \/ j = 3 * s + 3
      BY <1>1, <1>4, <2>4
    <3>2. q[j].ins = "write" /\ q[j].at = i
      BY <2>4 DEF Puts
    <3>3. q[j] = Write(s, put(s))
      BY <1>3, <1>5, <3>1, <3>2
    <3>4. s = i
      BY <1>5, <3>2, <3>3
    <3> QED BY <1>5, <2>1, <3>3, <3>4
  <2> HIDE DEF x
  <2> QED BY <1>2, <2>3, <2>4, DueLast
<1> QED BY <1>2, <1>6, <1>7 DEF q

(* A Classic written, or formatted. *)
LEMMA ClassicBegins ==
    ASSUME NoPublicKey, NEW m \in Messages, Need(m) <= Chunks, NEW c, Family(c.kind) = "classic", NEW d
    PROVE  /\ OnTrack(c, d, "write", <<Fit>> \o WriteSectors(m), << >>, m)
           /\ OnTrack(c, d, "write", Format(m), << >>, m)
<1> DEFINE f == <<Fit>>  p == Preflight  w == WriteSectors(m)  r == FormatSectors(m)
<1>1. f \in Seq(Commands) /\ AnySector(f) /\ \A k \in DOMAIN f : f[k].ins # "write"
  <2>1. Fit \in Commands /\ Fit.ins = "fit"
    BY PlainTyped DEF Fit
  <2>2. f \in Seq(Commands) /\ DOMAIN f = 1..1 /\ f[1] = Fit
    BY <2>1
  <2> HIDE DEF f
  <2>3. \A k \in DOMAIN f : f[k].ins = "fit"
    BY <2>1, <2>2
  <2> QED BY <2>2, <2>3 DEF AnySector
<1>2. p \in Seq(Commands) /\ AnySector(p) /\ \A k \in DOMAIN p : p[k].ins # "write"
  BY PreflightAny
<1>3. w \in Seq(Commands) /\ AnySector(w) /\ \A i \in 1..Need(m) : Due(c, w, i, m)
  BY SectorsDue
<1>4. r \in Seq(Commands) /\ AnySector(r) /\ \A i \in 1..Need(m) : Due(c, r, i, m)
  BY FormatDue
<1> HIDE DEF f, p, w, r
<1>5. ASSUME NEW a \in Seq(Commands), AnySector(a), \A k \in DOMAIN a : a[k].ins # "write",
             NEW q \in Seq(Commands), AnySector(q), \A i \in 1..Need(m) : Due(c, q, i, m)
      PROVE  OnTrack(c, d, "write", a \o q, << >>, m)
  <2>1. a \o q \in Seq(Commands)
    BY <1>5, Joined
  <2>2. AnySector(a \o q)
    BY <1>5, AnyJoined
  <2>3. ASSUME NEW i \in 1..Need(m) PROVE Due(c, a \o q, i, m)
    <3>1. Due(c, q, i, m)
      BY <1>5
    <3> QED BY <1>5, <3>1, DueOver
  <2>4. Ready(c, d, a \o q)
    <3>1. ClassicReady(c, a \o q)
      BY <2>1, <2>2, AnyReady
    <3> QED BY <3>1 DEF Ready
  <2> QED BY <2>3, <2>4 DEF OnTrack
<1>6. OnTrack(c, d, "write", f \o w, << >>, m)
  BY <1>1, <1>3, <1>5
<1>7. f \o p \in Seq(Commands) /\ AnySector(f \o p) /\ \A k \in DOMAIN (f \o p) : (f \o p)[k].ins # "write"
  <2>1. /\ f \o p \in Seq(Commands) /\ Len(f) \in Nat /\ Len(p) \in Nat /\ DOMAIN (f \o p) = 1..Len(f) + Len(p)
        /\ \A k \in 1..Len(f) + Len(p) : \/ k \in 1..Len(f) /\ (f \o p)[k] = f[k]
                                         \/ k - Len(f) \in 1..Len(p) /\ (f \o p)[k] = p[k - Len(f)]
    <3>1. f \in Seq(Commands) /\ p \in Seq(Commands)
      BY <1>1, <1>2
    <3> QED BY <3>1, Joined
  <2>2. DOMAIN f = 1..Len(f) /\ DOMAIN p = 1..Len(p)
    BY <1>1, <1>2, LenProperties
  <2>3. AnySector(f \o p)
    BY <1>1, <1>2, AnyJoined
  <2> QED BY <1>1, <1>2, <2>1, <2>2, <2>3
<1>8. OnTrack(c, d, "write", (f \o p) \o r, << >>, m)
  <2> DEFINE a == f \o p
  <2>1. a \in Seq(Commands) /\ AnySector(a) /\ \A k \in DOMAIN a : a[k].ins # "write"
    BY <1>7
  <2> HIDE DEF a
  <2>2. OnTrack(c, d, "write", a \o r, << >>, m)
    BY <1>4, <1>5, <2>1
  <2> QED BY <2>2 DEF a
<1> QED BY <1>6, <1>8 DEF f, p, w, r, Format

(* NLEN cleared, what follows it, and NLEN. *)
LEMMA ClearedIs ==
    ASSUME NEW m \in Messages
    PROVE  LET q == ClearedWrite(m) IN
           /\ q \in Seq(Commands) /\ \A k \in DOMAIN q : q[k].ins = "write"
           /\ \A c : \A i \in 1..Need(m) : Due(c, q, i, m)
<1> PICK n \in Nat : n = Len(m) /\ Need(m) = n + 1
  BY LenMessage DEF Need
<1> DEFINE a == <<Write(1, Blank)>>  b == [i \in 1..n |-> Write(i + 1, m)]  e == <<Write(1, m)>>
<1>1. \A i \in Int : /\ Write(i, m) \in Commands /\ Write(i, m).ins = "write"
                     /\ Write(i, m).at = i /\ Write(i, m).msg = m
  BY WriteTyped DEF Write
<1>2. Write(1, Blank) \in Commands /\ Write(1, Blank).ins = "write" /\ Write(1, Blank).at = 1
  BY WriteTyped, NothingSaid
<1>3. a \in Seq(Commands) /\ Len(a) = 1 /\ a[1] = Write(1, Blank)
  BY <1>2
<1>4. e \in Seq(Commands) /\ Len(e) = 1 /\ e[1] = Write(1, m)
  BY <1>1
<1>5. b \in Seq(Commands) /\ Len(b) = n /\ \A i \in 1..n : b[i] = Write(i + 1, m)
  <2>1. b \in [1..n -> Commands]
    BY <1>1
  <2>2. \A i \in 1..n : b[i] = Write(i + 1, m)
    OBVIOUS
  <2> HIDE DEF b
  <2> QED BY <2>1, <2>2, ListIs
<1>6. ClearedWrite(m) = (a \o b) \o e
  BY DEF ClearedWrite
<1> HIDE DEF a, b, e
<1> DEFINE f == a \o b
           q == f \o e
<1>7. f \in Seq(Commands) /\ Len(f) = n + 1 /\ f[1] = a[1] /\ \A i \in 1..n : f[1 + i] = b[i]
  <2>1. a \in Seq(Commands) /\ b \in Seq(Commands)
    BY <1>3, <1>5
  <2>2. /\ f \in Seq(Commands) /\ Len(f) = Len(a) + Len(b) /\ \A k \in 1..Len(a) : f[k] = a[k]
        /\ \A k \in 1..Len(b) : f[Len(a) + k] = b[k]
    BY <2>1, Joined
  <2> HIDE DEF f
  <2> QED BY <1>3, <1>5, <2>2
<1> HIDE DEF f
<1>8. q \in Seq(Commands) /\ DOMAIN q = 1..n + 2 /\ (\A k \in 1..n + 1 : q[k] = f[k]) /\ q[n + 2] = e[1]
  <2>1. f \in Seq(Commands) /\ e \in Seq(Commands)
    BY <1>4, <1>7
  <2>2. /\ q \in Seq(Commands) /\ Len(q) = Len(f) + Len(e) /\ (\A k \in 1..Len(f) : q[k] = f[k])
        /\ DOMAIN q = 1..Len(f) + Len(e) /\ \A k \in 1..Len(e) : q[Len(f) + k] = e[k]
    BY <2>1, Joined
  <2> HIDE DEF q
  <2>3. 1 \in 1..Len(e) /\ Len(f) + 1 = n + 2 /\ Len(f) + Len(e) = n + 2
    BY <1>4, <1>7
  <2> QED BY <1>7, <2>2, <2>3
<1> HIDE DEF q
<1>9. q[1] = Write(1, Blank) /\ q[n + 2] = Write(1, m) /\ \A i \in 2..n + 1 : q[i] = Write(i, m)
  <2>1. ASSUME NEW i \in 2..n + 1 PROVE q[i] = Write(i, m)
    <3>1. i - 1 \in 1..n /\ 1 + (i - 1) = i /\ (i - 1) + 1 = i /\ i \in 1..n + 1
      OBVIOUS
    <3>2. f[1 + (i - 1)] = b[i - 1] /\ b[i - 1] = Write((i - 1) + 1, m)
      BY <1>5, <1>7, <3>1
    <3> QED BY <1>8, <3>1, <3>2
  <2>2. 1 \in 1..n + 1
    OBVIOUS
  <2> QED BY <1>3, <1>4, <1>7, <1>8, <2>1, <2>2
<1>10. \A k \in 1..n + 2 : k = 1 \/ k = n + 2 \/ k \in 2..n + 1
  OBVIOUS
<1>11. \A k \in 1..n + 2 : q[k].ins = "write" /\ (k # 1 => q[k].msg = m)
  BY <1>1, <1>2, <1>9, <1>10
<1>12. ASSUME NEW c, NEW i \in 1..Need(m) PROVE Due(c, q, i, m)
  <2> DEFINE x == IF i = 1 THEN n + 2 ELSE i
  <2>1. x \in 1..n + 2 /\ 1 < x /\ q[x] = Write(i, m)
    BY <1>9
  <2>2. x \in DOMAIN q /\ Puts(q, x, i) /\ q[x].msg = m
    BY <1>1, <1>8, <2>1 DEF Puts
  <2>3. \A j \in DOMAIN q : Puts(q, j, i) => q[j].msg = m \/ j < x
    BY <1>8, <1>11, <2>1
  <2> HIDE DEF x
  <2> QED BY <1>8, <2>2, <2>3, DueLast
<1> QED BY <1>6, <1>8, <1>11, <1>12 DEF q, f

(* A write of a Type 4 file is on track when it begins: NLEN cleared first is written
   last (ClearedWrite). *)
LEMMA Type4WriteBegins ==
    ASSUME NEW m \in Messages, NEW c, Family(c.kind) = "type4", NEW d
    PROVE  OnTrack(c, d, "write", Select \o <<Fit>> \o ClearedWrite(m), << >>, m)
<1> DEFINE a == Select  f == <<Fit>>  q == ClearedWrite(m)
<1>1. a \in Seq(Commands) /\ \A k \in DOMAIN a : a[k].ins # "write"
  <2>1. Select \in Seq(May("type4", "write")) /\ \A k \in DOMAIN Select : Select[k].ins \in {"selectApp", "selectFile", "readCC"}
    BY SelectIs
  <2>2. May("type4", "write") \subseteq Commands
    BY DEF May
  <2> QED BY <2>1, <2>2, SeqMonotonic
<1>2. f \in Seq(Commands) /\ Len(f) = 1 /\ f[1].ins = "fit"
  <2>1. Fit \in Commands /\ Fit.ins = "fit"
    BY PlainTyped DEF Fit
  <2> QED BY <2>1
<1>3. q \in Seq(Commands) /\ (\A k \in DOMAIN q : q[k].ins = "write") /\ \A i \in 1..Need(m) : Due(c, q, i, m)
  BY ClearedIs
<1> HIDE DEF a, f, q
<1>4. /\ f \o q \in Seq(Commands)
      /\ \A k \in DOMAIN (f \o q) : (f \o q)[k].ins \in {"read", "write", "fit"}
      /\ \A i \in 1..Need(m) : Due(c, f \o q, i, m)
  <2>1. f \in Seq(Commands) /\ q \in Seq(Commands)
    BY <1>2, <1>3
  <2>2. /\ f \o q \in Seq(Commands) /\ DOMAIN (f \o q) = 1..Len(f) + Len(q)
        /\ \A k \in 1..Len(f) + Len(q) : \/ k \in 1..Len(f) /\ (f \o q)[k] = f[k]
                                         \/ k - Len(f) \in 1..Len(q) /\ (f \o q)[k] = q[k - Len(f)]
    BY <2>1, Joined
  <2>3. DOMAIN q = 1..Len(q) /\ DOMAIN f = 1..1
    BY <1>2, <1>3, LenProperties
  <2>4. ASSUME NEW i \in 1..Need(m) PROVE Due(c, f \o q, i, m)
    <3>1. Due(c, q, i, m) /\ \A k \in DOMAIN f : f[k].ins # "write"
      BY <1>2, <1>3, <2>3
    <3> QED BY <2>1, <3>1, DueOver
  <2>5. \A k \in DOMAIN (f \o q) : (f \o q)[k].ins \in {"read", "write", "fit"}
    BY <1>2, <1>3, <2>2, <2>3
  <2> QED BY <2>2, <2>4, <2>5
<1> DEFINE r == f \o q
<1>5. (a \o f) \o q = a \o r
  BY <1>1, <1>2, <1>3, ConcatAssociative
<1> HIDE DEF r
<1>6. /\ r \in Seq(Commands) /\ (\A k \in DOMAIN r : r[k].ins \in {"read", "write", "fit"})
      /\ \A i \in 1..Need(m) : Due(c, r, i, m)
  BY <1>4 DEF r
<1>7. Ready(c, d, a \o r)
  <2>1. Type4Ready(c, a \o r)
    BY <1>6, Type4Begins DEF a
  <2> QED BY <2>1 DEF Ready
<1>8. ASSUME NEW i \in 1..Need(m) PROVE Due(c, a \o r, i, m)
  <2>1. Due(c, r, i, m)
    BY <1>6
  <2> QED BY <1>1, <1>6, <2>1, DueOver
<1>9. OnTrack(c, d, "write", a \o r, << >>, m)
  BY <1>7, <1>8 DEF OnTrack
<1> QED BY <1>5, <1>9 DEF a, f, q

(* A DESFire call is on track until the driver's choice (Probe). *)
LEMMA DesfireBegins ==
    ASSUME NEW m, NEW c, Family(c.kind) = "desfire", NEW d, NEW st, st = "verify" => Holds(c, m)
    PROVE  OnTrack(c, d, st, Probe, << >>, m)
<1>1. /\ Probe = IF drv.probed THEN <<[ins |-> "select"], Enter>> ELSE <<[ins |-> "select"], [ins |-> "settings"], Enter>>
      /\ Enter = [ins |-> "enter"]
  BY DEF Probe, Enter
<1> PICK q : q = Probe
  OBVIOUS
<1>2. CASE drv.probed
  <2>1. /\ DOMAIN q = 1..2 /\ Len(q) = 2 /\ q[1].ins = "select" /\ q[2].ins = "enter"
    BY <1>1, <1>2
  <2>2. DesfireReady(c, d, q) /\ Enters(q)
    BY <2>1 DEF DesfireReady, Enters
  <2> QED BY <2>2 DEF OnTrack, Ready
<1>3. CASE ~drv.probed
  <2>1. /\ DOMAIN q = 1..3 /\ Len(q) = 3 /\ q[1].ins = "select" /\ q[2].ins = "settings" /\ q[3].ins = "enter"
    BY <1>1, <1>3
  <2>2. DesfireReady(c, d, q) /\ Enters(q)
    BY <2>1 DEF DesfireReady, Enters
  <2> QED BY <2>2 DEF OnTrack, Ready
<1> QED BY <1>2, <1>3

(* An attempt is on track when it begins, whatever the attempts before left. *)
LEMMA WriteBegins ==
    ASSUME NoPublicKey, card \in Cards, NEW c, c.kind = card.kind, NEW d, SoundCard(c, d),
           NEW m \in Messages, Need(m) <= Chunks
    PROVE  OnTrack(c, d, "write", WriteOnce(m), << >>, m)
<1>1. /\ Family(card.kind) \in {"page", "classic", "type4", "desfire"} /\ Family(c.kind) = Family(card.kind)
      /\ Family(card.kind) = "classic" => card.kind = "Classic"
      /\ card.kind = "Classic" => Family(card.kind) = "classic"
  BY Families
<1>2. CASE Family(card.kind) = "page"
  <2>1. WriteOnce(m) = <<ReadLock("static"), Fit>> \o WriteCells(m)
    BY <1>1, <1>2 DEF WriteOnce, WriteData
  <2> QED BY <1>1, <1>2, <2>1, PageBegins
<1>3. CASE Family(card.kind) = "classic"
  <2>1. WriteOnce(m) = Format(m) \/ WriteOnce(m) = <<Fit>> \o WriteSectors(m)
    BY <1>3 DEF WriteOnce, WriteData
  <2>2. /\ OnTrack(c, d, "write", <<Fit>> \o WriteSectors(m), << >>, m)
        /\ OnTrack(c, d, "write", Format(m), << >>, m)
    BY <1>1, <1>3, ClassicBegins
  <2> QED BY <2>1, <2>2
<1>4. CASE Family(card.kind) = "type4"
  <2>1. WriteOnce(m) = Select \o <<Fit>> \o ClearedWrite(m)
    BY <1>1, <1>4 DEF WriteOnce, WriteData
  <2>2. OnTrack(c, d, "write", Select \o <<Fit>> \o ClearedWrite(m), << >>, m)
    BY <1>1, <1>4, Type4WriteBegins
  <2> QED BY <2>1, <2>2
<1>5. CASE Family(card.kind) = "desfire"
  <2>1. WriteOnce(m) = Probe
    BY <1>1, <1>5 DEF WriteOnce, WriteData
  <2>2. OnTrack(c, d, "write", Probe, << >>, m)
    BY <1>1, <1>5, DesfireBegins
  <2> QED BY <2>1, <2>2
<1> QED BY <1>1, <1>2, <1>3, <1>4, <1>5

(* So is the verification of what has been written. *)
LEMMA ReadBegins ==
    ASSUME NoPublicKey, card \in Cards, NEW c, c.kind = card.kind, NEW d, SoundCard(c, d), NEW m, Holds(c, m)
    PROVE  OnTrack(c, d, "verify", ReadData, << >>, m)
<1>1. /\ Family(card.kind) \in {"page", "classic", "type4", "desfire"} /\ Family(c.kind) = Family(card.kind)
  BY Families
<1>2. Len(<< >>) = 0
  OBVIOUS
<1>3. CASE Family(card.kind) = "page"
  <2>1. ReadData = ReadCells
    BY <1>3 DEF ReadData
  <2>2. \A k \in DOMAIN ReadCells : ReadCells[k].ins # "write"
    BY CellsCovered
  <2>3. PageReady(c, ReadCells)
    BY <2>2 DEF PageReady
  <2>4. Covers(ReadCells, 0)
    BY CellsCovered
  <2> QED BY <1>1, <1>2, <1>3, <2>1, <2>3, <2>4 DEF OnTrack, Ready
<1>4. CASE Family(card.kind) = "classic"
  <2>1. ReadData = ReadSectors
    BY <1>4 DEF ReadData
  <2>2. ClassicReady(c, ReadSectors) /\ Covers(ReadSectors, 0)
    BY SectorsCovered, AnyReady
  <2> QED BY <1>1, <1>2, <1>4, <2>1, <2>2 DEF OnTrack, Ready
<1>5. CASE Family(card.kind) = "type4"
  <2>1. ReadData = Select \o ReadCells
    BY <1>5 DEF ReadData
  <2>2. Select \in Seq(Commands)
    <3>1. Select \in Seq(May("type4", "write")) /\ May("type4", "write") \subseteq Commands
      BY SelectIs DEF May
    <3> QED BY <3>1, SeqMonotonic
  <2>3. /\ ReadCells \in Seq(Commands) /\ Covers(ReadCells, 0)
        /\ \A k \in DOMAIN ReadCells : ReadCells[k].ins \in {"read", "write", "fit"}
    BY CellsCovered
  <2>4. Type4Ready(c, Select \o ReadCells)
    BY <2>3, Type4Begins
  <2>5. Covers(Select \o ReadCells, 0)
    BY <2>2, <2>3, CoversOver
  <2> QED BY <1>1, <1>2, <1>5, <2>1, <2>4, <2>5 DEF OnTrack, Ready
<1>6. CASE Family(card.kind) = "desfire"
  <2>1. ReadData = Probe
    BY <1>6 DEF ReadData
  <2>2. OnTrack(c, d, "verify", Probe, << >>, m)
    BY <1>1, <1>6, DesfireBegins
  <2> QED BY <2>1, <2>2
<1> QED BY <1>1, <1>3, <1>4, <1>5, <1>6

(* Cards whose rights are granted without a key: the driver's choice goes on. *)
LEMMA EnterTrack ==
    ASSUME OnWay, ~TooLarge, Head(todo).ins = "enter"
    PROVE  Stays(Entered, card)
<1> DEFINE m == task.data
<1>1. Busy /\ Family(card.kind) = "desfire" /\ ~Withheld(drv.rights) /\ DriverOK(card, drv) /\ card \in Cards
  <2>1. Busy /\ card \in Cards /\ Head(todo).ins \in Issued(Family(card.kind), stage) /\ stage \in {"write", "verify"}
    BY BusyBasics DEF OnWay
  <2>2. Family(card.kind) = "desfire"
    BY <2>1, Families DEF Issued, ReadsAt
  <2> QED BY <2>1, <2>2 DEF OnWay, SoundCard, Busy
<1>2. drv.probed => drv.rights \in Rights
  BY <1>1 DEF DriverOK
<1>3. drv.probed => drv.rights.read = "free" /\ drv.rights.write \in {"free", "never"}
  BY <1>1, <1>2 DEF Withheld, Rights
<1>4. card.selected
  <2>1. DesfireReady(card, drv, todo) /\ todo[1].ins = "enter"
    BY <1>1, WayBasics DEF OnWay, OnTrack, Ready
  <2> QED BY <2>1 DEF DesfireReady
<1>5. CASE stage = "verify"
  <2>1. Entered = Onward(drv, ReadCells)
    BY <1>3, <1>5 DEF Entered, Reading, Mine, Entry
  <2>2. heard = << >> /\ Holds(card, m)
    <3>1. ReadsTrue(card, todo, heard) /\ Holds(card, m) /\ 1 \in DOMAIN todo /\ todo[1].ins = "enter"
      BY <1>5, WayBasics
    <3> QED BY <3>1 DEF ReadsTrue
  <2>3. /\ ReadCells # << >> /\ Covers(ReadCells, 0) /\ DOMAIN ReadCells = 1..Chunks
        /\ \A k \in DOMAIN ReadCells : ReadCells[k].ins = "read"
    BY CellsCovered
  <2>4. DesfireReady(card, drv, ReadCells)
    BY <1>4, <2>3 DEF DesfireReady
  <2>5. OnTrack(card, drv, "verify", ReadCells, heard, m)
    <3>1. Len(heard) = 0
      BY <2>2
    <3> QED BY <1>1, <2>2, <2>3, <2>4, <3>1 DEF OnTrack, Ready
  <2>6. Entered.end = "none" /\ Entered.drv = drv /\ Entered.todo = ReadCells /\ Entered.heard = heard
    BY <2>1, <2>3 DEF Onward
  <2> QED BY <1>5, <2>5, <2>6 DEF Stays
<1>6. CASE stage = "write"
  <2>1. CASE drv.probed /\ drv.rights.write = "never"
    <3>1. Entered = EndsWith(drv, heard, "readOnly")
      BY <1>6, <2>1 DEF Entered, Reading, Mine
    <3> QED BY <1>6, <3>1, StaysEnded
  <2>2. CASE ~(drv.probed /\ drv.rights.write = "never")
    <3>1. Entered = Onward(drv, WriteCells(m))
      BY <1>3, <1>6, <2>2 DEF Entered, Reading, Mine, Entry
    <3>2. /\ WriteCells(m) # << >> /\ DOMAIN WriteCells(m) = 1..Need(m)
          /\ \A k \in DOMAIN WriteCells(m) : WriteCells(m)[k].ins = "write"
          /\ \A i \in 1..Need(m) : Due(card, WriteCells(m), i, m)
      BY WayBasics, CellsDue
    <3>3. DesfireReady(card, drv, WriteCells(m))
      BY <1>3, <1>4, <2>2, <3>2 DEF DesfireReady
    <3>4. OnTrack(card, drv, "write", WriteCells(m), heard, m)
      BY <1>1, <3>2, <3>3 DEF OnTrack, Ready
    <3>5. Entered.end = "none" /\ Entered.drv = drv /\ Entered.todo = WriteCells(m) /\ Entered.heard = heard
      BY <3>1, <3>2 DEF Onward
    <3> QED BY <1>6, <3>4, <3>5 DEF Stays
  <2> QED BY <2>1, <2>2
<1> QED BY <1>5, <1>6 DEF OnWay

(* A command that a card in the field answers keeps the stage on track. *)
LEMMA SentTrack ==
    ASSUME OnWay, present, Head(todo).ins \notin Choosing
    PROVE  Stays(Outcome("heard"), CardAfter("heard"))
<1> DEFINE cmd == Head(todo)
           inStep == drv.session = "open"
           a == Answer(card, cmd, inStep)
           x == (present /\ "heard" \in {"heard", "unheard"}) /\ a.how = "ok"
<1>1. Family(card.kind) \in {"page", "classic", "type4", "desfire"} /\ cmd.ins \notin {"fit", "enter", "cannot"}
  BY WayBasics, Families DEF Choosing
<1>2. CardAfter("heard") = a.card /\ Got("heard") = a.how
  BY DEF CardAfter, Got
<1>3. Outcome("heard") = Reacts(cmd, a.how, a.value, x)
  BY <1>2 DEF Outcome
<1> HIDE DEF x
<1>4. CASE Family(card.kind) = "page"
  <2>1. a = PageAnswer(card, cmd)
    BY <1>4 DEF Answer
  <2>2. Outcome("heard") = PageReacts(cmd, a.how, a.value, Tail(todo))
    BY <1>3, <1>4 DEF Reacts
  <2> QED BY <1>1, <1>2, <1>4, <2>1, <2>2, PageTrack
<1>5. CASE Family(card.kind) = "classic"
  <2>1. a = ClassicAnswer(card, cmd)
    BY <1>5 DEF Answer
  <2>2. Outcome("heard") = ClassicReacts(cmd, a.how, a.value, Tail(todo))
    BY <1>3, <1>5 DEF Reacts
  <2> QED BY <1>1, <1>2, <1>5, <2>1, <2>2, ClassicTrack
<1>6. CASE Family(card.kind) = "type4"
  <2>1. a = Type4Answer(card, cmd)
    BY <1>6 DEF Answer
  <2>2. Outcome("heard") = FileReacts(cmd, a.how, a.value, Tail(todo))
    BY <1>3, <1>6 DEF Reacts
  <2> QED BY <1>1, <1>2, <1>6, <2>1, <2>2, Type4Track
<1>7. CASE Family(card.kind) = "desfire"
  <2>1. a = DesfireAnswer(card, cmd, inStep)
    BY <1>7 DEF Answer
  <2>2. Outcome("heard") = DesfireReacts(cmd, a.how, a.value, x, Tail(todo))
    BY <1>3, <1>7 DEF Reacts
  <2> QED BY <1>1, <1>2, <1>7, <2>1, <2>2, DesfireTrack
<1> QED BY <1>1, <1>4, <1>5, <1>6, <1>7

(* Only a format changes a trailer, to one that is sound. *)
LEMMA TrailersStay ==
    ASSUME NEW c \in ClassicCards, NEW cmd \in Commands, cmd.ins \in {"auth", "read", "write", "trailer"},
           SoundTrailers(c)
    PROVE  SoundTrailers(ClassicAnswer(c, cmd).card)
<1> DEFINE a == ClassicAnswer(c, cmd)
<1>1. CASE cmd.ins = "auth"
  <2>1. a.card.trailers = c.trailers
    BY <1>1, ClassicOpens
  <2> QED BY <2>1 DEF SoundTrailers
<1>2. CASE cmd.ins = "read"
  <2>1. a.card = c
    BY <1>2, ClassicReads
  <2> QED BY <2>1
<1>3. CASE cmd.ins = "write"
  <2>1. PICK y : y = Put(c, cmd.at, cmd.msg)
    OBVIOUS
  <2>2. PICK z : z = [c EXCEPT !.mad = TRUE]
    OBVIOUS
  <2>3. a = Refuses(c) \/ a = Accepts(z) \/ a = Accepts(y)
    BY <1>3, <2>1, <2>2 DEF ClassicAnswer
  <2>4. y.trailers = c.trailers /\ z.trailers = c.trailers
    BY <2>1, <2>2 DEF Put, ClassicCards
  <2>5. a.card.trailers = c.trailers
    BY <2>3, <2>4 DEF Refuses, Accepts, Says
  <2> QED BY <2>5 DEF SoundTrailers
<1>4. CASE cmd.ins = "trailer"
  <2>1. PICK y : y = [c EXCEPT !.trailers[cmd.at] = Formats[cmd.to]]
    OBVIOUS
  <2>2. a = Refuses(c) \/ a = Accepts(y)
    BY <1>4, <2>1 DEF ClassicAnswer
  <2>3. cmd.to \in {"mad", "ndef"}
    BY <1>4, CommandForms
  <2>4. Formats[cmd.to] \in {Formats.mad, Formats.ndef}
    BY <2>3
  <2> PICK f : f = Formats[cmd.to]
    OBVIOUS
  <2>5. y.trailers = [c.trailers EXCEPT ![cmd.at] = f]
    BY <2>1 DEF ClassicCards
  <2>6. SoundTrailers(y)
    BY <2>4, <2>5 DEF SoundTrailers
  <2> QED BY <2>2, <2>6 DEF Refuses, Accepts, Says
<1> QED BY <1>1, <1>2, <1>3, <1>4

(* The driver's rights are those it knew, or those a card has just told. *)
LEMMA RightsAre ==
    ASSUME NEW c, DriverOK(c, drv), NEW cmd, cmd.ins # "change", NEW how, NEW v, NEW executed, NEW rest
    PROVE  LET s == DesfireReacts(cmd, how, v, executed, rest) IN
           s.drv.rights = drv.rights \/ (cmd.ins = "settings" /\ how = "ok" /\ s.drv.rights = v)
<1> DEFINE d == DriverAfter(cmd, how, executed)
           s == DesfireReacts(cmd, how, v, executed, rest)
           taken == how = "ok" /\ ~(card.kind = "DESFireEV1" /\ Keyed(cmd) /\ drv.session = "adrift")
<1>0. /\ drv.rights = drv.rights
      /\ drv \in [held : BOOLEAN, probed : BOOLEAN, rights : Rights \cup [{} -> {""}], session : {"none", "open", "adrift"}]
  BY DEF DriverOK
<1>1. d.rights = drv.rights /\ d \in [held : BOOLEAN, probed : BOOLEAN, rights : Rights \cup [{} -> {""}], session : {"none", "open", "adrift"}]
  BY <1>0 DEF DriverAfter
<1> HIDE DEF d
<1> PICK p : p = [d EXCEPT !.probed = TRUE, !.rights = v]
  OBVIOUS
<1> PICK o : o = [d EXCEPT !.session = "open"]
  OBVIOUS
<1>2. p.rights = v /\ o.rights = drv.rights
  BY <1>1
<1>3. /\ \A e, h, how2 : EndsWith(e, h, how2).drv = e /\ Fails(e, how2).drv = e
      /\ \A e, q : Onward(e, q).drv = e
  BY DEF EndsWith, Fails, Onward
<1>4. \A e, w, q : HeardCell(e, w, q).drv = e
  <2> SUFFICES ASSUME NEW e, NEW w, NEW q PROVE HeardCell(e, w, q).drv = e
    OBVIOUS
  <2> PICK h : h = Append(heard, w)
    OBVIOUS
  <2>1. CASE q = << >> \/ ReadEnough(h)
    <3>1. HeardCell(e, w, q) = EndsWith(e, h, "ok")
      BY <2>1 DEF HeardCell
    <3> QED BY <1>3, <3>1
  <2>2. CASE ~(q = << >> \/ ReadEnough(h))
    <3>1. HeardCell(e, w, q) = [Onward(e, q) EXCEPT !.heard = h]
      BY <2>2 DEF HeardCell
    <3>2. PICK u : u = IF q = << >> THEN "ok" ELSE "none"
      OBVIOUS
    <3>3. Onward(e, q) = [drv |-> e, todo |-> q, heard |-> heard, end |-> u]
      BY <3>2 DEF Onward
    <3> QED BY <3>1, <3>3
  <2> QED BY <2>1, <2>2
<1>5. CASE cmd.ins = "settings"
  <2>1. s = Onward(IF taken THEN p ELSE d, rest)
    BY <1>5 DEF DesfireReacts, d
  <2>2. s.drv = IF taken THEN p ELSE d
    BY <1>3, <2>1
  <2> HIDE DEF s
  <2> QED BY <1>1, <1>2, <1>5, <2>2 DEF s
<1>6. CASE cmd.ins # "settings" /\ taken
  <2>1. s = CASE cmd.ins = "read" -> HeardCell(d, v, rest)
              [] cmd.ins = "auth2" -> Onward(o, rest)
              [] OTHER -> Onward(d, rest)
    BY <1>6 DEF DesfireReacts, d
  <2>2. s = HeardCell(d, v, rest) \/ s = Onward(o, rest) \/ s = Onward(d, rest)
    BY <2>1
  <2> HIDE DEF s
  <2>3. s.drv = d \/ s.drv = o
    BY <1>3, <1>4, <2>2
  <2> QED BY <1>1, <1>2, <2>3 DEF s
<1>7. CASE cmd.ins # "settings" /\ ~taken
  <2>1. s = EndsWith(d, heard, "notSupported") \/ s = EndsWith(d, heard, "failed") \/ s = Fails(d, how)
    BY <1>7 DEF DesfireReacts, d
  <2> HIDE DEF s
  <2>2. s.drv = d
    BY <1>3, <2>1
  <2> QED BY <1>1, <2>2 DEF s
<1> QED BY <1>5, <1>6, <1>7

(* A sound card is sound after a command of a write, whoever heard it. *)
LEMMA SoundStays ==
    ASSUME Busy, stage # "lock", SoundCard(card, drv), Head(todo).ins \notin Choosing,
           NEW how \in {"heard", "lost", "unheard", "nak"}
    PROVE  SoundCard(CardAfter(how), Outcome(how).drv)
<1> DEFINE cmd == Head(todo)
           inStep == drv.session = "open"
           a == Answer(card, cmd, inStep)
           d == Outcome(how).drv
           x == (present /\ how \in {"heard", "unheard"}) /\ a.how = "ok"
<1>1. /\ Family(card.kind) \in {"page", "classic", "type4", "desfire"} /\ card \in Cards
      /\ cmd \in Commands /\ cmd.ins \in Issued(Family(card.kind), stage) /\ cmd.ins \notin {"fit", "enter", "cannot"}
      /\ stage \in {"resolve", "write", "verify"}
  BY BusyBasics, Families DEF Choosing
<1>2. CardAfter(how) = card \/ CardAfter(how) = a.card
  BY DEF CardAfter
<1>3. CASE Family(card.kind) = "page"
  <2>1. a = PageAnswer(card, cmd) /\ card \in PageCards
    BY <1>1, <1>3, Families DEF Answer
  <2>2. cmd.ins \in {"read", "readLock", "write"}
    BY <1>1, <1>3 DEF Issued, ReadsAt
  <2>3. PICK c : c = CardAfter(how)
    OBVIOUS
  <2>4. c.kind = card.kind /\ c.static = card.static /\ c.dynamic = card.dynamic /\ c.corrupt = card.corrupt
    <3> PICK b : b = PageAnswer(card, cmd).card
      OBVIOUS
    <3>1. cmd \in Commands /\ card \in PageCards
      BY <1>1, <2>1
    <3>2. cmd.ins \in {"read", "readLock"} => b = card
      BY <3>1, PageReads
    <3>3. cmd.ins = "write" => b.kind = card.kind /\ b.static = card.static /\ b.dynamic = card.dynamic
                               /\ b.corrupt = card.corrupt
      BY <3>1, PageWrites
    <3>4. c = card \/ c = b
      BY <1>2, <2>1, <2>3
    <3> QED BY <2>2, <3>2, <3>3, <3>4
  <2>5. \A i \in Cells : LockedPage(c, i) <=> LockedPage(card, i)
    BY <2>4 DEF LockedPage, Static
  <2>6. Whole(c) <=> Whole(card)
    BY <1>3, <2>4, <2>5 DEF Whole
  <2>7. ~card.corrupt /\ (Whole(card) \/ \A i \in Cells : ~LockedPage(card, i))
    BY <1>3 DEF SoundCard
  <2> HIDE DEF d
  <2>8. SoundCard(c, d)
    BY <1>3, <2>4, <2>5, <2>6, <2>7 DEF SoundCard
  <2> QED BY <2>3, <2>8 DEF d
<1>4. CASE Family(card.kind) = "classic"
  <2>1. a = ClassicAnswer(card, cmd) /\ card \in ClassicCards
    BY <1>1, <1>4, Families DEF Answer
  <2>2. cmd.ins \in {"auth", "read", "write", "trailer"}
    BY <1>1, <1>4 DEF Issued, ReadsAt
  <2>3. SoundTrailers(card)
    BY <1>4 DEF SoundCard
  <2>4. SoundTrailers(a.card) /\ a.card.kind = card.kind
    BY <1>1, <2>1, <2>2, <2>3, TrailersStay, ClassicOpens, ClassicReads, ClassicWrites
  <2>5. SoundTrailers(CardAfter(how)) /\ CardAfter(how).kind = card.kind
    BY <1>2, <2>3, <2>4
  <2> QED BY <1>4, <2>5 DEF SoundCard
<1>5. CASE Family(card.kind) = "type4"
  <2>1. a = Type4Answer(card, cmd) /\ card \in Type4Cards
    BY <1>1, <1>5, Families DEF Answer
  <2>2. cmd.ins \in {"selectApp", "selectFile", "readCC", "read", "write"}
    BY <1>1, <1>5 DEF Issued, ReadsAt
  <2>3. CardAfter(how).kind = card.kind
    BY <1>1, <1>2, <2>1, <2>2, Type4Answers
  <2> QED BY <1>5, <2>3 DEF SoundCard
<1>6. CASE Family(card.kind) = "desfire"
  <2>1. a = DesfireAnswer(card, cmd, inStep) /\ card \in DESFireCards /\ DriverOK(card, drv)
    BY <1>1, <1>6, Families DEF Answer, Busy
  <2>2. cmd.ins \in DesfireCommands /\ cmd.ins # "change"
    BY <1>1, <1>6 DEF Issued, ReadsAt, DesfireCommands
  <2>3. /\ a.card.rights = card.rights /\ a.card.kind = card.kind
        /\ cmd.ins = "settings" /\ a.how = "ok" => a.value = card.rights
    BY <1>1, <2>1, <2>2, DesfireAnswers
  <2>4. Got(how) = "ok" => a.how = "ok"
    BY DEF Got
  <2>5. Outcome(how) = DesfireReacts(cmd, Got(how), a.value, x, Tail(todo))
    BY <1>6 DEF Outcome, Reacts
  <2> HIDE DEF x
  <2>6. d.rights = drv.rights \/ (cmd.ins = "settings" /\ Got(how) = "ok" /\ d.rights = a.value)
    BY <2>1, <2>2, <2>5, RightsAre
  <2>7. d.rights = drv.rights \/ d.rights = card.rights
    BY <2>3, <2>4, <2>6
  <2>8. CardAfter(how).rights = card.rights /\ CardAfter(how).kind = card.kind
    BY <1>2, <2>3
  <2>9. ~Withheld(card.rights) /\ ~Withheld(drv.rights)
    BY <1>6 DEF SoundCard
  <2> QED BY <1>6, <2>7, <2>8, <2>9 DEF SoundCard
<1> QED BY <1>1, <1>3, <1>4, <1>5, <1>6

(* A card that is gone is found gone; only the DESFire driver, which then has *)
(* no payload to read, takes it for a failed read.                            *)
GoneEnds(s) ==
    /\ stage = "write" => s.end # "failed"
    /\ stage = "verify" /\ s.end \notin {"none", "gone"} => Family(card.kind) = "desfire"
    /\ stage = "write" /\ Family(card.kind) = "desfire" /\ Head(todo).ins = "select" => s.end = "gone"

(* A command sent to a card that is gone ends the call so, or fails a DESFire read. *)
LEMMA SentGone ==
    ASSUME Busy, stage \in {"write", "verify"}, ~present, Head(todo).ins \notin Choosing,
           NEW how \in {"heard", "lost", "unheard", "nak"}
    PROVE  GoneEnds(Outcome(how))
<1> DEFINE cmd == Head(todo)
           inStep == drv.session = "open"
           a == Answer(card, cmd, inStep)
           s == Outcome(how)
           r == Tail(todo)
           x == (present /\ how \in {"heard", "unheard"}) /\ a.how = "ok"
<1>1. /\ Family(card.kind) \in {"page", "classic", "type4", "desfire"} /\ card \in Cards
      /\ cmd \in Commands /\ cmd.ins \in Issued(Family(card.kind), stage) /\ cmd.ins \notin {"fit", "enter", "cannot"}
  BY BusyBasics, Families DEF Choosing
<1>2. Got(how) = "gone"
  BY DEF Got
<1>3. \A d : Fails(d, "gone").end = "gone" /\ CutShort(d, "gone").end = "gone"
  BY DEF Fails, CutShort, EndsWith, Trouble
<1>4. \A d, q : Onward(d, q).end \in {"ok", "none"}
  BY DEF Onward
<1>5. Outcome(how) = Reacts(cmd, "gone", a.value, x)
  BY <1>2 DEF Outcome
<1> HIDE DEF x, s
<1>6. CASE Family(card.kind) = "page"
  <2>1. s = PageReacts(cmd, "gone", a.value, r)
    BY <1>5, <1>6 DEF Reacts, s
  <2>2. stage = "verify" => s = CutShort(drv, "gone")
    BY <2>1 DEF PageReacts, Reading
  <2>3. stage = "write" => s = Onward(drv, r) \/ s = Fails(drv, "gone")
    BY <2>1 DEF PageReacts, Reading
  <2>4. s.end \in {"ok", "none", "gone"} /\ (stage = "verify" => s.end = "gone")
    BY <1>3, <1>4, <2>2, <2>3
  <2> QED BY <1>6, <2>4 DEF GoneEnds, s
<1>7. CASE Family(card.kind) = "classic"
  <2>1. s = ClassicReacts(cmd, "gone", a.value, r)
    BY <1>5, <1>7 DEF Reacts, s
  <2>2. s = CutShort(drv, "gone") \/ s = Fails(drv, "gone")
    BY <2>1 DEF ClassicReacts
  <2>3. s.end = "gone"
    BY <1>3, <2>2
  <2> QED BY <2>3 DEF GoneEnds, s
<1>8. CASE Family(card.kind) = "type4"
  <2>1. s = FileReacts(cmd, "gone", a.value, r)
    BY <1>5, <1>8 DEF Reacts, s
  <2>2. s = Fails(drv, "gone")
    BY <2>1 DEF FileReacts
  <2>3. s.end = "gone"
    BY <1>3, <2>2
  <2> QED BY <2>3 DEF GoneEnds, s
<1>9. CASE Family(card.kind) = "desfire"
  <2> DEFINE d == DriverAfter(cmd, "gone", x)
  <2>1. s = DesfireReacts(cmd, "gone", a.value, x, r)
    BY <1>5, <1>9 DEF Reacts, s
  <2> HIDE DEF d
  <2>2. CASE cmd.ins = "settings"
    <3>1. s = Onward(d, r)
      BY <2>1, <2>2 DEF DesfireReacts, d
    <3>2. s.end \in {"ok", "none"}
      BY <1>4, <3>1
    <3> QED BY <1>9, <2>2, <3>2 DEF GoneEnds, s
  <2>3. CASE cmd.ins # "settings"
    <3>1. s = EndsWith(d, heard, "failed") \/ s = Fails(d, "gone")
      BY <2>1, <2>3 DEF DesfireReacts, d
    <3>2. stage = "write" => s = Fails(d, "gone")
      BY <2>1, <2>3 DEF DesfireReacts, d, Reading
    <3>3. s.end \in {"failed", "gone"} /\ (stage = "write" => s.end = "gone")
      BY <1>3, <3>1, <3>2, EndsForm
    <3> QED BY <1>9, <3>3 DEF GoneEnds, s
  <2> QED BY <2>2, <2>3
<1> QED BY <1>1, <1>6, <1>7, <1>8, <1>9

(* What is known once a command of a write has been answered, or a choice made. *)
Answered ==
    /\ Busy /\ last = NoWord /\ task.req.kind = "write"
    /\ Standing(card', drv') /\ present' = present
    /\ faults' \in Nat /\ faults' - task.from >= 0
    /\ task.sound => SoundCard(card', drv')
Spent == task.sound /\ ~Large(card.kind, task) => faults' - task.from >= task.attempt

(* The types of an operation whose command has been answered. *)
LEMMA AnsweredIs ==
    ASSUME Answered
    PROVE  /\ Busy /\ last = NoWord /\ task.req.kind = "write" /\ present' = present
           /\ card'.kind = card.kind /\ card \in Cards /\ (task.sound => SoundCard(card', drv'))
           /\ faults' - task.from >= 0 /\ faults' - task.from \in Int /\ task.attempt \in Nat /\ task.req.attempts \in Nat \ {0}
           /\ task \in [req : Operations, data : Messages, attempt : Nat, sure : BOOLEAN, from : Int, sound : BOOLEAN]
           /\ task.data \in Messages /\ Need(task.data) \in Nat \ {0} /\ task.sound \in BOOLEAN
<1>1. Busy
  BY DEF Answered
<1> QED BY <1>1, TaskTyped, BusyBasics, LenMessage DEF Answered, Standing

(* A message that is not too large has a cell for each of its records. *)
LEMMA FitsIs ==
    ASSUME NEW kind, NEW o, ~Large(kind, o), Need(o.data) \in Nat
    PROVE  Need(o.data) <= Chunks
<1>1. ~(Need(o.data) > Chunks)
  BY DEF Large
<1> QED BY <1>1, ChunksAssumption

(* The report of a failure is that of a spent operation. *)
LEMMA ReportTracks ==
    ASSUME Answered, NEW result, NEW m, NEW sure, NEW locked, Report(result, m, sure, locked),
           result = "failed" => /\ task.sound /\ ~Large(card.kind, task) =>
                                      faults' - task.from >= task.req.attempts
    PROVE  TrackInv' /\ FailureHasFault'
<1>1. TooLarge <=> Large(card.kind, task)
  BY LargeIs
<1>2. stage' = "idle"
  BY DEF Report
<1> PICK f : f = ~TooLarge
  OBVIOUS
<1>3. last' = [kind |-> task.req.kind, result |-> result, data |-> m, sure |-> sure, locked |-> locked,
               attempts |-> task.req.attempts, met |-> faults' - task.from, fits |-> f, sound |-> task.sound]
  BY DEF Report
<1>4. FailureHasFault'
  BY <1>1, <1>3 DEF FailureHasFault
<1> QED BY <1>2, <1>4 DEF TrackInv

(* A stage that starts on track is no report. *)
LEMMA StartTracks ==
    ASSUME last = NoWord, NEW name, NEW cmds, NEW o, Starts(name, cmds, o),
           name \in {"write", "verify"} =>
               Track(card', drv', present', name, cmds, << >>, o, faults' - o.from),
           name # "resolve"
    PROVE  TrackInv' /\ FailureHasFault'
<1>1. stage' = name /\ todo' = cmds /\ heard' = << >> /\ task' = o /\ last' = NoWord
  BY DEF Starts
<1>2. FailureHasFault'
  BY <1>1 DEF FailureHasFault
<1>3. TrackInv'
  BY <1>1 DEF TrackInv
<1> QED BY <1>2, <1>3

(* A retry: a fault has been met in each attempt before. *)
LEMMA RetryTracks ==
    ASSUME NoPublicKey, Answered, stage \in {"write", "verify"}, Retry, Spent,
           task.sound /\ ~Large(card.kind, task) => present \/ Family(card.kind) = "desfire"
    PROVE  TrackInv' /\ FailureHasFault'
<1> DEFINE met == faults' - task.from
<1>1. CASE task.attempt < task.req.attempts
  <2> PICK o : o = [task EXCEPT !.attempt = @ + 1]
    OBVIOUS
  <2>1. Starts("write", WriteOnce(task.data), o)
    BY <1>1 DEF Retry
  <2>2. /\ o.req = task.req /\ o.data = task.data /\ o.attempt = task.attempt + 1 /\ o.from = task.from
        /\ o.sound = task.sound
    BY AnsweredIs
  <2>3. Large(card'.kind, o) <=> Large(card.kind, task)
    BY <2>2, AnsweredIs DEF Large
  <2>4. ASSUME o.sound, ~Large(card'.kind, o) PROVE met >= o.attempt - 1
    BY <2>2, <2>3, <2>4, AnsweredIs DEF Spent
  <2>5. ASSUME o.sound, ~Large(card'.kind, o), present
        PROVE  OnTrack(card', drv', "write", WriteOnce(task.data), << >>, o.data)
    <3>1. SoundCard(card', drv') /\ Need(task.data) <= Chunks /\ task.data \in Messages
      BY <2>2, <2>3, <2>5, AnsweredIs, FitsIs
    <3> QED BY <2>2, <3>1, AnsweredIs, WriteBegins
  <2>6. ASSUME o.sound, ~Large(card'.kind, o), ~present
        PROVE  Lost(card', present', "write", WriteOnce(task.data))
    <3>1. Family(card.kind) = "desfire" /\ card.kind # "Classic"
      BY <2>2, <2>3, <2>6, AnsweredIs, Families
    <3>2. WriteOnce(task.data) = Probe
      BY <3>1 DEF WriteOnce, WriteData
    <3>3. Probe # << >> /\ Probe[1].ins = "select"
      BY DEF Probe
    <3> QED BY <2>6, <3>1, <3>2, <3>3, AnsweredIs DEF Lost
  <2>7. Track(card', drv', present', "write", WriteOnce(task.data), << >>, o, met)
    <3> HIDE DEF met
    <3>1. met >= 0 /\ o.req.kind = "write" /\ (o.sound => SoundCard(card', drv')) /\ present' = present
      BY <2>2, AnsweredIs DEF met
    <3> QED BY <2>4, <2>5, <2>6, <3>1 DEF Track
  <2> QED BY <2>1, <2>2, <2>7, AnsweredIs, StartTracks
<1>2. CASE ~(task.attempt < task.req.attempts)
  <2>1. Report("failed", task.data, FALSE, FALSE)
    BY <1>2 DEF Retry
  <2>2. task.sound /\ ~Large(card.kind, task) => met >= task.req.attempts
    <3>1. met \in Int /\ task.attempt \in Nat /\ task.req.attempts \in Nat
      BY AnsweredIs
    <3>2. task.sound /\ ~Large(card.kind, task) => met >= task.attempt
      BY DEF Spent
    <3> HIDE DEF met
    <3> QED BY <1>2, <3>1, <3>2
  <2> QED BY <2>1, <2>2, ReportTracks
<1> QED BY <1>1, <1>2

(* A write that succeeds, and locks or not, reports no failure (Succeed). *)
LEMMA SucceedTracks ==
    ASSUME Answered, NEW sure, Succeed(sure)
    PROVE  TrackInv' /\ FailureHasFault'
<1>1. CASE task.req.lock /\ CanLock
  <2> PICK o : o = [task EXCEPT !.sure = sure]
    OBVIOUS
  <2>1. Starts("lock", MakeReadOnly, o)
    BY <1>1 DEF Succeed
  <2> QED BY <2>1, AnsweredIs, StartTracks
<1>2. CASE ~task.req.lock
  <2>1. Report("success", task.data, sure, FALSE)
    BY <1>2 DEF Succeed
  <2> QED BY <2>1, ReportTracks
<1>3. CASE task.req.lock /\ ~CanLock
  <2>1. Report("notLocked", task.data, sure, FALSE)
    BY <1>3 DEF Succeed
  <2> QED BY <2>1, ReportTracks
<1> QED BY <1>1, <1>2, <1>3

(* What a command or a choice leaves of a stage of a write, if nothing is    *)
(* wrong with the card and the message is not too large.                     *)
Led(s) ==
    task.sound /\ ~Large(card.kind, task) =>
        /\ faults' - task.from >= task.attempt - 1
        /\ \/ faults' - task.from >= task.attempt
           \/ present /\ Stays(s, card')
           \/ ~present /\ stage = "write" /\ s.end = "gone"
        /\ ~present => GoneEnds(s)

(* A message fits the card as it did: its kind does not change. *)
LEMMA SameLarge ==
    ASSUME Answered
    PROVE  Large(card'.kind, task) <=> Large(card.kind, task)
BY AnsweredIs

(* The end of a write: verified next, or tried again for a fault it met (AfterWrite). *)
LEMMA WriteTracks ==
    ASSUME NoPublicKey, Answered, stage = "write", NEW s, Led(s), s.end \in Ends, AfterWrite(s.end)
    PROVE  TrackInv' /\ FailureHasFault'
<1> DEFINE met == faults' - task.from
<1>1. CASE s.end = "ok" /\ task.req.verify
  <2>1. Starts("verify", ReadData, task)
    BY <1>1 DEF AfterWrite, Permanent
  <2>2. ASSUME task.sound, ~Large(card'.kind, task)
        PROVE  /\ met >= task.attempt - 1
               /\ \/ met >= task.attempt
                  \/ present /\ OnTrack(card', drv', "verify", ReadData, << >>, task.data)
    <3>1. /\ met >= task.attempt - 1
          /\ met >= task.attempt \/ (present /\ Stays(s, card'))
      BY <1>1, <2>2, SameLarge DEF Led
    <3>2. ASSUME Stays(s, card') PROVE OnTrack(card', drv', "verify", ReadData, << >>, task.data)
      <4>1. Holds(card', task.data)
        BY <1>1, <3>2 DEF Stays
      <4> QED BY <2>2, <4>1, AnsweredIs, ReadBegins
    <3> QED BY <3>1, <3>2
  <2>3. Track(card', drv', present', "verify", ReadData, << >>, task, met)
    <3> HIDE DEF met
    <3>1. met >= 0 /\ task.req.kind = "write" /\ (task.sound => SoundCard(card', drv')) /\ present' = present
      BY AnsweredIs DEF met
    <3> QED BY <2>2, <3>1 DEF Track
  <2> QED BY <2>1, <2>3, AnsweredIs, StartTracks
<1>2. CASE s.end = "ok" /\ ~task.req.verify
  <2>1. Succeed(FALSE)
    BY <1>2 DEF AfterWrite, Permanent
  <2> QED BY <2>1, SucceedTracks
<1>3. CASE s.end \in Permanent
  <2>1. Report(s.end, task.data, FALSE, FALSE) /\ s.end # "failed"
    BY <1>3 DEF AfterWrite, Permanent
  <2> QED BY <2>1, ReportTracks
<1>4. CASE s.end # "ok" /\ s.end \notin Permanent
  <2>1. s.end = "failed" /\ Retry
    BY <1>4 DEF AfterWrite, Permanent, Ends
  <2>2. Spent /\ (task.sound /\ ~Large(card.kind, task) => present)
    BY <2>1 DEF Led, Stays, GoneEnds, Spent
  <2> QED BY <2>1, <2>2, RetryTracks
<1> QED BY <1>1, <1>2, <1>3, <1>4

(* The end of a verification: true, or tried again for a fault it met (AfterVerify). *)
LEMMA VerifyTracks ==
    ASSUME NoPublicKey, Answered, stage = "verify", NEW s, Led(s), s.end \in Ends, AfterVerify(s.end, s.heard)
    PROVE  TrackInv' /\ FailureHasFault'
<1>1. CASE VerifyWrite(s.end, s.heard)
  <2>1. Succeed(TRUE)
    BY <1>1 DEF AfterVerify, VerifyWrite
  <2> QED BY <2>1, SucceedTracks
<1>2. CASE s.end = "gone"
  <2>1. Report("gone", task.data, FALSE, FALSE)
    BY <1>2 DEF AfterVerify, VerifyWrite
  <2> QED BY <2>1, ReportTracks
<1>3. CASE ~VerifyWrite(s.end, s.heard) /\ s.end # "gone"
  <2>1. Retry
    BY <1>3 DEF AfterVerify
  <2>2. s.end # "none"
    BY DEF Ends
  <2>3. Spent
    BY <1>3, <2>2 DEF Led, Stays, VerifyWrite, Spent
  <2>4. task.sound /\ ~Large(card.kind, task) => present \/ Family(card.kind) = "desfire"
    BY <1>3, <2>2 DEF Led, GoneEnds
  <2> QED BY <2>1, <2>3, <2>4, RetryTracks
<1> QED BY <1>1, <1>2, <1>3

(* The end of the first read: an attempt begins on track, whatever was read
   (AfterResolve). *)
LEMMA ResolveTracks ==
    ASSUME NoPublicKey, Answered, stage = "resolve", NEW end, NEW h, end = "ok" => h \in Seq(Messages),
           task.attempt = 0, present \/ faults' - task.from >= 1, AfterResolve(end, h)
    PROVE  TrackInv' /\ FailureHasFault'
<1> DEFINE met == faults' - task.from
<1>1. PICK m \in Resolved(end, h) :
        IF PreflightRefuses(m) THEN Report("capacity", m, FALSE, FALSE)
        ELSE Starts("write", WriteOnce(m), [task EXCEPT !.data = m, !.attempt = 1])
  BY DEF AfterResolve
<1>2. m \in Messages
  BY AnsweredIs, ResolvedIs
<1>3. CASE PreflightRefuses(m)
  BY <1>1, <1>3, ReportTracks
<1>4. CASE ~PreflightRefuses(m)
  <2> PICK o : o = [task EXCEPT !.data = m, !.attempt = 1]
    OBVIOUS
  <2>1. Starts("write", WriteOnce(m), o)
    BY <1>1, <1>4
  <2>2. o.req = task.req /\ o.data = m /\ o.attempt = 1 /\ o.from = task.from /\ o.sound = task.sound
    BY AnsweredIs
  <2>3. ASSUME o.sound, ~Large(card'.kind, o) PROVE OnTrack(card', drv', "write", WriteOnce(m), << >>, m)
    <3>1. Need(m) \in Nat
      BY <1>2, LenMessage
    <3>2. Need(m) <= Chunks
      BY <2>2, <2>3, <3>1, FitsIs
    <3> QED BY <1>2, <2>2, <2>3, <3>2, AnsweredIs, WriteBegins
  <2>4. Track(card', drv', present', "write", WriteOnce(m), << >>, o, met)
    <3>1. met >= 0 /\ met \in Int /\ o.req.kind = "write" /\ (o.sound => SoundCard(card', drv')) /\ present' = present
      BY <2>2, AnsweredIs
    <3>2. present \/ met >= o.attempt
      BY <2>2
    <3>3. met >= o.attempt - 1
      BY <2>2, <3>1
    <3> HIDE DEF met
    <3> QED BY <2>2, <2>3, <3>1, <3>2, <3>3 DEF Track
  <2> QED BY <2>1, <2>2, <2>4, AnsweredIs, StartTracks
<1> QED BY <1>3, <1>4

(* A command sent: a fault is met, or the card answers as it should. *)
LEMMA ExchangeLed ==
    ASSUME Busy, TrackInv, faults \in Nat, stage \in {"write", "verify"},
           NEW how \in {"heard", "lost", "unheard", "nak"}, Exchange(how)
    PROVE  Led(Outcome(how))
<1> SUFFICES ASSUME task.sound, ~Large(card.kind, task)
             PROVE  /\ faults' - task.from >= task.attempt - 1
                    /\ \/ faults' - task.from >= task.attempt
                       \/ present /\ Stays(Outcome(how), card')
                       \/ ~present /\ stage = "write" /\ Outcome(how).end = "gone"
                    /\ ~present => GoneEnds(Outcome(how))
  BY DEF Led
<1>1. /\ todo # << >> /\ Head(todo).ins \notin Choosing /\ card' = CardAfter(how)
      /\ faults' = IF how = "heard" THEN faults ELSE faults + 1
      /\ how # "heard" => present
  BY ExchangeIs DEF Exchange
<1>2. /\ SoundCard(card, drv) /\ faults - task.from >= task.attempt - 1
      /\ \/ faults - task.from >= task.attempt
         \/ Lost(card, present, stage, todo)
         \/ present /\ OnTrack(card, drv, stage, todo, heard, task.data)
  BY DEF TrackInv, Track
<1>3. task.from \in Int /\ task.attempt \in Nat /\ task.data \in Messages
  BY TaskTyped
<1>4. ~present => GoneEnds(Outcome(how))
  BY <1>1, SentGone
<1>5. CASE how # "heard"
  BY <1>1, <1>2, <1>3, <1>4, <1>5
<1>6. CASE how = "heard"
  <2>1. faults' = faults
    BY <1>1, <1>6
  <2>2. CASE faults - task.from >= task.attempt
    BY <1>2, <1>4, <2>1, <2>2
  <2>3. CASE Lost(card, present, stage, todo)
    <3>1. ~present /\ stage = "write" /\ Family(card.kind) = "desfire" /\ Head(todo).ins = "select"
      BY <2>3, BusyBasics DEF Lost
    <3>2. Outcome(how).end = "gone"
      BY <1>4, <3>1 DEF GoneEnds
    <3> QED BY <1>2, <1>4, <2>1, <3>1, <3>2
  <2>4. CASE present /\ OnTrack(card, drv, stage, todo, heard, task.data)
    <3>1. Need(task.data) <= Chunks
      BY <1>3, LenMessage, FitsIs
    <3>2. OnWay
      BY <1>2, <2>4, <3>1 DEF OnWay
    <3>3. Stays(Outcome("heard"), CardAfter("heard"))
      BY <1>1, <2>4, <3>2, SentTrack
    <3> QED BY <1>1, <1>2, <1>6, <2>1, <2>4, <3>3
  <2> QED BY <1>2, <2>2, <2>3, <2>4
<1> QED BY <1>5, <1>6

(* What a choice of the driver's comes to. *)
LEMMA ChosenIs ==
    ASSUME Busy, stage \in {"write", "verify"}, NEW ins \in Choosing, Head(todo).ins = ins
    PROVE  /\ (ins = "fit" /\ stage = "write") \/ (ins = "enter" /\ Family(card.kind) = "desfire")
           /\ ins = "enter" /\ stage = "write" => Entered.end # "failed"
<1>1. Family(card.kind) \in {"page", "classic", "type4", "desfire"} /\ ins \in Issued(Family(card.kind), stage)
  BY BusyBasics, Families
<1>2. (ins = "fit" /\ stage = "write") \/ (ins = "enter" /\ Family(card.kind) = "desfire")
  <2>1. CASE stage = "verify"
    BY <1>1, <2>1 DEF Issued, ReadsAt, Choosing
  <2>2. CASE stage = "write"
    <3>1. Family(card.kind) = "desfire" => ins = "enter"
      BY <1>1, <2>2 DEF Issued, ReadsAt, Choosing
    <3>2. Family(card.kind) \in {"page", "classic", "type4"} => ins = "fit"
      BY <1>1, <2>2 DEF Issued, ReadsAt, Choosing
    <3> QED BY <1>1, <2>2, <3>1, <3>2
  <2> QED BY <2>1, <2>2
<1>3. ASSUME stage = "write" PROVE Entered.end # "failed"
  <2>1. \/ \E q : Entered = Onward(drv, q)
        \/ Entered = EndsWith(drv, heard, "readOnly") \/ Entered = EndsWith(drv, heard, "capacity")
    BY <1>3 DEF Entered, Reading
  <2>2. \A q : Onward(drv, q).end \in {"ok", "none"}
    BY DEF Onward
  <2> QED BY <2>1, <2>2, EndsForm
<1> QED BY <1>2, <1>3

(* A choice made: the message fits and the rights are free, so it goes on. *)
LEMMA ChooseLed ==
    ASSUME Busy, TrackInv, faults \in Nat, stage \in {"write", "verify"}, NEW ins \in Choosing, Choose(ins)
    PROVE  Led(IF ins = "fit" THEN Fitted ELSE Entered)
<1> DEFINE s == IF ins = "fit" THEN Fitted ELSE Entered
<1> SUFFICES ASSUME task.sound, ~Large(card.kind, task)
             PROVE  /\ faults' - task.from >= task.attempt - 1
                    /\ \/ faults' - task.from >= task.attempt
                       \/ present /\ Stays(s, card')
                       \/ ~present /\ stage = "write" /\ s.end = "gone"
                    /\ ~present => GoneEnds(s)
  BY DEF Led
<1>1. todo # << >> /\ Head(todo).ins = ins /\ faults' = faults /\ card' = card
  BY DEF Choose
<1>2. /\ SoundCard(card, drv) /\ faults - task.from >= task.attempt - 1
      /\ \/ faults - task.from >= task.attempt
         \/ Lost(card, present, stage, todo)
         \/ present /\ OnTrack(card, drv, stage, todo, heard, task.data)
  BY DEF TrackInv, Track
<1>3. ~TooLarge
  BY LargeIs
<1>4. /\ (ins = "fit" /\ stage = "write") \/ (ins = "enter" /\ Family(card.kind) = "desfire")
      /\ ins = "enter" /\ stage = "write" => Entered.end # "failed"
  BY <1>1, ChosenIs
<1>5. ~Lost(card, present, stage, todo)
  BY <1>1, <1>4, BusyBasics DEF Lost
<1>6. GoneEnds(s)
  <2>1. CASE ins = "fit"
    <3>1. s = Onward(drv, Tail(todo)) /\ stage = "write"
      BY <1>3, <1>4, <2>1 DEF Fitted
    <3>2. s.end \in {"ok", "none"}
      BY <3>1 DEF Onward
    <3> HIDE DEF s
    <3> QED BY <1>1, <2>1, <3>1, <3>2 DEF GoneEnds
  <2>2. CASE ins # "fit"
    <3>1. s = Entered /\ ins = "enter"
      BY <1>4, <2>2
    <3> HIDE DEF s
    <3> QED BY <1>1, <1>4, <3>1 DEF GoneEnds
  <2> QED BY <2>1, <2>2
<1>7. CASE faults - task.from >= task.attempt
  BY <1>1, <1>2, <1>6, <1>7
<1>8. CASE present /\ OnTrack(card, drv, stage, todo, heard, task.data)
  <2>1. task.data \in Messages
    BY TaskTyped
  <2>2. Need(task.data) <= Chunks
    BY <2>1, LenMessage, FitsIs
  <2>3. OnWay
    BY <1>2, <1>8, <2>2 DEF OnWay
  <2>4. Stays(s, card)
    BY <1>1, <1>3, <1>4, <2>3, FitTrack, EnterTrack
  <2> HIDE DEF s
  <2> QED BY <1>1, <1>2, <1>6, <1>8, <2>4
<1> QED BY <1>2, <1>5, <1>7, <1>8

(* What a command or a choice leaves of any stage. *)
LEMMA AdvanceTracks ==
    ASSUME NoPublicKey, Busy, last = NoWord, TrackInv, faults \in Nat, faults' \in Nat, faults' >= faults,
           present' = present, NEW s, Good(s, card'), Advance(s),
           stage # "lock" /\ task.sound => SoundCard(card', s.drv),
           stage \in {"write", "verify"} => Led(s)
    PROVE  TrackInv' /\ FailureHasFault'
<1>1. drv' = s.drv /\ Standing(card', drv') /\ card'.kind = card.kind
  BY DEF Advance, Good, Standing
<1>2. stage \in {"resolve", "write", "verify", "lock"} /\ task.from \in Int /\ task.attempt \in Nat
  BY BusyBasics, TaskTyped
<1>3. stage # "lock" => Answered
  <2> SUFFICES ASSUME stage # "lock" PROVE Answered
    OBVIOUS
  <2>1. task.req.kind = "write" /\ faults - task.from >= 0
    BY <1>2 DEF TrackInv, Track
  <2>2. faults' - task.from >= 0
    BY <1>2, <2>1
  <2> QED BY <1>1, <2>1, <2>2 DEF Answered
<1>4. CASE s.end = "none"
  <2>1. todo' = s.todo /\ heard' = s.heard /\ stage' = stage /\ task' = task /\ last' = NoWord
    BY <1>4 DEF Advance
  <2>2. FailureHasFault'
    BY <2>1 DEF FailureHasFault
  <2>3. ASSUME stage # "lock"
        PROVE  Track(card', drv', present', stage, s.todo, s.heard, task, faults' - task.from)
    <3>1. Track(card, drv, present, stage, todo, heard, task, faults - task.from)
      BY <1>2, <2>3 DEF TrackInv
    <3>2. stage = "resolve" => task.attempt = 0 /\ (present \/ faults' - task.from >= 1)
      BY <1>2, <3>1 DEF Track
    <3>3. ASSUME stage \in {"write", "verify"}, task.sound, ~Large(card'.kind, task)
          PROVE  /\ faults' - task.from >= task.attempt - 1
                 /\ \/ faults' - task.from >= task.attempt
                    \/ present' /\ OnTrack(card', drv', stage, s.todo, s.heard, task.data)
      <4>1. Led(s) /\ ~Large(card.kind, task)
        BY <1>1, <3>3
      <4>2. Stays(s, card') => OnTrack(card', drv', stage, s.todo, s.heard, task.data)
        BY <1>1, <1>4 DEF Stays
      <4> QED BY <1>4, <3>3, <4>1, <4>2 DEF Led
    <3>4. faults' - task.from >= 0 /\ task.req.kind = "write" /\ (task.sound => SoundCard(card', drv'))
      BY <1>3, <2>3 DEF Answered
    <3> QED BY <3>2, <3>3, <3>4 DEF Track
  <2> QED BY <2>1, <2>2, <2>3 DEF TrackInv
<1>5. CASE s.end # "none" /\ stage = "resolve"
  <2>1. AfterResolve(s.end, s.heard) /\ Concluded(card', drv', s.end, s.heard)
    BY <1>1, <1>5 DEF Advance, Good
  <2>2. s.end = "ok" => s.heard \in Seq(Messages)
    BY <1>5, <2>1 DEF Concluded, ReadsAt, HeardSoFar
  <2>3. task.attempt = 0 /\ (present \/ faults - task.from >= 1)
    BY <1>5 DEF TrackInv, Track
  <2>4. present \/ faults' - task.from >= 1
    BY <1>2, <2>3
  <2> QED BY <1>3, <1>5, <2>1, <2>2, <2>3, <2>4, ResolveTracks
<1>6. CASE s.end # "none" /\ stage = "write"
  <2>1. AfterWrite(s.end) /\ s.end \in Ends
    BY <1>6 DEF Advance, Good, Concluded
  <2> QED BY <1>3, <1>6, <2>1, WriteTracks
<1>7. CASE s.end # "none" /\ stage = "verify"
  <2>1. AfterVerify(s.end, s.heard) /\ s.end \in Ends
    BY <1>7 DEF Advance, Good, Concluded
  <2> QED BY <1>3, <1>7, <2>1, VerifyTracks
<1>8. CASE s.end # "none" /\ stage = "lock"
  <2>1. AfterLock(s.end) /\ task.req.kind \in {"write", "lock"}
    BY <1>8, TaskTyped DEF Advance
  <2>2. ASSUME NEW result, NEW sure, NEW locked, Report(result, task.data, sure, locked)
        PROVE  stage' = "idle" /\ last'.kind = task.req.kind /\ last'.result = result
    <3> PICK f : f = ~TooLarge
      OBVIOUS
    <3>1. last' = [kind |-> task.req.kind, result |-> result, data |-> task.data, sure |-> sure,
                   locked |-> locked, attempts |-> task.req.attempts, met |-> faults' - task.from,
                   fits |-> f, sound |-> task.sound]
      BY <2>2 DEF Report
    <3> QED BY <2>2, <3>1 DEF Report
  <2>3. CASE s.end = "ok"
    <3>1. Report("success", task.data, task.sure, TRUE)
      BY <2>1, <2>3 DEF AfterLock
    <3>2. stage' = "idle" /\ last'.result = "success"
      BY <2>2, <3>1
    <3> QED BY <3>2 DEF TrackInv, FailureHasFault
  <2>4. CASE s.end # "ok" /\ task.req.kind = "lock"
    <3>1. Report(s.end, task.data, FALSE, FALSE)
      BY <2>1, <2>4 DEF AfterLock
    <3>2. stage' = "idle" /\ last'.kind = "lock"
      BY <2>2, <2>4, <3>1
    <3> QED BY <3>2 DEF TrackInv, FailureHasFault
  <2>5. CASE s.end # "ok" /\ task.req.kind = "write"
    <3>1. Report("notLocked", task.data, task.sure, FALSE)
      BY <2>1, <2>5 DEF AfterLock
    <3>2. stage' = "idle" /\ last'.result = "notLocked"
      BY <2>2, <3>1
    <3> QED BY <3>2 DEF TrackInv, FailureHasFault
  <2> QED BY <2>1, <2>3, <2>4, <2>5
<1> QED BY <1>2, <1>4, <1>5, <1>6, <1>7, <1>8

(* An operation begins with a card in the field. *)
LEMMA BeginTracks ==
    ASSUME WriteInv, NEW r \in Requests, Begin(r)
    PROVE  TrackInv' /\ FailureHasFault'
<1> PICK y : y = Sound
  OBVIOUS
<1> PICK o : o = [req |-> r, data |-> Blank, attempt |-> 0, sure |-> FALSE, from |-> faults, sound |-> y]
  OBVIOUS
<1>1. /\ present /\ task' = o /\ heard' = << >> /\ last' = NoWord /\ card' = card /\ drv' = drv
      /\ faults' = faults /\ present' = present /\ faults \in Nat /\ CardOK(card)
      /\ stage' = "lock" \/ (r.kind = "write" /\ stage' = "resolve")
  BY DEF Begin, WriteInv
<1>2. y <=> SoundCard(card, drv)
  BY SoundCardIs
<1>3. FailureHasFault'
  BY <1>1 DEF FailureHasFault
<1>4. o.req = r /\ o.attempt = 0 /\ o.from = faults /\ o.sound = y
  OBVIOUS
<1>5. ASSUME stage' = "resolve" PROVE Track(card', drv', present', "resolve", todo', heard', o, faults' - o.from)
  BY <1>1, <1>2, <1>4, <1>5 DEF Track
<1>6. TrackInv'
  BY <1>1, <1>5 DEF TrackInv
<1> QED BY <1>3, <1>6

(* A command keeps the faults and the attempts in step, and so does a choice. *)
LEMMA ExchangeTracks ==
    ASSUME NoPublicKey, WriteInv, TrackInv, NEW how \in {"heard", "lost", "unheard", "nak"}, Exchange(how)
    PROVE  TrackInv' /\ FailureHasFault'
<1>1. /\ todo # << >> /\ Head(todo).ins \notin Choosing /\ card' = CardAfter(how) /\ Advance(Outcome(how))
      /\ faults' = (IF how = "heard" THEN faults ELSE faults + 1) /\ present' = present
  BY ExchangeIs
<1>2. Busy /\ last = NoWord /\ faults \in Nat
  BY <1>1, UnderWay
<1>3. faults' \in Nat /\ faults' >= faults
  BY <1>1, <1>2
<1>4. Good(Outcome(how), card')
  BY <1>1, <1>2, SentGoes
<1>5. stage # "lock" /\ task.sound => SoundCard(card', Outcome(how).drv)
  <2> SUFFICES ASSUME stage # "lock", task.sound PROVE SoundCard(card', Outcome(how).drv)
    OBVIOUS
  <2>1. stage \in {"resolve", "write", "verify"}
    BY <1>2, BusyBasics
  <2>2. SoundCard(card, drv)
    BY <2>1 DEF TrackInv, Track
  <2> QED BY <1>1, <1>2, <2>2, SoundStays
<1>6. stage \in {"write", "verify"} => Led(Outcome(how))
  BY <1>2, ExchangeLed
<1> QED BY <1>1, <1>2, <1>3, <1>4, <1>5, <1>6, AdvanceTracks

(* A choice of the driver's keeps them so. *)
LEMMA ChooseTracks ==
    ASSUME NoPublicKey, WriteInv, TrackInv, NEW ins \in Choosing, Choose(ins)
    PROVE  TrackInv' /\ FailureHasFault'
<1> DEFINE s == CASE ins = "fit"    -> Fitted
                  [] ins = "enter"  -> Entered
                  [] ins = "cannot" -> EndsWith(drv, heard, "failed")
<1>1. todo # << >> /\ Head(todo).ins = ins /\ faults' = faults /\ card' = card /\ present' = present /\ Advance(s)
  BY DEF Choose
<1>2. Busy /\ last = NoWord /\ faults \in Nat
  BY <1>1, UnderWay
<1>3. ins \in {"fit", "enter", "cannot"}
  BY DEF Choosing
<1>4. Good(s, card')
  <2>1. ins = "fit" => Good(Fitted, card)
    BY <1>1, <1>2, FitGoes
  <2>2. ins = "enter" => Good(Entered, card)
    BY <1>1, <1>2, EnterGoes
  <2>3. Good(EndsWith(drv, heard, "failed"), card)
    BY <1>2, CannotGoes
  <2> QED BY <1>1, <1>3, <2>1, <2>2, <2>3
<1>5. s.drv = drv
  <2>1. /\ \A how : EndsWith(drv, heard, how).drv = drv
        /\ \A q : Onward(drv, q).drv = drv
    BY DEF EndsWith, Onward
  <2>2. Fitted.drv = drv
    <3>1. Fitted = Onward(drv, Tail(todo)) \/ \E how : Fitted = EndsWith(drv, heard, how)
      BY DEF Fitted
    <3> QED BY <2>1, <3>1
  <2>3. ins = "enter" => Entered.drv = drv
    <3>0. stage \in {"resolve", "write", "verify", "lock"}
      BY <1>2, BusyBasics
    <3>1. (\E q : Entered = Onward(drv, q)) \/ \E how : Entered = EndsWith(drv, heard, how)
      BY <3>0 DEF Entered, Reading
    <3> QED BY <2>1, <3>1
  <2> QED BY <1>3, <2>1, <2>2, <2>3
<1>6. stage # "lock" /\ task.sound => SoundCard(card', s.drv)
  <2>1. stage \in {"resolve", "write", "verify", "lock"}
    BY <1>2, BusyBasics
  <2>2. stage # "lock" /\ task.sound => SoundCard(card, drv)
    BY <2>1 DEF TrackInv, Track
  <2> QED BY <1>1, <1>5, <2>2
<1>7. stage \in {"write", "verify"} => Led(s)
  <2> SUFFICES ASSUME stage \in {"write", "verify"} PROVE Led(s)
    OBVIOUS
  <2>1. ins \in {"fit", "enter"}
    BY <1>1, <1>2, ChosenIs
  <2>2. s = IF ins = "fit" THEN Fitted ELSE Entered
    BY <2>1
  <2> QED BY <1>2, <2>2, ChooseLed
<1>8. faults' \in Nat /\ faults' >= faults
  BY <1>1, <1>2
<1> HIDE DEF s
<1> QED BY <1>1, <1>2, <1>4, <1>6, <1>7, <1>8, AdvanceTracks

(* A card lifted is a fault met. *)
LEMMA LiftedTracks ==
    ASSUME WriteInv, TrackInv, Lifted
    PROVE  TrackInv' /\ FailureHasFault'
<1>1. /\ stage # "idle" /\ present' = FALSE /\ faults' = faults + 1 /\ faults \in Nat
      /\ card' = card /\ drv' = drv /\ stage' = stage /\ todo' = todo /\ heard' = heard /\ task' = task
      /\ last' = NoWord
  BY DEF Lifted, WriteInv
<1>2. FailureHasFault'
  BY <1>1 DEF FailureHasFault
<1>3. ASSUME stage \in {"resolve", "write", "verify"} PROVE TrackInv'
  <2>1. Busy
    BY <1>1, <1>3 DEF WriteInv, Busy, Stages
  <2>2. task.from \in Int /\ task.attempt \in Nat
    BY <2>1, TaskTyped
  <2>3. Track(card, drv, present, stage, todo, heard, task, faults - task.from)
    BY <1>3 DEF TrackInv
  <2>4. faults' - task.from = (faults - task.from) + 1
    BY <1>1, <2>2
  <2> DEFINE met == faults - task.from
  <2>5. met \in Int
    BY <1>1, <2>2
  <2> HIDE DEF met
  <2>6. Track(card, drv, FALSE, stage, todo, heard, task, met + 1)
    <3>1. Track(card, drv, present, stage, todo, heard, task, met)
      BY <2>3 DEF met
    <3> PICK a : a = task.attempt
      OBVIOUS
    <3>2. met >= 0 /\ met + 1 >= 0 /\ met + 1 >= 1 /\ (met >= a - 1 => met + 1 >= a - 1 /\ met + 1 >= a)
      <4>1. met >= 0 /\ a \in Nat
        BY <2>2, <3>1 DEF Track
      <4> QED BY <2>5, <4>1
    <3>3. /\ task.req.kind = "write" /\ (task.sound => SoundCard(card, drv))
          /\ stage = "resolve" => a = 0
          /\ task.sound /\ ~Large(card.kind, task) /\ stage \in {"write", "verify"} => met >= a - 1
      BY <3>1 DEF Track
    <3> QED BY <3>2, <3>3 DEF Track
  <2> QED BY <1>1, <2>4, <2>6 DEF TrackInv, met
<1> QED BY <1>1, <1>2, <1>3 DEF TrackInv

(* Every step keeps the faults and the attempts in step. *)
LEMMA StepTracks ==
    ASSUME NoPublicKey, WriteInv, TrackInv, FailureHasFault, [WriteNext]_writeVars
    PROVE  TrackInv' /\ FailureHasFault'
<1>1. ASSUME NEW r \in Requests, Begin(r) PROVE TrackInv' /\ FailureHasFault'
  BY <1>1, BeginTracks
<1>2. ASSUME NEW how \in {"heard", "lost", "unheard", "nak"}, Exchange(how) PROVE TrackInv' /\ FailureHasFault'
  BY <1>2, ExchangeTracks
<1>3. ASSUME NEW ins \in Choosing, Choose(ins) PROVE TrackInv' /\ FailureHasFault'
  BY <1>3, ChooseTracks
<1>4. CASE Lifted
  BY <1>4, LiftedTracks
<1>5. CASE Return
  <2>1. stage' = "idle" /\ last' = NoWord
    BY <1>5 DEF Return
  <2> QED BY <2>1 DEF TrackInv, FailureHasFault
<1>6. CASE UNCHANGED writeVars
  <2>1. /\ UNCHANGED <<card, drv, present, stage, todo, heard, task, last, faults>>
    BY <1>6 DEF writeVars
  <2> QED BY <2>1 DEF TrackInv, FailureHasFault
<1> QED BY <1>1, <1>2, <1>3, <1>4, <1>5, <1>6 DEF WriteNext

(* FailureHasFault, where the keys configured are none that everybody has   *)
(* (writeMessageToCard, and the keys authenticateSector is given).           *)
THEOREM FailuresHaveFaults == NoPublicKey => (WriteSpec => []FailureHasFault)
<1> SUFFICES ASSUME NoPublicKey PROVE WriteSpec => []FailureHasFault
  OBVIOUS
<1>1. WriteInit => WriteInv /\ TrackInv /\ FailureHasFault
  <2>1. WriteInit => stage = "idle" /\ last = NoWord
    BY DEF WriteInit
  <2> QED BY <2>1, InitHolds DEF TrackInv, FailureHasFault
<1>2. WriteInv /\ TrackInv /\ FailureHasFault /\ [WriteNext]_writeVars => WriteInv' /\ TrackInv' /\ FailureHasFault'
  BY StepHolds, StepTracks
<1> QED BY <1>1, <1>2, PTL DEF WriteSpec
=============================================================================
