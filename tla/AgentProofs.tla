----------------------------- MODULE AgentProofs -----------------------------
(* What the agent's lifecycle guarantees for every number of callers, runs *)
(* and certificates, and the several managers behind it for every number   *)
(* of managers and of watchers.                                            *)
EXTENDS Agent, MultiManager, SequenceTheorems, TLAPS

-----------------------------------------------------------------------------
(* The lifecycle.                                                          *)

AgentTypes ==
    /\ state \in States /\ holder \in Callers \cup {None} /\ run \in 0 .. MaxRuns
    /\ up \subseteq Components /\ cancelled \subseteq 1 .. run
    /\ pc \in [Callers \cup Watchers -> CallerPlaces \cup WatcherPlaces]
    /\ bound \in BOOLEAN /\ issuing \in [Reissuers -> {"idle", "writing", "written"}]
    /\ channel \in {"none", "empty", "token"}

(* Whoever is past the first line of a Start or a Stop has the lifecycle   *)
(* lock, and while nobody has it the agent is stopped or running.          *)
Locked(c) == pc[c] \notin {"idle", "say"}

LockInv ==
    /\ AgentTypes
    /\ \A c \in Callers : Locked(c) <=> holder = c
    /\ holder = None <=> state \in {"stopped", "running"}
    /\ state = "stopped" => up = {} /\ readers = 0 /\ cancelled = 1 .. run
    /\ state # "stopped" => run \in Watchers
    /\ 1 .. run - 1 \subseteq cancelled
    /\ \A c \in Callers :
          /\ pc[c] \in {"store", "adopt", "hand", "open", "close"} => up = {}
          /\ pc[c] = "store" => readers = 0
          /\ pc[c] \in {"store", "adopt", "hand", "open"} \/ (pc[c] = "components" /\ "watch" \notin up)
                => pc[run] = "none"
    /\ \A w \in Watchers : w > run => pc[w] = "none"

LEMMA LockInit == Init => LockInv
<1> SUFFICES ASSUME Init PROVE LockInv
  OBVIOUS
<1> USE NamesAssumption, BoundsAssumption DEF Init, States, Components, Watchers, CallerPlaces,
        WatcherPlaces, Reissuers
<1>1. run = 0 /\ 1 .. run = {} /\ 1 .. run - 1 = {}
  OBVIOUS
<1>2. pc \in [Callers \cup Watchers -> CallerPlaces \cup WatcherPlaces]
  OBVIOUS
<1>4. issuing \in [Reissuers -> {"idle", "writing", "written"}] /\ cancelled \subseteq 1 .. run
  BY <1>1
<1>3. /\ \A c \in Callers : pc[c] = "idle"
      /\ \A w \in Watchers : pc[w] = "none"
  OBVIOUS
<1>5. AgentTypes
  <2>1. bound \in BOOLEAN /\ channel \in {"none", "empty", "token"} /\ up \subseteq Components
    OBVIOUS
  <2>2. state \in States /\ holder \in Callers \cup {None} /\ run \in 0 .. MaxRuns
    BY <1>1
  <2> HIDE DEF Init, States, Components, Reissuers, CallerPlaces, WatcherPlaces, Watchers
  <2> QED BY <1>2, <1>4, <2>1, <2>2 DEF AgentTypes
<1>6. \A c \in Callers : ~Locked(c)
  BY <1>3 DEF Locked
<1> HIDE DEF CallerPlaces, WatcherPlaces
<1> QED BY <1>1, <1>3, <1>5, <1>6 DEF LockInv

LEMMA LockStep == LockInv /\ [Next]_vars => LockInv'
<1> SUFFICES ASSUME LockInv, [Next]_vars PROVE LockInv'
  OBVIOUS
<1> USE NamesAssumption, BoundsAssumption
    DEF LockInv, AgentTypes, Locked, States, Components, Watchers, CallerPlaces, WatcherPlaces,
        Reissuers, Go, Bind, CloseListener, Unwound, lifeVars, portVars, certVars, setVars, saidVars
<1>1. ASSUME NEW c \in Callers, Start(c) PROVE LockInv'
  BY <1>1 DEF Start
<1>2. ASSUME NEW c \in Callers, Stop(c) PROVE LockInv'
  BY <1>2 DEF Stop
<1>3. ASSUME NEW c \in Callers, StoreReaders(c) PROVE LockInv'
  BY <1>3 DEF StoreReaders
<1>4. ASSUME NEW c \in Callers, Adopt(c) PROVE LockInv'
  BY <1>4 DEF Adopt
<1>5. ASSUME NEW c \in Callers, Hand(c) PROVE LockInv'
  BY <1>5 DEF Hand
<1>6. ASSUME NEW c \in Callers, OpenReaders(c) PROVE LockInv'
  BY <1>6 DEF OpenReaders
<1>7. ASSUME NEW c \in Callers, StartWatch(c) PROVE LockInv'
  BY <1>7 DEF StartWatch
<1>8. ASSUME NEW c \in Callers, StartEndpoint(c) PROVE LockInv'
  BY <1>8 DEF StartEndpoint
<1>9. ASSUME NEW c \in Callers, StartListener(c) PROVE LockInv'
  BY <1>9 DEF StartListener
<1>10. ASSUME NEW c \in Callers, Advertise(c, "commit") PROVE LockInv'
  BY <1>10 DEF Advertise
<1>11. ASSUME NEW c \in Callers, Commit(c) PROVE LockInv'
  BY <1>11 DEF Commit
<1>12. ASSUME NEW c \in Callers, StopComponent(c) PROVE LockInv'
  BY <1>12 DEF StopComponent
<1>13. ASSUME NEW c \in Callers, CloseReaders(c) PROVE LockInv'
  BY <1>13 DEF CloseReaders
<1>14. ASSUME NEW c \in Callers, Say(c) PROVE LockInv'
  BY <1>14 DEF Say
<1>15. ASSUME NEW w \in Watchers, TakeReissue(w) PROVE LockInv'
  BY <1>15 DEF TakeReissue
<1>16. ASSUME NEW w \in Watchers, EndWatcher(w) PROVE LockInv'
  BY <1>16 DEF EndWatcher
<1>17. ASSUME NEW w \in Watchers, RebindStop(w) PROVE LockInv'
  BY <1>17 DEF RebindStop
<1>18. ASSUME NEW w \in Watchers, RebindStart(w) PROVE LockInv'
  <2>1. /\ \E to \in {"advertise", "waiting"} : pc' = [pc EXCEPT ![w] = to]
        /\ UNCHANGED <<lifeVars, certVars>> /\ bound' \in BOOLEAN /\ pc[w] = "pause"
    BY <1>18 DEF RebindStart
  <2>2. w \notin Callers /\ w <= run
    BY <2>1
  <2> QED BY <2>1, <2>2
<1>19. ASSUME NEW w \in Watchers, Advertise(w, "waiting") PROVE LockInv'
  BY <1>19 DEF Advertise
<1>20. ASSUME NEW r \in Reissuers, Reissue(r) PROVE LockInv'
  BY <1>20 DEF Reissue
<1>21. ASSUME NEW r \in Reissuers, Written(r) PROVE LockInv'
  BY <1>21 DEF Written
<1>22. ASSUME NEW r \in Reissuers, NotifyReissued(r) PROVE LockInv'
  BY <1>22 DEF NotifyReissued
<1>23. ASSUME NEW m \in Modes, ApplyRead(m) PROVE LockInv'
  BY <1>23 DEF ApplyRead
<1>24. CASE ApplyStore \/ ApplyReaders \/ LoadCertificate
  BY <1>24 DEF ApplyStore, ApplyReaders, LoadCertificate
<1>25. CASE UNCHANGED vars
  BY <1>25 DEF vars
<1> QED BY <1>1, <1>2, <1>3, <1>4, <1>5, <1>6, <1>7, <1>8, <1>9, <1>10, <1>11, <1>12, <1>13, <1>14, <1>15, <1>16, <1>17, <1>18, <1>19, <1>20, <1>21, <1>22, <1>23, <1>24, <1>25
        DEF Next, CallerStep, WatcherStep, ReissuerStep

(* However a start fails and whoever stops it, an agent that is stopped    *)
(* left no component, no supervisor, and no watcher that is not told.      *)
THEOREM StoppedAgentIsUnwound == Spec => []StoppedIsUnwound
<1>1. LockInv => StoppedIsUnwound
  BY DEF LockInv, StoppedIsUnwound
<1> QED BY <1>1, LockInit, LockStep, PTL DEF Spec

(* The listener comes after the watch, so that while it serves, and while  *)
(* a watcher rebinds it, there is a channel to notify.                     *)
ChannelInv ==
    channel = "none" =>
        /\ ~bound /\ up = {}
        /\ \A w \in Watchers : pc[w] = "none"

LEMMA ChannelStep == LockInv /\ ChannelInv /\ [Next]_vars => ChannelInv'
<1> SUFFICES ASSUME LockInv, ChannelInv, [Next]_vars PROVE ChannelInv'
  OBVIOUS
<1> USE NamesAssumption, BoundsAssumption
    DEF ChannelInv, LockInv, AgentTypes, Components, Place, Due, Watchers, Go, Bind, CloseListener, Unwound,
        lifeVars, portVars, certVars, setVars, saidVars
<1>1. ASSUME NEW c \in Callers, Start(c) PROVE ChannelInv'
  BY <1>1 DEF Start
<1>2. ASSUME NEW c \in Callers, Stop(c) PROVE ChannelInv'
  BY <1>2 DEF Stop
<1>3. ASSUME NEW c \in Callers, StoreReaders(c) PROVE ChannelInv'
  BY <1>3 DEF StoreReaders
<1>4. ASSUME NEW c \in Callers, Adopt(c) PROVE ChannelInv'
  BY <1>4 DEF Adopt
<1>5. ASSUME NEW c \in Callers, Hand(c) PROVE ChannelInv'
  BY <1>5 DEF Hand
<1>6. ASSUME NEW c \in Callers, OpenReaders(c) PROVE ChannelInv'
  BY <1>6 DEF OpenReaders
<1>7. ASSUME NEW c \in Callers, StartWatch(c) PROVE ChannelInv'
  BY <1>7 DEF StartWatch
<1>8. ASSUME NEW c \in Callers, StartEndpoint(c) PROVE ChannelInv'
  BY <1>8 DEF StartEndpoint
<1>9. ASSUME NEW c \in Callers, StartListener(c) PROVE ChannelInv'
  BY <1>9 DEF StartListener
<1>10. ASSUME NEW c \in Callers, Advertise(c, "commit") PROVE ChannelInv'
  BY <1>10 DEF Advertise
<1>11. ASSUME NEW c \in Callers, Commit(c) PROVE ChannelInv'
  BY <1>11 DEF Commit
<1>12. ASSUME NEW c \in Callers, StopComponent(c) PROVE ChannelInv'
  BY <1>12 DEF StopComponent
<1>13. ASSUME NEW c \in Callers, CloseReaders(c) PROVE ChannelInv'
  BY <1>13 DEF CloseReaders
<1>14. ASSUME NEW c \in Callers, Say(c) PROVE ChannelInv'
  BY <1>14 DEF Say
<1>15. ASSUME NEW w \in Watchers, TakeReissue(w) PROVE ChannelInv'
  BY <1>15 DEF TakeReissue
<1>16. ASSUME NEW w \in Watchers, EndWatcher(w) PROVE ChannelInv'
  BY <1>16 DEF EndWatcher
<1>17. ASSUME NEW w \in Watchers, RebindStop(w) PROVE ChannelInv'
  BY <1>17 DEF RebindStop
<1>18. ASSUME NEW w \in Watchers, RebindStart(w) PROVE ChannelInv'
  BY <1>18 DEF RebindStart
<1>19. ASSUME NEW w \in Watchers, Advertise(w, "waiting") PROVE ChannelInv'
  BY <1>19 DEF Advertise
<1>20. ASSUME NEW r \in Reissuers, Reissue(r) PROVE ChannelInv'
  BY <1>20 DEF Reissue
<1>21. ASSUME NEW r \in Reissuers, Written(r) PROVE ChannelInv'
  BY <1>21 DEF Written
<1>22. ASSUME NEW r \in Reissuers, NotifyReissued(r) PROVE ChannelInv'
  BY <1>22 DEF NotifyReissued
<1>23. ASSUME NEW m \in Modes, ApplyRead(m) PROVE ChannelInv'
  BY <1>23 DEF ApplyRead
<1>24. CASE ApplyStore \/ ApplyReaders \/ LoadCertificate
  BY <1>24 DEF ApplyStore, ApplyReaders, LoadCertificate
<1>25. CASE UNCHANGED vars
  BY <1>25 DEF vars
<1> QED BY <1>1, <1>2, <1>3, <1>4, <1>5, <1>6, <1>7, <1>8, <1>9, <1>10, <1>11, <1>12, <1>13, <1>14, <1>15, <1>16, <1>17, <1>18, <1>19, <1>20, <1>21, <1>22, <1>23, <1>24, <1>25
        DEF Next, CallerStep, WatcherStep, ReissuerStep

LEMMA StaleStep == LockInv /\ ChannelInv /\ StaleIsAccounted /\ [Next]_vars => StaleIsAccounted'
<1> SUFFICES ASSUME LockInv, ChannelInv, StaleIsAccounted, [Next]_vars PROVE StaleIsAccounted'
  OBVIOUS
<1> USE NamesAssumption, BoundsAssumption
    DEF StaleIsAccounted, Stale, ChannelInv, LockInv, AgentTypes, Components, Due, Watchers, Go, Bind, CloseListener, Unwound,
        lifeVars, portVars, certVars, setVars, saidVars
<1>1. ASSUME NEW c \in Callers, Start(c) PROVE StaleIsAccounted'
  BY <1>1 DEF Start
<1>2. ASSUME NEW c \in Callers, Stop(c) PROVE StaleIsAccounted'
  BY <1>2 DEF Stop
<1>3. ASSUME NEW c \in Callers, StoreReaders(c) PROVE StaleIsAccounted'
  BY <1>3 DEF StoreReaders
<1>4. ASSUME NEW c \in Callers, Adopt(c) PROVE StaleIsAccounted'
  BY <1>4 DEF Adopt
<1>5. ASSUME NEW c \in Callers, Hand(c) PROVE StaleIsAccounted'
  BY <1>5 DEF Hand
<1>6. ASSUME NEW c \in Callers, OpenReaders(c) PROVE StaleIsAccounted'
  BY <1>6 DEF OpenReaders
<1>7. ASSUME NEW c \in Callers, StartWatch(c) PROVE StaleIsAccounted'
  BY <1>7 DEF StartWatch
<1>8. ASSUME NEW c \in Callers, StartEndpoint(c) PROVE StaleIsAccounted'
  BY <1>8 DEF StartEndpoint
<1>9. ASSUME NEW c \in Callers, StartListener(c) PROVE StaleIsAccounted'
  BY <1>9 DEF StartListener
<1>10. ASSUME NEW c \in Callers, Advertise(c, "commit") PROVE StaleIsAccounted'
  BY <1>10 DEF Advertise
<1>11. ASSUME NEW c \in Callers, Commit(c) PROVE StaleIsAccounted'
  BY <1>11 DEF Commit
<1>12. ASSUME NEW c \in Callers, StopComponent(c) PROVE StaleIsAccounted'
  BY <1>12 DEF StopComponent
<1>13. ASSUME NEW c \in Callers, CloseReaders(c) PROVE StaleIsAccounted'
  BY <1>13 DEF CloseReaders
<1>14. ASSUME NEW c \in Callers, Say(c) PROVE StaleIsAccounted'
  BY <1>14 DEF Say
<1>15. ASSUME NEW w \in Watchers, TakeReissue(w) PROVE StaleIsAccounted'
  BY <1>15 DEF TakeReissue
<1>16. ASSUME NEW w \in Watchers, EndWatcher(w) PROVE StaleIsAccounted'
  BY <1>16 DEF EndWatcher
<1>17. ASSUME NEW w \in Watchers, RebindStop(w) PROVE StaleIsAccounted'
  BY <1>17 DEF RebindStop
<1>18. ASSUME NEW w \in Watchers, RebindStart(w) PROVE StaleIsAccounted'
  BY <1>18 DEF RebindStart
<1>19. ASSUME NEW w \in Watchers, Advertise(w, "waiting") PROVE StaleIsAccounted'
  BY <1>19 DEF Advertise
<1>20. ASSUME NEW r \in Reissuers, Reissue(r) PROVE StaleIsAccounted'
  BY <1>20 DEF Reissue
<1>21. ASSUME NEW r \in Reissuers, Written(r) PROVE StaleIsAccounted'
  BY <1>21 DEF Written
<1>22. ASSUME NEW r \in Reissuers, NotifyReissued(r) PROVE StaleIsAccounted'
  BY <1>22 DEF NotifyReissued
<1>23. ASSUME NEW m \in Modes, ApplyRead(m) PROVE StaleIsAccounted'
  BY <1>23 DEF ApplyRead
<1>24. CASE ApplyStore \/ ApplyReaders \/ LoadCertificate
  BY <1>24 DEF ApplyStore, ApplyReaders, LoadCertificate
<1>25. CASE UNCHANGED vars
  BY <1>25 DEF vars
<1> QED BY <1>1, <1>2, <1>3, <1>4, <1>5, <1>6, <1>7, <1>8, <1>9, <1>10, <1>11, <1>12, <1>13, <1>14, <1>15, <1>16, <1>17, <1>18, <1>19, <1>20, <1>21, <1>22, <1>23, <1>24, <1>25
        DEF Next, CallerStep, WatcherStep, ReissuerStep

(* However reissues, rebinds, stops and starts fall together, a listener   *)
(* with an old certificate is about to be rebound.                         *)
THEOREM StaleListenerIsRebound == Spec => []StaleIsAccounted
<1>1. Init => ChannelInv /\ StaleIsAccounted
  BY NamesAssumption DEF Init, ChannelInv, StaleIsAccounted, Stale, Watchers
<1> QED BY <1>1, LockInit, LockStep, ChannelStep, StaleStep, PTL DEF Spec

-----------------------------------------------------------------------------
(* Several managers as one.                                                *)

(* Putting one piece before a path of one.                                 *)
LEMMA TwoPieces ==
    ASSUME NEW Pieces, NEW c \in Pieces, NEW p \in Seq(Pieces), Len(p) = 1
    PROVE  LET q == <<c>> \o p IN Len(q) = 2 /\ Head(q) = c /\ Tail(q) = p
<1> DEFINE h == <<c>>
           q == h \o p
<1>1. h \in Seq(Pieces) /\ Len(h) = 1 /\ h[1] = c
  OBVIOUS
<1> HIDE DEF h
<1>2. /\ q \in Seq(Pieces) /\ Len(q) = Len(h) + Len(p)
      /\ \A i \in 1 .. Len(h) + Len(p) : q[i] = IF i <= Len(h) THEN h[i] ELSE p[i - Len(h)]
  BY <1>1, ConcatProperties
<1> HIDE DEF q
<1>3. Len(q) = 2 /\ q[1] = c /\ q[2] = p[1]
  BY <1>1, <1>2
<1>4. q # << >>
  BY <1>2, <1>3, EmptySeq
<1>5. /\ Head(q) = q[1] /\ Tail(q) \in Seq(Pieces) /\ Len(Tail(q)) = Len(q) - 1
      /\ \A i \in 1 .. Len(Tail(q)) : Tail(q)[i] = q[i + 1]
  BY <1>2, <1>4, HeadTailProperties
<1>6. Len(Tail(q)) = 1 /\ \A i \in 1 .. 1 : Tail(q)[i] = p[i]
  BY <1>3, <1>5
<1>7. Tail(q) = p
  BY <1>5, <1>6, SeqEqual
<1> QED BY <1>3, <1>5, <1>7 DEF q, h

(* A path without a colon always does: qualifying it names its child.      *)
LEMMA PlainPathsAreOpened ==
    ASSUME NEW Pieces, PathOf \in [Children -> Seq(Pieces)], Children \subseteq Pieces,
           \A c \in Children : Len(PathOf[c]) = 1
    PROVE  ListedIsOpened
<1> SUFFICES ASSUME NEW c \in Children PROVE OpenedBy(qualify(c, PathOf[c])) = c
  BY DEF ListedIsOpened
<1> DEFINE q == <<c>> \o PathOf[c]
<1>1. c \in Pieces /\ PathOf[c] \in Seq(Pieces) /\ Len(PathOf[c]) = 1
  OBVIOUS
<1>2. Len(q) = 2 /\ Head(q) = c /\ Tail(q) = PathOf[c]
  BY <1>1, TwoPieces
<1>3. qualify(c, PathOf[c]) = q
  BY <1>1 DEF qualify
<1> HIDE DEF q
<1>4. Len(q) > 1
  BY <1>2
<1> QED BY <1>2, <1>3, <1>4, Zenon DEF OpenedBy

AWatch == [at : {"none", "registered", "relaying", "ended"},
          stop : BOOLEAN, relay : BOOLEAN, ch : BOOLEAN]

(* The types the argument needs, which hold until Close begins.            *)
MMOpen ==
    /\ devices \in [Children -> Nat]
    /\ telling \subseteq Children /\ news \subseteq Children
    /\ emitting \in [Children -> Seq(Callees)]
    /\ slots \in Seq(Callees)
    /\ watch \in [Callees -> AWatch]
    /\ look \in [Callees -> 0 .. Len(Order)]
    /\ seen \in [Callees -> [Children -> Nat]]
    /\ joined \in [Callees -> [Children -> Nat]]
    /\ closing = "open"

(* A watch is stopped by Close only, so until then every relay that runs   *)
(* is connected; and the word of a change is somewhere on its way.         *)
Reaches(w) == \E j \in DOMAIN slots : slots[j] = w
Promised(w, c) == \E j \in DOMAIN emitting[c] : emitting[c][j] = w
Told(w, i) ==
    \/ devices[Order[i]] \in {seen[w][Order[i]], joined[w][Order[i]]}
    \/ Order[i] \in telling \/ Order[i] \in news
    \/ Promised(w, Order[i])
    \/ watch[w].relay \/ watch[w].ch
    \/ (look[w] # 0 /\ look[w] <= i)

MMInv ==
    closing = "open" =>
        /\ MMOpen
        /\ \A w \in Callees :
              /\ ~watch[w].stop
              /\ watch[w].at = "relaying" =>
                    Reaches(w) /\ \A i \in DOMAIN Order : Told(w, i)

LEMMA OrderForms ==
    /\ Len(Order) \in Nat \ {0} /\ DOMAIN Order = 1 .. Len(Order)
    /\ \A i \in DOMAIN Order : Order[i] \in Children
<1>1. Order \in Seq(Children) /\ Order # << >>
  BY OrderOK
<1> QED BY <1>1, EmptySeq, LenProperties, ElementOfSeq

LEMMA MMInvInit == MMInit => MMInv
<1> SUFFICES ASSUME MMInit PROVE MMInv
  OBVIOUS
<1>1. << >> \in Seq(Callees)
  BY EmptySeq
<1>2. MMOpen
  BY <1>1, OrderForms DEF MMInit, MMOpen, AWatch
<1>3. \A w \in Callees : ~watch[w].stop /\ watch[w].at = "none"
  BY DEF MMInit
<1> QED BY <1>2, <1>3 DEF MMInv

LEMMA MMInvStep == ListedIsOpened /\ MMInv /\ [MMNext]_mmVars => MMInv'
<1> SUFFICES ASSUME ListedIsOpened, MMInv, [MMNext]_mmVars, closing' = "open" PROVE MMInv'
  BY DEF MMInv
<1> USE OrderForms
<1>0. closing = "open"
  BY DEF MMNext, OfChild, OfWatcher, Relay, Closer, Change, NotifyDeviceChange, Forward, Emit,
         StopForwarding, LookFirst, Register, ConnectRelay, PassOn, StopRelay, Wake, Look, CloseForward,
         TakeWatches, StopWatch, CloseManagers, mmVars
<1>a. /\ MMOpen
      /\ \A v \in Callees : ~watch[v].stop
      /\ \A v \in Callees : watch[v].at = "relaying" => Reaches(v)
      /\ \A v \in Callees, i \in DOMAIN Order : watch[v].at = "relaying" => Told(v, i)
  BY <1>0 DEF MMInv
<1> SUFFICES /\ MMOpen'
             /\ \A v \in Callees : ~watch'[v].stop
             /\ \A v \in Callees : watch'[v].at = "relaying" => Reaches(v)'
             /\ \A v \in Callees, i \in DOMAIN Order : watch'[v].at = "relaying" => Told(v, i)'
  BY DEF MMInv
<1> DEFINE Goal ==
      /\ MMOpen'
      /\ \A v \in Callees : ~watch'[v].stop
      /\ \A v \in Callees : watch'[v].at = "relaying" => Reaches(v)'
      /\ \A v \in Callees, i \in DOMAIN Order : watch'[v].at = "relaying" => Told(v, i)'
<1> USE <1>0, <1>a DEF MMOpen
<1>1. ASSUME NEW c \in Children, Change(c) PROVE Goal
  <2>2. MMOpen'
    BY <1>1 DEF Change
  <2>3. \A v \in Callees : ~watch'[v].stop /\ (watch'[v].at = "relaying" => Reaches(v)')
    BY <1>1 DEF Change, Reaches
  <2>4. ASSUME NEW v \in Callees, NEW i \in DOMAIN Order, watch'[v].at = "relaying" PROVE Told(v, i)'
    BY <1>1, <2>4 DEF Change, Told, Promised, Reaches
  <2> QED BY <2>2, <2>3, <2>4
<1>2. ASSUME NEW c \in Children, NotifyDeviceChange(c) PROVE Goal
  <2>2. MMOpen'
    BY <1>2 DEF NotifyDeviceChange
  <2>3. \A v \in Callees : ~watch'[v].stop /\ (watch'[v].at = "relaying" => Reaches(v)')
    BY <1>2 DEF NotifyDeviceChange, Reaches
  <2>4. ASSUME NEW v \in Callees, NEW i \in DOMAIN Order, watch'[v].at = "relaying" PROVE Told(v, i)'
    BY <1>2, <2>4 DEF NotifyDeviceChange, Told, Promised, Reaches
  <2> QED BY <2>2, <2>3, <2>4
<1>3. ASSUME NEW c \in Children, Forward(c) PROVE Goal
  <2>2. MMOpen'
    BY <1>3 DEF Forward
  <2>3. \A v \in Callees : ~watch'[v].stop /\ (watch'[v].at = "relaying" => Reaches(v)')
    BY <1>3 DEF Forward, Reaches
  <2>4. ASSUME NEW v \in Callees, NEW i \in DOMAIN Order, watch'[v].at = "relaying" PROVE Told(v, i)'
    BY <1>3, <2>4 DEF Forward, Told, Promised, Reaches
  <2> QED BY <2>2, <2>3, <2>4
<1>4. ASSUME NEW c \in Children, Emit(c) PROVE Goal
  <2>0. /\ emitting[c] \in Seq(Callees) /\ Head(emitting[c]) \in Callees
        /\ Tail(emitting[c]) \in Seq(Callees)
        /\ \A j \in DOMAIN emitting[c] :
              emitting[c][j] = Head(emitting[c]) \/ \E k \in DOMAIN Tail(emitting[c]) : Tail(emitting[c])[k] = emitting[c][j]
    <3>1. emitting[c] \in Seq(Callees) /\ emitting[c] # << >>
      BY <1>4 DEF Emit
    <3>2. /\ Head(emitting[c]) \in Callees /\ Tail(emitting[c]) \in Seq(Callees)
          /\ Len(Tail(emitting[c])) = Len(emitting[c]) - 1
          /\ \A k \in 1 .. Len(Tail(emitting[c])) : Tail(emitting[c])[k] = emitting[c][k + 1]
      BY <3>1, HeadTailProperties
    <3>3. ASSUME NEW j \in DOMAIN emitting[c], emitting[c][j] # Head(emitting[c])
          PROVE  \E k \in DOMAIN Tail(emitting[c]) : Tail(emitting[c])[k] = emitting[c][j]
      <4>1. j \in 1 .. Len(emitting[c]) /\ Len(emitting[c]) \in Nat /\ j # 1
        BY <3>1, <3>3, LenProperties
      <4>2. j - 1 \in 1 .. Len(Tail(emitting[c])) /\ DOMAIN Tail(emitting[c]) = 1 .. Len(Tail(emitting[c]))
        BY <3>2, <4>1, LenProperties
      <4>3. Tail(emitting[c])[j - 1] = emitting[c][(j - 1) + 1] /\ (j - 1) + 1 = j
        BY <3>2, <4>1, <4>2
      <4> QED BY <4>2, <4>3
    <3> QED BY <3>1, <3>2, <3>3
  <2> DEFINE w == Head(emitting[c])
  <2> DEFINE y == [watch[w] EXCEPT !.relay = TRUE]
  <2>a. y \in AWatch /\ ~y.stop /\ y.relay /\ y.at = watch[w].at /\ (y.ch <=> watch[w].ch)
    BY <1>4, <2>0 DEF Emit, AWatch
  <2>b. watch' = [watch EXCEPT ![w] = y]
    BY <1>4, <2>0, Zenon DEF Emit
  <2> HIDE DEF y
  <2>1. watch' \in [Callees -> AWatch] /\ \A v \in Callees : watch'[v] = IF v = w THEN y ELSE watch[v]
    BY <2>a, <2>b, <2>0
  <2>2. MMOpen'
    BY <1>4, <2>0, <2>a, <2>1 DEF Emit
  <2>3. \A v \in Callees : ~watch'[v].stop /\ (watch'[v].at = "relaying" => Reaches(v)')
    BY <1>4, <2>0, <2>a, <2>1 DEF Emit, Reaches
  <2>4. ASSUME NEW v \in Callees, NEW i \in DOMAIN Order, watch'[v].at = "relaying" PROVE Told(v, i)'
    <3>1. Told(v, i) /\ Order[i] \in Children
      BY <2>4, <2>1, <2>a
    <3>2. /\ \A d \in Children : emitting'[d] = IF d = c THEN Tail(emitting[c]) ELSE emitting[d]
          /\ UNCHANGED <<devices, telling, news, look, seen, joined>>
      BY <1>4 DEF Emit
    <3>3. ASSUME Promised(v, Order[i]) PROVE Promised(v, Order[i])' \/ v = w
      <4>1. PICK j \in DOMAIN emitting[Order[i]] : emitting[Order[i]][j] = v
        BY <3>3 DEF Promised
      <4>2. CASE Order[i] = c
        <5>1. emitting'[Order[i]] = Tail(emitting[c])
          BY <3>1, <3>2, <4>2
        <5>2. emitting[c][j] = v /\ j \in DOMAIN emitting[c]
          BY <4>1, <4>2
        <5>3. CASE \E k \in DOMAIN Tail(emitting[c]) : Tail(emitting[c])[k] = emitting[c][j]
          BY <5>1, <5>2, <5>3 DEF Promised
        <5> QED BY <2>0, <5>2, <5>3
      <4>3. CASE Order[i] # c
        BY <3>1, <3>2, <4>1, <4>3 DEF Promised
      <4> QED BY <4>2, <4>3
    <3>4. v = w => watch'[v].relay
      BY <2>1, <2>a
    <3>5. (watch[v].relay => watch'[v].relay) /\ (watch[v].ch => watch'[v].ch)
      BY <2>1, <2>a
    <3> QED BY <3>1, <3>2, <3>3, <3>4, <3>5 DEF Told
  <2> QED BY <2>2, <2>3, <2>4
<1>5. ASSUME NEW c \in Children, StopForwarding(c) PROVE Goal
  BY <1>5 DEF StopForwarding
<1>6. ASSUME NEW w \in Callees, Register(w) PROVE Goal
  <2> DEFINE y == [watch[w] EXCEPT !.at = "registered"]
  <2>a. y \in AWatch /\ ~y.stop /\ y.at = "registered"
    BY <1>6 DEF Register, AWatch
  <2>b. watch' = [watch EXCEPT ![w] = y]
    BY <1>6, Zenon DEF Register
  <2> HIDE DEF y
  <2>1. watch' \in [Callees -> AWatch] /\ \A v \in Callees : watch'[v] = IF v = w THEN y ELSE watch[v]
    BY <2>a, <2>b
  <2>2. MMOpen'
    BY <1>6, <2>a, <2>1 DEF Register
  <2>3. \A v \in Callees : ~watch'[v].stop /\ (watch'[v].at = "relaying" => Reaches(v)')
    BY <1>6, <2>a, <2>1 DEF Register, Reaches
  <2>4. ASSUME NEW v \in Callees, NEW i \in DOMAIN Order, watch'[v].at = "relaying" PROVE Told(v, i)'
    BY <1>6, <2>4, <2>a, <2>1 DEF Register, Told, Promised, Reaches
  <2> QED BY <2>2, <2>3, <2>4
<1>7. ASSUME NEW w \in Callees, ConnectRelay(w) PROVE Goal
  <2>0. /\ slots' \in Seq(Callees)
        /\ \E j \in DOMAIN slots' : slots'[j] = w
        /\ \A j \in DOMAIN slots : j \in DOMAIN slots' /\ slots'[j] = slots[j]
        <3>1. slots \in Seq(Callees) /\ slots' = Append(slots, w)
      BY <1>7 DEF ConnectRelay
    <3>2. Len(slots) \in Nat /\ DOMAIN slots = 1 .. Len(slots)
      BY <3>1, LenProperties
    <3>3. /\ slots' \in Seq(Callees) /\ Len(slots') = Len(slots) + 1 /\ slots'[Len(slots) + 1] = w
          /\ \A j \in 1 .. Len(slots) : slots'[j] = slots[j]
      BY <3>1, AppendProperties
    <3>4. DOMAIN slots' = 1 .. Len(slots')
      BY <3>3, LenProperties
    <3>5. Len(slots) + 1 \in DOMAIN slots' /\ DOMAIN slots \subseteq DOMAIN slots'
      BY <3>2, <3>3, <3>4
    <3> QED BY <3>2, <3>3, <3>5
  <2> DEFINE y == [watch[w] EXCEPT !.at = "relaying"]
  <2>a. y \in AWatch /\ ~y.stop
    BY <1>7 DEF ConnectRelay, AWatch
  <2>b. watch' = [watch EXCEPT ![w] = y]
    BY <1>7 DEF ConnectRelay
  <2> HIDE DEF y
  <2>1. watch' \in [Callees -> AWatch] /\ \A v \in Callees : watch'[v] = IF v = w THEN y ELSE watch[v]
    BY <2>a, <2>b
  <2>2. MMOpen'
    BY <1>7, <2>0, <2>a, <2>1 DEF ConnectRelay
  <2>3. \A v \in Callees : ~watch'[v].stop /\ (watch'[v].at = "relaying" => Reaches(v)')
    BY <1>7, <2>0, <2>a, <2>1 DEF ConnectRelay, Reaches
  <2>4. ASSUME NEW v \in Callees, NEW i \in DOMAIN Order, watch'[v].at = "relaying" PROVE Told(v, i)'
    <3>1. CASE v = w
      BY <1>7, <3>1 DEF ConnectRelay, Told
    <3>2. CASE v # w
      BY <1>7, <2>4, <2>1, <3>2 DEF ConnectRelay, Told, Promised
    <3> QED BY <3>1, <3>2
  <2> QED BY <2>2, <2>3, <2>4
<1>8. ASSUME NEW w \in Callees, PassOn(w) PROVE Goal
  <2> DEFINE y == [watch[w] EXCEPT !.relay = FALSE, !.ch = TRUE]
  <2>a. y \in AWatch /\ ~y.stop /\ y.ch /\ y.at = watch[w].at
    BY <1>8 DEF PassOn, AWatch
  <2>b. watch' = [watch EXCEPT ![w] = y]
    BY <1>8, Zenon DEF PassOn
  <2> HIDE DEF y
  <2>1. watch' \in [Callees -> AWatch] /\ \A v \in Callees : watch'[v] = IF v = w THEN y ELSE watch[v]
    BY <2>a, <2>b
  <2>2. MMOpen'
    BY <1>8, <2>a, <2>1 DEF PassOn
  <2>3. \A v \in Callees : ~watch'[v].stop /\ (watch'[v].at = "relaying" => Reaches(v)')
    BY <1>8, <2>a, <2>1 DEF PassOn, Reaches
  <2>4. ASSUME NEW v \in Callees, NEW i \in DOMAIN Order, watch'[v].at = "relaying" PROVE Told(v, i)'
    BY <1>8, <2>4, <2>a, <2>1 DEF PassOn, Told, Promised, Reaches
  <2> QED BY <2>2, <2>3, <2>4
<1>9. ASSUME NEW w \in Callees, StopRelay(w) PROVE Goal
  BY <1>9 DEF StopRelay
<1>10. ASSUME NEW w \in Callees, Wake(w) PROVE Goal
  <2> DEFINE y == [watch[w] EXCEPT !.ch = FALSE]
  <2>a. y \in AWatch /\ ~y.stop /\ y.at = watch[w].at
    BY <1>10 DEF Wake, AWatch
  <2>b. watch' = [watch EXCEPT ![w] = y]
    BY <1>10, Zenon DEF Wake
  <2> HIDE DEF y
  <2>1. watch' \in [Callees -> AWatch] /\ \A v \in Callees : watch'[v] = IF v = w THEN y ELSE watch[v]
    BY <2>a, <2>b
  <2>2. MMOpen'
    BY <1>10, <2>a, <2>1 DEF Wake
  <2>3. \A v \in Callees : ~watch'[v].stop /\ (watch'[v].at = "relaying" => Reaches(v)')
    BY <1>10, <2>a, <2>1 DEF Wake, Reaches
  <2>4. ASSUME NEW v \in Callees, NEW i \in DOMAIN Order, watch'[v].at = "relaying" PROVE Told(v, i)'
    <3>1. CASE v = w
      BY <1>10, <3>1 DEF Wake, Told
    <3>2. CASE v # w
      BY <1>10, <2>4, <2>1, <3>2 DEF Wake, Told, Promised
    <3> QED BY <3>1, <3>2
  <2> QED BY <2>2, <2>3, <2>4
<1>11. ASSUME NEW w \in Callees, Look(w) PROVE Goal
  <2> DEFINE c == Order[look[w]]
  <2>1. look[w] \in DOMAIN Order /\ c \in Children /\ look[w] \in Nat
    BY <1>11 DEF Look
  <2>2. OpenedBy(qualify(c, PathOf[c])) = c
    BY <2>1 DEF ListedIsOpened
  <2>3. /\ seen' = [seen EXCEPT ![w][c] = devices[c]]
        /\ look' = [look EXCEPT ![w] = IF look[w] = Len(Order) THEN 0 ELSE look[w] + 1]
        /\ UNCHANGED <<devices, telling, news, emitting, slots, watch, joined, closing>>
    BY <1>11, <2>1, <2>2 DEF Look
  <2> HIDE DEF c
  <2>4. /\ seen' \in [Callees -> [Children -> Nat]]
        /\ \A v \in Callees, d \in Children :
              seen'[v][d] = IF v = w /\ d = c THEN devices[c] ELSE seen[v][d]
    BY <2>1, <2>3
  <2>5. MMOpen'
    BY <2>1, <2>3, <2>4
  <2>6. \A v \in Callees : ~watch'[v].stop /\ (watch'[v].at = "relaying" => Reaches(v)')
    BY <2>3 DEF Reaches
  <2>7. ASSUME NEW v \in Callees, NEW i \in DOMAIN Order, watch'[v].at = "relaying" PROVE Told(v, i)'
    <3>1. Told(v, i) /\ Order[i] \in Children /\ i \in Nat
      BY <2>3, <2>7
    <3>2. ASSUME look[v] # 0 /\ look[v] <= i PROVE Told(v, i)'
      <4>1. CASE v = w /\ i = look[w]
        BY <2>3, <2>4, <3>1, <4>1 DEF Told, c
      <4>2. CASE v = w /\ i # look[w]
        <5>1. look[w] < i /\ i <= Len(Order)
          BY <2>1, <3>1, <3>2, <4>2
        <5>2. look'[w] = look[w] + 1
          BY <2>1, <2>3, <5>1
        <5> QED BY <2>1, <3>1, <4>2, <5>1, <5>2 DEF Told
      <4>3. CASE v # w
        BY <2>3, <3>2, <4>3 DEF Told
      <4> QED BY <4>1, <4>2, <4>3
    <3>3. CASE ~(look[v] # 0 /\ look[v] <= i)
      BY <2>3, <2>4, <3>1, <3>3 DEF Told, Promised
    <3> QED BY <3>2, <3>3
  <2> QED BY <2>5, <2>6, <2>7
<1>12. ASSUME Closer PROVE Goal
  BY <1>12 DEF Closer, CloseForward, TakeWatches, StopWatch, CloseManagers
<1>13. ASSUME NEW w \in Callees, LookFirst(w) PROVE Goal
  <2>1. look' \in [Callees -> 0 .. Len(Order)] /\ \A v \in Callees : v # w => look'[v] = look[v]
    BY <1>13 DEF LookFirst
  <2>2. watch[w].at = "none" /\ UNCHANGED <<devices, telling, news, emitting, slots, watch, seen, joined, closing>>
    BY <1>13 DEF LookFirst
  <2>3. \A v \in Callees, i \in DOMAIN Order : watch'[v].at = "relaying" => v # w /\ Told(v, i)
    BY <2>2
  <2> QED BY <2>1, <2>2, <2>3 DEF Told, Promised, Reaches
<1>14. ASSUME UNCHANGED mmVars PROVE Goal
  BY <1>14 DEF mmVars, Reaches, Told, Promised
<1> HIDE DEF Goal
<1>15. Goal
  BY <1>1, <1>2, <1>3, <1>4, <1>5, <1>6, <1>7, <1>8, <1>9, <1>10, <1>11, <1>12, <1>13, <1>14
     DEF MMNext, OfChild, OfWatcher, Relay
<1> QED BY <1>15 DEF Goal

(* However a change, an emission, a relay being connected and a look       *)
(* interleave, and whatever a full channel drops, a watcher that has not   *)
(* listed a child since it changed will be woken, if its relay was         *)
(* connected when that happened.                                           *)
THEOREM ChangeReachesWatcher == ASSUME ListedIsOpened PROVE MMSpec => []NobodyUnwoken
<1>1. MMInv => NobodyUnwoken
  BY OrderForms DEF MMInv, MMOpen, Told, Promised, NobodyUnwoken
<1>2. MMInv /\ [MMNext]_mmVars => MMInv'
  BY MMInvStep
<1> QED BY <1>1, <1>2, MMInvInit, PTL DEF MMSpec

=============================================================================
