------------------------------- MODULE Agent -------------------------------
(* The agent's lifecycle, the listener it serves on and the watch on its   *)
(* certificate: agent/lifecycle.go, agent/agent.go, agent/settings.go,     *)
(* agent/serverplugin/plugin.go, server/listener/server.go and             *)
(* secure/tls/manager.go.                                                  *)
(*                                                                         *)
(* Goroutines of the program:                                              *)
(*  - a caller (the tray, the console, main) that starts and stops;        *)
(*  - the watcher each run starts, which rebinds the listener when the     *)
(*    certificate is reissued, and is numbered by the run;                 *)
(*  - whoever reissues: an operator, or the manager's network loop;        *)
(*  - a caller of ApplyPreferences.                                        *)
(* The lifecycle lock covers Start and Stop; nothing covers a rebind, a    *)
(* reissue, an apply or an announcement.                                   *)
EXTENDS Integers, FiniteSets

CONSTANTS Callers,     \* goroutines that start and stop the agent
          Modes,       \* the access modes of a reader
          DefaultMode, \* the mode a supervisor is built with
          MaxRuns,     \* bound: starts that get as far as opening readers
          MaxIssues,   \* bound: certificates written
          None

States == {"stopped", "starting", "running", "stopping"}

ASSUME BoundsAssumption == MaxRuns \in Nat \ {0} /\ MaxIssues \in Nat
ASSUME NamesAssumption ==
    /\ DefaultMode \in Modes
    /\ None \notin Callers \cup Modes \cup States
    /\ Callers \cap Nat = {}

Watchers == 1..MaxRuns
Reissuers == {"operator", "loop"}
Components == {"watch", "endpoint", "listener"}
Broken == -1
Unread == -2

(* Mutant: the listener goes on before the watch. *)
ListenerFirst == [watch |-> 3, endpoint |-> 2, listener |-> 1]

(* The order the server plugin registers its components in, and so the     *)
(* order they start in; they stop in reverse.                              *)
Place == [watch |-> 1, endpoint |-> 2, listener |-> 3]

VARIABLES state,     \* what State() answers
          holder,    \* the caller in the lifecycle lock, or None
          run,       \* starts so far: the number of the supervisor in use
          up,        \* the components started and not stopped
          readers,   \* the supervisor in use, 0 for none
          cancelled, \* the runs whose context is cancelled
          pc,        \* where each caller and watcher is
          saying,    \* the state a caller has yet to announce
          bound,     \* the listener holds the port (httpServer is not nil)
          served,    \* the certificate it serves
          advert,    \* an mDNS registration the listener can withdraw
          disk,      \* the certificate on disk, counted from the first
          issuing,   \* where each reissuer is
          channel,   \* networkChangeChan: none, empty or token
          loop,      \* the network loop: none, alive or ended
          pref,      \* the reader mode the agent is set to
          mode,      \* the mode of the supervisor in use
          adopted,   \* the mode a start has read and not handed over
          apply,     \* an ApplyPreferences under way
          announced  \* the state last announced

lifeVars == <<state, holder, run, up, readers, cancelled>>
portVars == <<bound, served, advert>>
certVars == <<disk, issuing, channel, loop>>
setVars == <<pref, mode, adopted, apply>>
saidVars == <<saying, announced>>
vars == <<lifeVars, pc, portVars, certVars, setVars, saidVars>>

Idle == [at |-> "idle", seen |-> FALSE, differs |-> FALSE, to |-> None]

Init ==
    /\ state = "stopped" /\ holder = None /\ run = 0 /\ up = {} /\ readers = 0 /\ cancelled = {}
    /\ pc = [p \in Callers \cup Watchers |-> IF p \in Callers THEN "idle" ELSE "none"]
    /\ bound = FALSE /\ served = Unread /\ advert = FALSE
    /\ disk = 0 /\ issuing = [r \in Reissuers |-> "idle"] /\ channel = "none" /\ loop = "none"
    /\ pref = DefaultMode /\ mode = None /\ adopted = None /\ apply = Idle
    /\ saying = [c \in Callers |-> None]
    /\ announced = "stopped"

Go(p, to) == pc' = [pc EXCEPT ![p] = to]

---------------------------------------------------------------------------
(* The listener.                                                           *)

(* Server.Start as far as binding. The port may be another program's, and  *)
(* a server that already serves refuses.                                   *)
Bind(p, failed) ==
    \/ /\ ~bound
       /\ bound' = TRUE
       /\ served' = Unread
       /\ Go(p, "advertise")
       /\ UNCHANGED advert
    \/ /\ Go(p, failed)
       /\ UNCHANGED portVars

(* The goroutine that serves reads the certificate only now: from files    *)
(* that may be half written.                                               *)
LoadCertificate ==
    /\ bound /\ served = Unread
    /\ served' = IF \E r \in Reissuers : issuing[r] = "writing" THEN Broken ELSE disk
    /\ UNCHANGED <<lifeVars, pc, bound, advert, certVars, setVars, saidVars>>

(* startMDNS, which registers outside the lock. A server stopped meanwhile *)
(* withdraws the registration; one stopped and started again takes it,     *)
(* over any it has. It registers nothing when it finds the server stopped  *)
(* at once, or cannot.                                                     *)
Advertise(p, done) ==
    /\ pc[p] = "advertise"
    /\ advert' = bound \/ UNCHANGED advert
    /\ Go(p, done)
    /\ UNCHANGED <<lifeVars, bound, served, certVars, setVars, saidVars>>

(* Server.Stop. *)
CloseListener ==
    /\ bound' = FALSE
    /\ served' = Unread
    /\ advert' = FALSE

---------------------------------------------------------------------------
(* Start and Stop.                                                         *)

(* A start that finds the agent stopped, its plugins active, opens a       *)
(* supervisor. One that finds it otherwise changes nothing.                *)
Start(c) ==
    /\ holder = None /\ pc[c] = "idle"
    /\ state = "stopped"
    /\ run < MaxRuns
    /\ holder' = c
    /\ state' = "starting"
    /\ run' = run + 1
    /\ Go(c, "store")
    /\ UNCHANGED <<up, readers, cancelled, portVars, certVars, setVars, saidVars>>

(* The supervisor is reachable before it has been given its mode. *)
StoreReaders(c) ==
    /\ pc[c] = "store"
    /\ readers' = run
    /\ mode' = DefaultMode
    /\ Go(c, "adopt")
    /\ UNCHANGED <<state, holder, run, up, cancelled, portVars, certVars, pref, adopted, apply, saidVars>>

(* adoptReaderSettings: read under the settings lock, handed over outside. *)
Adopt(c) ==
    /\ pc[c] = "adopt"
    /\ adopted' = pref
    /\ Go(c, "hand")
    /\ UNCHANGED <<lifeVars, portVars, certVars, pref, mode, apply, saidVars>>

Hand(c) ==
    /\ pc[c] = "hand"
    /\ mode' = adopted
    /\ adopted' = None
    /\ Go(c, "open")
    /\ UNCHANGED <<lifeVars, portVars, certVars, pref, apply, saidVars>>

(* Supervisor.Start, which may fail. *)
OpenReaders(c) ==
    /\ pc[c] = "open"
    /\ Go(c, "components") \/ Go(c, "close")
    /\ UNCHANGED <<lifeVars, portVars, certVars, setVars, saidVars>>

Due(x) == x \in Components \ up /\ \A y \in Components \ up : Place[x] <= Place[y]

(* WatchReissues: a channel the manager already has is handed out as it    *)
(* is; a new one comes with a network loop.                                *)
StartWatch(c) ==
    /\ pc[c] = "components" /\ Due("watch")
    /\ up' = up \cup {"watch"}
    /\ pc' = [pc EXCEPT ![run] = "waiting"]
    /\ IF channel = "none" THEN channel' = "empty" /\ loop' = "alive" ELSE UNCHANGED <<channel, loop>>
    /\ UNCHANGED <<state, holder, run, readers, cancelled, portVars, disk, issuing, setVars, saidVars>>

StartEndpoint(c) ==
    /\ pc[c] = "components" /\ Due("endpoint")
    /\ \/ up' = up \cup {"endpoint"} /\ UNCHANGED pc
       \/ Go(c, "unwind") /\ UNCHANGED up
    /\ UNCHANGED <<state, holder, run, readers, cancelled, portVars, certVars, setVars, saidVars>>

StartListener(c) ==
    /\ pc[c] = "components" /\ Due("listener")
    /\ Bind(c, "unwind")
    /\ up' = IF pc'[c] = "advertise" THEN up \cup {"listener"} ELSE up
    /\ UNCHANGED <<state, holder, run, readers, cancelled, certVars, setVars, saidVars>>

(* The lock is let go before the state is announced. *)
Commit(c) ==
    /\ pc[c] = "commit"
    /\ state' = "running"
    /\ holder' = None
    /\ saying' = [saying EXCEPT ![c] = "running"]
    /\ Go(c, "say")
    /\ UNCHANGED <<run, up, readers, cancelled, portVars, certVars, setVars, announced>>

Stop(c) ==
    /\ holder = None /\ pc[c] = "idle"
    /\ state = "running"
    /\ holder' = c
    /\ state' = "stopping"
    /\ cancelled' = cancelled \cup {run}
    /\ Go(c, "unwind")
    /\ UNCHANGED <<run, up, readers, portVars, certVars, setVars, saidVars>>

Last(x) == x \in up /\ \A y \in up : Place[y] <= Place[x]

(* Mutant: the loop over the components ends before the first. *)
UnwoundButOne(c) == pc[c] = "close" \/ (pc[c] = "unwind" /\ up \subseteq {"watch"})

(* stopComponentRange, one component at a time, the last started first.    *)
StopComponent(c) ==
    /\ pc[c] = "unwind"
    /\ \E x \in up :
        /\ Last(x)
        /\ up' = up \ {x}
        /\ IF x = "listener" THEN CloseListener ELSE UNCHANGED portVars
        /\ loop' = IF x = "watch" /\ loop = "alive" THEN "ended" ELSE loop
    /\ UNCHANGED <<state, holder, run, readers, cancelled, pc, disk, issuing, channel, setVars, saidVars>>

Unwound(c) == pc[c] = "close" \/ (pc[c] = "unwind" /\ up = {})

(* stopLocked, and the end of a Stop or of a Start that failed. What an     *)
(* apply still says to the supervisor let go changes nothing.              *)
CloseReaders(c) ==
    /\ Unwound(c)
    /\ readers' = 0
    /\ mode' = None
    /\ apply' = [apply EXCEPT !.seen = FALSE]
    /\ cancelled' = cancelled \cup {run}
    /\ state' = "stopped"
    /\ holder' = None
    /\ saying' = [saying EXCEPT ![c] = "stopped"]
    /\ Go(c, "say")
    /\ UNCHANGED <<run, up, portVars, certVars, pref, adopted, announced>>

(* fireState, with the state the caller set. *)
Say(c) ==
    /\ pc[c] = "say"
    /\ announced' = saying[c]
    /\ saying' = [saying EXCEPT ![c] = None]
    /\ Go(c, "idle")
    /\ UNCHANGED <<lifeVars, portVars, certVars, setVars>>

---------------------------------------------------------------------------
(* The certificate watch.                                                  *)

(* The watcher's select: the reissue it was told of, or the end of its run *)
(* when there is no telling which is first.                                *)
TakeReissue(w) ==
    /\ pc[w] = "waiting" /\ channel = "token"
    /\ channel' = "empty"
    /\ Go(w, "rebind")
    /\ UNCHANGED <<lifeVars, portVars, disk, issuing, loop, setVars, saidVars>>

EndWatcher(w) ==
    /\ pc[w] = "waiting" /\ w \in cancelled
    /\ Go(w, "ended")
    /\ UNCHANGED <<lifeVars, portVars, certVars, setVars, saidVars>>

(* Mutant: the listener is only asked to start again. *)
RebindWithoutStop(w) ==
    /\ pc[w] = "rebind"
    /\ Go(w, "pause")
    /\ UNCHANGED <<lifeVars, portVars, certVars, setVars, saidVars>>

(* Rebind: the listener is stopped, the port left a moment to be released, *)
(* and the listener started again, whatever the agent did in between.      *)
RebindStop(w) ==
    /\ pc[w] = "rebind"
    /\ CloseListener
    /\ Go(w, "pause")
    /\ UNCHANGED <<lifeVars, certVars, setVars, saidVars>>

RebindStart(w) ==
    /\ pc[w] = "pause"
    /\ Bind(w, "waiting")
    /\ UNCHANGED <<lifeVars, certVars, setVars, saidVars>>

---------------------------------------------------------------------------
(* Reissuing.                                                              *)

(* RegenerateCertificates or InstallCA, by an operator or by the loop that *)
(* found the addresses changed.                                            *)
Reissue(r) ==
    /\ issuing[r] = "idle"
    /\ r = "loop" => loop = "alive"
    /\ disk + Cardinality({q \in Reissuers : issuing[q] = "writing"}) < MaxIssues
    /\ issuing' = [issuing EXCEPT ![r] = "writing"]
    /\ UNCHANGED <<lifeVars, pc, portVars, disk, channel, loop, setVars, saidVars>>

Written(r) ==
    /\ issuing[r] = "writing"
    /\ issuing' = [issuing EXCEPT ![r] = "written"]
    /\ disk' = disk + 1
    /\ UNCHANGED <<lifeVars, pc, portVars, channel, loop, setVars, saidVars>>

(* notifyReissued: one pending reissue says as much as two. *)
NotifyReissued(r) ==
    /\ issuing[r] = "written"
    /\ issuing' = [issuing EXCEPT ![r] = "idle"]
    /\ channel' = IF channel = "none" THEN "none" ELSE "token"
    /\ UNCHANGED <<lifeVars, pc, portVars, disk, loop, setVars, saidVars>>

---------------------------------------------------------------------------
(* ApplyPreferences, of the mode alone: the supervisor, and the mode it is *)
(* in, are read first, the settings are stored, and that supervisor is     *)
(* told only of a difference.                                              *)
ApplyRead(m) ==
    /\ apply.at = "idle"
    /\ apply' = [at |-> "read", seen |-> readers # 0, to |-> m,
                 differs |-> m # IF readers = 0 THEN pref ELSE mode]
    /\ UNCHANGED <<lifeVars, pc, portVars, certVars, pref, mode, adopted, saidVars>>

ApplyStore ==
    /\ apply.at = "read"
    /\ pref' = apply.to
    /\ apply' = [apply EXCEPT !.at = "stored"]
    /\ UNCHANGED <<lifeVars, pc, portVars, certVars, mode, adopted, saidVars>>

ApplyReaders ==
    /\ apply.at = "stored"
    /\ mode' = IF apply.seen /\ apply.differs THEN apply.to ELSE mode
    /\ apply' = Idle
    /\ UNCHANGED <<lifeVars, pc, portVars, certVars, pref, adopted, saidVars>>

---------------------------------------------------------------------------
CallerStep(c) ==
    \/ StoreReaders(c) \/ Adopt(c) \/ Hand(c) \/ OpenReaders(c)
    \/ StartWatch(c) \/ StartEndpoint(c) \/ StartListener(c)
    \/ Advertise(c, "commit") \/ Commit(c)
    \/ StopComponent(c) \/ CloseReaders(c) \/ Say(c)

WatcherStep(w) ==
    \/ TakeReissue(w) \/ EndWatcher(w) \/ RebindStop(w) \/ RebindStart(w)
    \/ Advertise(w, "waiting")

ReissuerStep(r) == Written(r) \/ NotifyReissued(r)

Next ==
    \/ \E c \in Callers : Start(c) \/ Stop(c) \/ CallerStep(c)
    \/ \E w \in Watchers : WatcherStep(w)
    \/ \E r \in Reissuers : Reissue(r) \/ ReissuerStep(r)
    \/ \E m \in Modes : ApplyRead(m)
    \/ ApplyStore \/ ApplyReaders
    \/ LoadCertificate

Spec == Init /\ [][Next]_vars

(* A goroutine that can go on does; nobody has to start, stop, reissue or  *)
(* change a setting.                                                       *)
FairSpec ==
    /\ Spec
    /\ \A c \in Callers : WF_vars(CallerStep(c))
    /\ \A w \in Watchers : WF_vars(WatcherStep(w))
    /\ \A r \in Reissuers : WF_vars(ReissuerStep(r))
    /\ WF_vars(LoadCertificate)

---------------------------------------------------------------------------
CallerPlaces == {"idle", "store", "adopt", "hand", "open", "components", "advertise",
                 "commit", "unwind", "close", "say"}
WatcherPlaces == {"none", "waiting", "rebind", "pause", "advertise", "ended"}

(* The type invariant. *)
TypeOK ==
    /\ state \in States /\ holder \in Callers \cup {None} /\ run \in 0..MaxRuns
    /\ up \subseteq Components /\ readers \in {0, run} /\ cancelled \subseteq 1..run
    /\ pc \in [Callers \cup Watchers -> CallerPlaces \cup WatcherPlaces]
    /\ bound \in BOOLEAN /\ served \in {Broken, Unread} \cup 0..MaxIssues
    /\ advert \in BOOLEAN
    /\ disk \in 0..MaxIssues
    /\ issuing \in [Reissuers -> {"idle", "writing", "written"}]
    /\ channel \in {"none", "empty", "token"} /\ loop \in {"none", "alive", "ended"}
    /\ pref \in Modes /\ mode \in Modes \cup {None} /\ adopted \in Modes \cup {None}
    /\ apply \in [at : {"idle", "read", "stored"}, seen : BOOLEAN, differs : BOOLEAN,
                  to : Modes \cup {None}]
    /\ saying \in [Callers -> States \cup {None}] /\ announced \in States

(* An agent that is stopped left nothing behind, whichever step of its     *)
(* start failed: no component, no supervisor, and no run whose watcher is  *)
(* not told to end (agent/lifecycle.go, Start and startComponents).        *)
StoppedIsUnwound ==
    state = "stopped" => up = {} /\ readers = 0 /\ cancelled = 1..run

Stale == bound /\ served # Unread /\ served # disk

(* A listener that serves another certificate than the one on disk is      *)
(* about to be rebound: the reissue is being written or notified, or its   *)
(* token is in the channel, or a watcher has taken the token and is about  *)
(* to stop the listener (secure/tls/manager.go, notifyReissued, and        *)
(* serverplugin's Rebind).                                                 *)
StaleIsAccounted ==
    Stale => \/ \E r \in Reissuers : issuing[r] # "idle"
             \/ channel = "token"
             \/ \E w \in Watchers : pc[w] = "rebind"

(* While the agent runs a reissue reaches the listener in the end, however *)
(* many watchers of earlier runs are left to compete for it.               *)
NewestServed == []<>~(state = "running" /\ Stale)

=============================================================================
