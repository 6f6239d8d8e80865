----------------------------- MODULE Supervisor -----------------------------
(***************************************************************************)
(* The supervisor of the readers, nfc/supervisor.go: it opens a reader for *)
(* every device the manager offers, drops the ones that went, and passes   *)
(* its policy (here the mode) to them.  Start reconciles once, then the    *)
(* watcher does whenever the manager says its devices changed; the agent's *)
(* lifecycle lock keeps Stop out of Start, but nothing keeps it, or        *)
(* SetMode, out of the watcher's reconcile.                                *)
(*                                                                         *)
(* A step is one critical section of s.mu, or one call to a reader.        *)
(***************************************************************************)
EXTENDS FiniteSets

CONSTANTS
    Devices,    \* the paths the manager may offer
    Readers,    \* deviceReader objects the run can make
    Modes,
    Setters,    \* calls of SetMode
    None

ASSUME NoneApart == None \notin Devices \cup Readers \cup Modes

VARIABLES
    offered,    \* the paths the manager lists now
    changed,    \* its notification is pending (a channel of one)
    unheard,    \* history: what changed since the last list with nobody told
    phase,      \* "new", "started", "done": s.started and s.done
    readers,    \* s.readers: device -> reader
    mode,       \* s.mode
    rmode,      \* rmode[r]: the mode reader r runs under
    lane,       \* lane[r]: the device it was made for, None if not made
    held,       \* the readers that have their device open
    working,    \* the readers whose worker runs
    stopChan,   \* the readers whose stop channel is closed
    polling,    \* the readers that poll, or whose last poll is still under way
    busy,       \* those told to stop while transfers run, the last of which may never end
    shut,       \* history: the readers whose Close has returned
    late,       \* history: those that a poll gave a device after that
    at,         \* where reconcile is, "idle" when nobody runs it
    wanted,     \* its list of devices
    drops,      \* the readers it has still to stop
    opens,      \* the devices it has still to open
    snap,       \* the policy it read, None when it has done with it
    cur,        \* the reader it is opening, None when it has done with it
    missed,     \* the devices the last reconcile could not list or open
    watching,   \* the watcher goroutine runs
    publishers, \* the readers a publish goroutine runs for
    stop,       \* "no", "took", "ending", "returned"
    taken,      \* the readers Stop has still to stop
    todo,       \* todo[s]: the readers a setter has still to tell
    smode       \* smode[s]: the mode it tells them, None before the call

envVars == <<offered, changed, unheard>>
pollVars == <<polling, busy>>
readerVars == <<rmode, lane, held, working, stopChan, pollVars, shut, late>>
reconVars == <<at, wanted, drops, opens, snap, cur, missed>>
runVars == <<watching, publishers>>
stopVars == <<stop, taken>>
setVars == <<todo, smode>>
vars == <<envVars, phase, readers, mode, readerVars, reconVars, runVars, stopVars, setVars>>

TypeOK ==
    /\ offered \subseteq Devices
    /\ changed \in BOOLEAN
    /\ unheard \subseteq Devices
    /\ phase \in {"new", "started", "done"}
    /\ readers \in [Devices -> Readers \cup {None}]
    /\ mode \in Modes
    /\ rmode \in [Readers -> Modes]
    /\ lane \in [Readers -> Devices \cup {None}]
    /\ held \subseteq Readers
    /\ working \subseteq Readers
    /\ stopChan \subseteq Readers
    /\ polling \subseteq Readers
    /\ busy \subseteq Readers
    /\ shut \subseteq Readers
    /\ late \subseteq Readers
    /\ at \in {"idle", "list", "compare", "drop", "open", "insert", "begin", "publish", "watch"}
    /\ wanted \subseteq Devices
    /\ drops \subseteq Readers
    /\ opens \subseteq Devices
    /\ snap \in Modes \cup {None}
    /\ at \in {"drop", "open", "insert", "begin", "publish"} => snap \in Modes
    /\ cur \in Readers \cup {None}
    /\ missed \subseteq Devices
    /\ watching \in BOOLEAN
    /\ publishers \subseteq Readers
    /\ stop \in {"no", "took", "ending", "returned"}
    /\ taken \subseteq Readers
    /\ todo \in [Setters -> SUBSET Readers]
    /\ smode \in [Setters -> Modes \cup {None}]
    /\ at \in {"insert", "begin", "publish"} => cur \in Readers /\ lane[cur] \in Devices

Init ==
    /\ offered \in SUBSET Devices
    /\ changed = FALSE /\ unheard = {}
    /\ phase = "new"
    /\ readers = [d \in Devices |-> None]
    /\ mode \in Modes
    /\ rmode = [r \in Readers |-> mode]
    /\ lane = [r \in Readers |-> None]
    /\ held = {} /\ working = {} /\ stopChan = {}
    /\ polling = {} /\ busy = {} /\ shut = {} /\ late = {}
    /\ at = "idle"
    /\ wanted = {} /\ drops = {} /\ opens = {} /\ missed = {}
    /\ snap = None
    /\ cur = None
    /\ watching = FALSE
    /\ publishers = {}
    /\ stop = "no" /\ taken = {}
    /\ todo = [s \in Setters |-> {}]
    /\ smode = [s \in Setters |-> None]

Operated == {readers[d] : d \in Devices} \ {None}
Stopped == stop \in {"ending", "returned"}      \* s.stopped is closed

-----------------------------------------------------------------------------
(* The manager's devices come and go.  It tells whoever subscribed, or has *)
(* told them already; before watchDevices subscribes a manager may keep    *)
(* the word for it (PC/SC) or have nobody to tell (a MultiManager).        *)
Replug ==
    /\ offered' \in SUBSET Devices
    /\ offered' # offered
    /\ \/ changed' = TRUE /\ UNCHANGED unheard
       \/ /\ ~watching
          /\ unheard' = unheard \cup (offered \ offered') \cup (offered' \ offered)
          /\ UNCHANGED changed
    /\ UNCHANGED <<phase, readers, mode, readerVars, reconVars, runVars, stopVars, setVars>>

-----------------------------------------------------------------------------
(* reconcile, for Start and then for the watcher.                          *)

Start ==
    /\ phase = "new"
    /\ phase' = "started"
    /\ at' = "list"
    /\ UNCHANGED <<envVars, readers, mode, readerVars, wanted, drops, opens, snap, cur, missed,
                   runVars, stopVars, setVars>>

Notified ==
    /\ watching /\ at = "idle"
    /\ changed
    /\ changed' = FALSE
    /\ at' = "list"
    /\ UNCHANGED <<offered, unheard, phase, readers, mode, readerVars, wanted, drops, opens, snap,
                   cur, missed, runVars, stopVars, setVars>>

WatchEnds ==
    /\ watching /\ at = "idle"
    /\ Stopped
    /\ watching' = FALSE
    /\ UNCHANGED <<envVars, phase, readers, mode, readerVars, reconVars, publishers, stopVars, setVars>>

(* Where reconcile returns to: Start goes on to start the watcher.         *)
Return == at' = (IF watching THEN "idle" ELSE "watch") /\ wanted' = {} /\ snap' = None

List ==
    /\ at = "list"
    /\ \/ at' = "compare" /\ wanted' = offered /\ missed' = {} /\ unheard' = {} /\ UNCHANGED snap
       \/ Return /\ missed' = Devices /\ UNCHANGED unheard
    /\ UNCHANGED <<offered, changed, phase, readers, mode, readerVars, drops, opens, cur,
                   runVars, stopVars, setVars>>

(* Under s.mu: what to drop, what to open, and under which policy.         *)
Compare ==
    /\ at = "compare"
    /\ IF phase # "started"
       THEN Return /\ UNCHANGED <<readers, drops, opens>>
       ELSE /\ drops' = {readers[d] : d \in Devices \ wanted} \ {None}
            /\ readers' = [d \in Devices |-> IF d \in wanted THEN readers[d] ELSE None]
            /\ opens' = {d \in wanted : readers[d] = None}
            /\ snap' = mode
            /\ wanted' = {}
            /\ at' = "drop"
    /\ UNCHANGED <<envVars, phase, mode, readerVars, cur, missed, runVars, stopVars, setVars>>

(* reader.Stop, which waits for the worker, and reader.Close, which waits  *)
(* for the device's mutex: for the transfers that get it before.           *)
TellStop(r) ==
    /\ stopChan' = stopChan \cup {r}
    /\ busy' \in {busy, busy \cup ({r} \cap held)}
    /\ UNCHANGED <<rmode, lane, held, working, polling, shut, late>>

CloseReader(r) ==
    /\ r \in stopChan \ (working \cup busy)
    /\ held' = held \ {r}
    /\ shut' = shut \cup {r}
    /\ UNCHANGED <<rmode, lane, working, stopChan, pollVars, late>>

(* One reader after the other.                                             *)
StopDropped(r) ==
    /\ at = "drop" /\ r \in drops /\ drops \cap stopChan = {}
    /\ TellStop(r)
    /\ UNCHANGED <<envVars, phase, readers, mode, reconVars, runVars, stopVars, setVars>>

CloseDropped(r) ==
    /\ at = "drop" /\ r \in drops
    /\ CloseReader(r)
    /\ drops' = drops \ {r}
    /\ UNCHANGED <<envVars, phase, readers, mode, at, wanted, opens, snap, cur, missed,
                   runVars, stopVars, setVars>>

DropDone ==
    /\ at = "drop" /\ drops = {}
    /\ at' = "open"
    /\ UNCHANGED <<envVars, phase, readers, mode, readerVars, wanted, drops, opens, snap, cur,
                   missed, runVars, stopVars, setVars>>

(* newDeviceReader, whose device may not open yet, and the policy read     *)
(* before it.                                                              *)
OpenReader(d, r) ==
    /\ at = "open" /\ d \in opens
    /\ lane[r] = None
    /\ lane' = [lane EXCEPT ![r] = d]
    /\ held' \in {held, held \cup {r}}
    /\ rmode' = [rmode EXCEPT ![r] = snap]
    /\ cur' = r
    /\ opens' = opens \ {d}
    /\ at' = "insert"
    /\ UNCHANGED <<envVars, phase, readers, mode, working, stopChan, pollVars, shut, late, wanted,
                   drops, snap, missed, runVars, stopVars, setVars>>

(* No reader can be made: the model has none left.                         *)
OpenFails(d) ==
    /\ at = "open" /\ d \in opens
    /\ \A r \in Readers : lane[r] # None
    /\ opens' = opens \ {d}
    /\ missed' = missed \cup {d}
    /\ UNCHANGED <<envVars, phase, readers, mode, readerVars, at, wanted, drops, snap, cur,
                   runVars, stopVars, setVars>>

(* Mutant: whatever was notified meanwhile counts as seen.                 *)
OpenDoneDraining ==
    /\ at = "open" /\ opens = {}
    /\ Return
    /\ changed' = FALSE
    /\ UNCHANGED <<offered, unheard, phase, readers, mode, readerVars, drops, opens, cur, missed,
                   runVars, stopVars, setVars>>

OpenDone ==
    /\ at = "open" /\ opens = {}
    /\ Return
    /\ UNCHANGED <<envVars, phase, readers, mode, readerVars, drops, opens, cur, missed,
                   runVars, stopVars, setVars>>

(* Mutant: a supervisor that was stopped takes the reader in.              *)
InsertAnyway ==
    /\ at = "insert"
    /\ readers' = [readers EXCEPT ![lane[cur]] = cur]
    /\ at' = "begin"
    /\ UNCHANGED <<envVars, phase, mode, readerVars, wanted, drops, opens, snap, cur, missed,
                   runVars, stopVars, setVars>>

(* Under s.mu; a supervisor that was stopped closes the reader instead.    *)
Insert ==
    /\ at = "insert"
    /\ IF phase = "started"
       THEN /\ readers' = [readers EXCEPT ![lane[cur]] = cur]
            /\ at' = "begin"
            /\ UNCHANGED <<held, shut, opens, wanted, snap, cur>>
       ELSE /\ held' = held \ {cur}
            /\ shut' = shut \cup {cur}
            /\ opens' = {}
            /\ cur' = None
            /\ Return
            /\ UNCHANGED readers
    /\ UNCHANGED <<envVars, phase, mode, rmode, lane, working, stopChan, pollVars, late, drops,
                   missed, runVars, stopVars, setVars>>

BeginReader ==
    /\ at = "begin"
    /\ working' = working \cup {cur}
    /\ polling' = polling \cup ({cur} \ stopChan)
    /\ at' = "publish"
    /\ UNCHANGED <<envVars, phase, readers, mode, rmode, lane, held, stopChan, busy, shut,
                   late, wanted, drops, opens, snap, cur, missed, runVars, stopVars, setVars>>

Publish ==
    /\ at = "publish"
    /\ publishers' = publishers \cup {cur}
    /\ cur' = None
    /\ at' = "open"
    /\ UNCHANGED <<envVars, phase, readers, mode, readerVars, wanted, drops, opens, snap, missed,
                   watching, stopVars, setVars>>

(* watchDevices, the last of Start that concerns the readers: from here on *)
(* the manager has somebody to tell.                                       *)
Watch ==
    /\ at = "watch"
    /\ watching' = TRUE
    /\ at' = "idle"
    /\ UNCHANGED <<envVars, phase, readers, mode, readerVars, wanted, drops, opens, snap, cur, missed,
                   publishers, stopVars, setVars>>

-----------------------------------------------------------------------------
(* A reader at work: its worker, its polls, and transfers to its card,     *)
(* whoever makes them.                                                     *)

(* The worker sees the stop channel closed, before it began or since.  Its *)
(* deferred Close waits for the device's mutex.                            *)
WorkerExits(r) ==
    /\ r \in (working \cap stopChan) \ busy
    /\ working' = working \ {r}
    /\ held' = held \ {r}
    /\ UNCHANGED <<envVars, phase, readers, mode, rmode, lane, stopChan, pollVars, shut, late,
                   reconVars, runVars, stopVars, setVars>>

AsItWas == UNCHANGED <<envVars, phase, readers, mode, rmode, lane, working, stopChan, shut,
                         reconVars, runVars, stopVars, setVars>>

(* A poll that is under way when the worker is told to stop goes on by     *)
(* itself, and is the last.                                                *)
PollEnds(r) ==
    /\ r \in polling \cap stopChan
    /\ polling' = polling \ {r}
    /\ AsItWas /\ UNCHANGED <<held, busy, late>>

(* TryConnect: it opens the device without a look at the stop channel, and *)
(* installs it whatever became of the reader meanwhile.                    *)
PollConnects(r) ==
    /\ r \in polling \ held
    /\ polling' = polling \ ({r} \cap stopChan)
    /\ held' = held \cup {r}
    /\ late' = late \cup ({r} \cap shut)
    /\ busy' \in {busy, busy \cup ({r} \cap working \cap stopChan)}
    /\ AsItWas

(* The card was removed, or the device failed.                             *)
PollCloses(r) ==
    /\ r \in (polling \cap held) \ busy
    /\ polling' = polling \ ({r} \cap stopChan)
    /\ held' = held \ {r}
    /\ AsItWas /\ UNCHANGED <<busy, late>>

(* The device's mutex is free for whoever waits to close it.               *)
TransferEnds(r) ==
    /\ r \in busy
    /\ busy' = busy \ {r}
    /\ AsItWas /\ UNCHANGED <<held, polling, late>>

AtWork(r) ==
    WorkerExits(r) \/ PollConnects(r) \/ PollCloses(r) \/ PollEnds(r) \/ TransferEnds(r)

(* Mutant: a publisher ends with its reader's next report only.            *)
PublisherStays(r) == r \in publishers /\ UNCHANGED vars

PublisherEnds(r) ==
    /\ r \in publishers /\ Stopped
    /\ publishers' = publishers \ {r}
    /\ UNCHANGED <<envVars, phase, readers, mode, readerVars, reconVars, watching, stopVars, setVars>>

-----------------------------------------------------------------------------
(* Stop.                                                                   *)

Stop ==
    /\ phase = "started" /\ watching
    /\ phase' = "done"
    /\ stop' = "took"
    /\ taken' = Operated
    /\ readers' = [d \in Devices |-> None]
    /\ UNCHANGED <<envVars, mode, readerVars, reconVars, runVars, setVars>>

CloseStopped ==
    /\ stop = "took"
    /\ stop' = "ending"
    /\ UNCHANGED <<envVars, phase, readers, mode, readerVars, reconVars, runVars, taken, setVars>>

StopTaken(r) ==
    /\ stop = "ending" /\ r \in taken /\ taken \cap stopChan = {}
    /\ TellStop(r)
    /\ UNCHANGED <<envVars, phase, readers, mode, reconVars, runVars, stopVars, setVars>>

CloseTaken(r) ==
    /\ stop = "ending" /\ r \in taken
    /\ CloseReader(r)
    /\ taken' = taken \ {r}
    /\ UNCHANGED <<envVars, phase, readers, mode, reconVars, runVars, stop, setVars>>

(* s.wg.Wait: the watcher, with the reconcile it may be in, and the        *)
(* publishers.                                                             *)
StopReturns ==
    /\ stop = "ending" /\ taken = {}
    /\ ~watching /\ publishers = {}
    /\ stop' = "returned"
    /\ UNCHANGED <<envVars, phase, readers, mode, readerVars, reconVars, runVars, taken, setVars>>

-----------------------------------------------------------------------------
(* SetMode: the mode and the list of readers under s.mu, then each reader. *)

SetMode(s, m) ==
    /\ smode[s] = None
    /\ mode' = m
    /\ smode' = [smode EXCEPT ![s] = m]
    /\ todo' = [todo EXCEPT ![s] = Operated]
    /\ UNCHANGED <<envVars, phase, readers, readerVars, reconVars, runVars, stopVars>>

TellReader(s, r) ==
    /\ r \in todo[s] /\ smode[s] \in Modes
    /\ rmode' = [rmode EXCEPT ![r] = smode[s]]
    /\ todo' = [todo EXCEPT ![s] = @ \ {r}]
    /\ UNCHANGED <<envVars, phase, readers, mode, lane, held, working, stopChan, pollVars, shut,
                   late, reconVars, runVars, stopVars, smode>>

-----------------------------------------------------------------------------
Reconcile ==
    \/ List \/ Compare \/ DropDone \/ OpenDone \/ Insert \/ BeginReader \/ Publish \/ Watch
    \/ \E r \in Readers : StopDropped(r) \/ CloseDropped(r)
    \/ \E d \in Devices : OpenFails(d) \/ \E r \in Readers : OpenReader(d, r)

Ending ==
    \/ CloseStopped \/ StopReturns \/ WatchEnds
    \/ \E r \in Readers : StopTaken(r) \/ CloseTaken(r)

Next ==
    \/ Replug \/ Start \/ Notified \/ Reconcile \/ Stop \/ Ending
    \/ \E r \in Readers : AtWork(r) \/ PublisherEnds(r)
    \/ \E s \in Setters :
          \/ \E m \in Modes : SetMode(s, m)
          \/ \E r \in Readers : TellReader(s, r)

Spec == Init /\ [][Next]_vars

-----------------------------------------------------------------------------
(* Safety.                                                                 *)

(* Two readers never have one device open: a reader that was dropped has   *)
(* let go of it before another is opened for the same path.  The exception *)
(* is a poll that outlived its reader and opened the device after all      *)
(* (reader.go:665-677).                                                    *)
OneReaderPerDevice ==
    \A q, r \in held \ late : lane[q] = lane[r] => q = r

(* With nobody reconciling and no notification waiting, the readers are    *)
(* the ones the manager offers, but for those it failed to list or open    *)
(* since, and for what changed between Start's list and the subscription   *)
(* with nobody told: no change is lost between a list and the comparison,  *)
(* nor one that comes while the watcher reconciles.                        *)
NothingMissed ==
    watching /\ at = "idle" /\ ~changed /\ phase = "started" =>
        \A d \in Devices \ (missed \cup unheard) : readers[d] # None <=> d \in offered

(* Every reader that has its device open is in the supervisor's hands, or  *)
(* in those of the reconcile or the Stop that will close it, but for the   *)
(* polls that opened one after their reader was closed; so nothing else is *)
(* open when Stop has returned (supervisor.go:112).                        *)
Hands == Operated \cup drops \cup taken \cup (IF at = "insert" THEN {cur} ELSE {})
NothingLeaks ==
    /\ held \subseteq Hands \cup late
    /\ stop = "returned" => held \subseteq late

(* Every open device has one reader, and that reader somebody who will     *)
(* close it (supervisor.go, reconcile and Stop).                           *)
ReadersAccounted == OneReaderPerDevice /\ NothingLeaks

-----------------------------------------------------------------------------
(* Liveness.  Every goroutine goes on, and the watcher's select sees that  *)
(* the supervisor stopped though devices come and go; nobody has to unplug *)
(* a reader, and no poll and no transfer has to end.                       *)

Supervised ==
    /\ WF_vars(Reconcile) /\ WF_vars(Notified)
    /\ WF_vars(CloseStopped) /\ WF_vars(StopReturns) /\ SF_vars(WatchEnds)
    /\ \A r \in Readers :
          /\ WF_vars(StopTaken(r)) /\ WF_vars(CloseTaken(r))
          /\ WF_vars(WorkerExits(r)) /\ WF_vars(PublisherEnds(r))

FairSpec == Spec /\ Supervised

(* Unless a transfer is stuck in a reader for good, Stop returns, though   *)
(* the watcher may be in the middle of a reconcile, and no worker outlives *)
(* it for good, one that began after it was told to stop included; what is *)
(* open then was opened by polls that outlived their readers.              *)
StopEndsAll ==
    []<>(busy = {}) =>
        ((phase = "done") ~> (stop = "returned" /\ working = {} /\ held \subseteq late))

=============================================================================
