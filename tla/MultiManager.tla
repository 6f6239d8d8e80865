---------------------------- MODULE MultiManager ----------------------------
(***************************************************************************)
(* Several managers as one: nfc/multimanager/multimanager.go, over the     *)
(* signal it fans out on (event/signal.go).  A child says its devices      *)
(* changed on a channel of one; a goroutine per child emits that to every  *)
(* watcher connected; a goroutine per watcher hands it on, on a channel of *)
(* one.  A watcher lists and opens the devices each time it is woken; the  *)
(* supervisor (nfc/supervisor.go, Start) does so once before it calls      *)
(* DeviceChanges too, the agent (agent/events.go, watchManager) does not.  *)
(*                                                                         *)
(* Left out: scans, which pass through one signal to another, and the      *)
(* operations on a phone's tag, which go to the child that holds it.       *)
(***************************************************************************)
EXTENDS Naturals, Sequences, FiniteSets
LOCAL INSTANCE SequencesExt

CONSTANTS
    Order,          \* managerOrder: the children, as registered
    PathOf,         \* PathOf[c]: its device's path, the pieces between colons
    Callees,       \* callers of DeviceChanges
    MaxEvents       \* bound: changes of devices and calls of DeviceChanges, together

Children == {Order[i] : i \in DOMAIN Order}

ASSUME OrderOK == Order \in Seq(Children) \ {<< >>}
ASSUME PathsOK == \A c \in Children : PathOf[c] # << >>

VARIABLES
    devices,    \* devices[c]: how often child c's devices have changed
    telling,    \* children that have yet to say so
    news,       \* children whose channel holds a notification
    forwarding, \* children whose forwardDeviceChanges runs
    emitting,   \* emitting[c]: the handlers that goroutine has yet to call
    slots,      \* deviceChanges.slots: the watchers connected, in order
    watch,      \* watch[w]: its channel: [at, stop, relay, ch]
    look,       \* look[w]: the place in Order it lists next, 0 for none
    seen,       \* seen[w][c]: devices[c] when it last listed and opened c's
    joined,     \* history: joined[w][c]: devices[c] when its relay was connected
    closing,    \* where Close is
    taken       \* the watches Close has yet to stop

mmVars == <<devices, telling, news, forwarding, emitting, slots, watch, look, seen, joined,
          closing, taken>>

Events == SumFunction(devices) + Cardinality({w \in Callees : watch[w].at # "none"})

MMTypeOK ==
    /\ devices \in [Children -> 0 .. MaxEvents]
    /\ telling \subseteq Children /\ news \subseteq Children /\ forwarding \subseteq Children
    /\ emitting \in [Children -> Seq(Callees)]
    /\ slots \in Seq(Callees)
    /\ watch \in [Callees -> [at : {"none", "registered", "relaying", "ended"},
                               stop : BOOLEAN, relay : BOOLEAN, ch : BOOLEAN]]
    /\ look \in [Callees -> 0 .. Len(Order)]
    /\ seen \in [Callees -> [Children -> 0 .. MaxEvents]]
    /\ joined \in [Callees -> [Children -> 0 .. MaxEvents]]
    /\ closing \in {"open", "forward", "watches", "closed"}
    /\ taken \subseteq Callees

MMInit ==
    /\ devices = [c \in Children |-> 0]
    /\ telling = {} /\ news = {}
    /\ forwarding = Children
    /\ emitting = [c \in Children |-> << >>]
    /\ slots = << >>
    /\ watch = [w \in Callees |-> [at |-> "none", stop |-> FALSE, relay |-> FALSE, ch |-> FALSE]]
    /\ look = [w \in Callees |-> 0]
    /\ seen = [w \in Callees |-> [c \in Children |-> 0]]
    /\ joined = [w \in Callees |-> [c \in Children |-> 0]]
    /\ closing = "open" /\ taken = {}

------------------------------------------------------------------------------
(* The children.  A device comes or goes, and the child says so without    *)
(* blocking.  What changes once Close has begun is left out: nobody is     *)
(* promised a word of it.                                                  *)
Change(c) ==
    /\ closing = "open"
    /\ c \notin telling /\ Events < MaxEvents
    /\ devices' = [devices EXCEPT ![c] = @ + 1]
    /\ telling' = telling \cup {c}
    /\ UNCHANGED <<news, forwarding, emitting, slots, watch, look, seen, joined, closing, taken>>

NotifyDeviceChange(c) ==
    /\ c \in telling
    /\ telling' = telling \ {c}
    /\ news' = news \cup {c}
    /\ UNCHANGED <<devices, forwarding, emitting, slots, watch, look, seen, joined, closing, taken>>

(* One channel for all: who takes the notification has it for itself.      *)
ForwardToOne(c) ==
    /\ c \in forwarding /\ emitting[c] = << >>
    /\ c \in news
    /\ news' = news \ {c}
    /\ emitting' = [emitting EXCEPT ![c] = SelectSeq(slots, LAMBDA w : w = Head(slots))]
    /\ UNCHANGED <<devices, telling, forwarding, slots, watch, look, seen, joined, closing, taken>>

(* forwardDeviceChanges: takes a notification and emits it.  Emit copies   *)
(* the handlers under the signal's lock and calls them without it.         *)
Forward(c) ==
    /\ c \in forwarding /\ emitting[c] = << >>
    /\ c \in news
    /\ news' = news \ {c}
    /\ emitting' = [emitting EXCEPT ![c] = slots]
    /\ UNCHANGED <<devices, telling, forwarding, slots, watch, look, seen, joined, closing, taken>>

(* The handler of a Channel: a full buffer drops.                          *)
Emit(c) ==
    /\ emitting[c] # << >>
    /\ watch' = [watch EXCEPT ![Head(emitting[c])].relay = TRUE]
    /\ emitting' = [emitting EXCEPT ![c] = Tail(@)]
    /\ UNCHANGED <<devices, telling, news, forwarding, slots, look, seen, joined, closing, taken>>

(* stopForward is closed, or the child's channel is.                       *)
StopForwarding(c) ==
    /\ c \in forwarding /\ emitting[c] = << >> /\ closing # "open"
    /\ forwarding' = forwarding \ {c}
    /\ UNCHANGED <<devices, telling, news, emitting, slots, watch, look, seen, joined, closing,
                   taken>>

------------------------------------------------------------------------------
(* The watchers.  The supervisor's Start reconciles before it asks for     *)
(* changes (nfc/supervisor.go:103).                                        *)
LookFirst(w) ==
    /\ watch[w].at = "none" /\ look[w] = 0
    /\ look' = [look EXCEPT ![w] = 1]
    /\ UNCHANGED <<devices, telling, news, forwarding, emitting, slots, watch, seen, joined,
                   closing,
                   taken>>

(* DeviceChanges, under changesMu ...                                      *)
Register(w) ==
    /\ watch[w].at = "none" /\ look[w] = 0 /\ Events < MaxEvents
    /\ watch' = [watch EXCEPT ![w].at =
           IF closing \in {"watches", "closed"} THEN "ended" ELSE "registered"]
    /\ UNCHANGED <<devices, telling, news, forwarding, emitting, slots, look, seen, joined, closing,
                   taken>>

(* ... then the relay, connected before the call returns.                  *)
ConnectRelay(w) ==
    /\ watch[w].at = "registered"
    /\ watch' = [watch EXCEPT ![w].at = "relaying"]
    /\ slots' = Append(slots, w)
    /\ joined' = [joined EXCEPT ![w] = devices]
    /\ UNCHANGED <<devices, telling, news, forwarding, emitting, look, seen, closing, taken>>

(* Its goroutine takes from the relay and passes on what fits: its own     *)
(* channel is a buffer of one, and full it will wake the watcher anyway.   *)
PassOn(w) ==
    /\ watch[w].at = "relaying" /\ watch[w].relay
    /\ watch' = [watch EXCEPT ![w].relay = FALSE, ![w].ch = TRUE]
    /\ UNCHANGED <<devices, telling, news, forwarding, emitting, slots, look, seen, joined,
                   closing, taken>>

(* Stopped, it disconnects the relay and closes the channel.               *)
StopRelay(w) ==
    /\ watch[w].at = "relaying" /\ watch[w].stop
    /\ watch' = [watch EXCEPT ![w].at = "ended"]
    /\ slots' = Remove(slots, w)
    /\ UNCHANGED <<devices, telling, news, forwarding, emitting, look, seen, joined, closing,
                   taken>>

(* The watcher, woken, starts over.                                        *)
Wake(w) ==
    /\ look[w] = 0 /\ watch[w].ch
    /\ watch' = [watch EXCEPT ![w].ch = FALSE]
    /\ look' = [look EXCEPT ![w] = 1]
    /\ UNCHANGED <<devices, telling, news, forwarding, emitting, slots, seen, joined, closing,
                   taken>>

(* A path is qualified by its manager unless it has a colon.               *)
qualify(manager, path) == IF Len(path) > 1 THEN path ELSE <<manager>> \o path

(* The child that opens a path: the one its first piece names, or the      *)
(* first that has it.                                                      *)
OpenedBy(path) ==
    LET having(p) == SelectSeq(Order, LAMBDA c : PathOf[c] = p)
    IN  IF Len(path) > 1 /\ Head(path) \in Children
            THEN IF PathOf[Head(path)] = Tail(path) THEN Head(path) ELSE "nobody"
            ELSE IF having(path) # << >> THEN Head(having(path)) ELSE "nobody"

(* The watcher that lists a child's device opens that child's device: no   *)
(* path has a colon whose head is another child's name, nor one that two   *)
(* children have.                                                          *)
ListedIsOpened == \A c \in Children : OpenedBy(qualify(c, PathOf[c])) = c

(* Devices lists child by child; the watcher opens what it is listed.      *)
Look(w) ==
    /\ look[w] # 0
    /\ LET c == Order[look[w]]
           opened == OpenedBy(qualify(c, PathOf[c]))
       IN  seen' = IF opened \in Children THEN [seen EXCEPT ![w][c] = devices[opened]] ELSE seen
    /\ look' = [look EXCEPT ![w] = IF @ = Len(Order) THEN 0 ELSE @ + 1]
    /\ UNCHANGED <<devices, telling, news, forwarding, emitting, slots, watch, joined, closing,
                   taken>>

------------------------------------------------------------------------------
(* Close, once: stopForward; under changesMu, closed and the watches       *)
(* taken; each stopped; then the children.                                 *)
CloseForward ==
    /\ closing = "open"
    /\ closing' = "forward"
    /\ UNCHANGED <<devices, telling, news, forwarding, emitting, slots, watch, look, seen,
                   joined, taken>>

(* A plausible slip: only the watches whose relay already runs.            *)
TakeRunning ==
    /\ closing = "forward"
    /\ closing' = "watches"
    /\ taken' = {w \in Callees : watch[w].at = "relaying"}
    /\ UNCHANGED <<devices, telling, news, forwarding, emitting, slots, watch, look, seen, joined>>

TakeWatches ==
    /\ closing = "forward"
    /\ closing' = "watches"
    /\ taken' = {w \in Callees : watch[w].at # "none"}
    /\ UNCHANGED <<devices, telling, news, forwarding, emitting, slots, watch, look, seen, joined>>

StopWatch(w) ==
    /\ closing = "watches" /\ w \in taken
    /\ taken' = taken \ {w}
    /\ watch' = [watch EXCEPT ![w].stop = TRUE]
    /\ UNCHANGED <<devices, telling, news, forwarding, emitting, slots, look, seen, joined,
                   closing>>

CloseManagers ==
    /\ closing = "watches" /\ taken = {}
    /\ closing' = "closed"
    /\ UNCHANGED <<devices, telling, news, forwarding, emitting, slots, watch, look, seen,
                   joined, taken>>

OfChild(c) == Change(c) \/ NotifyDeviceChange(c) \/ Forward(c) \/ Emit(c) \/ StopForwarding(c)

(* What DeviceChanges and its goroutine go on to do once it is called.     *)
Relay(w) == ConnectRelay(w) \/ PassOn(w) \/ StopRelay(w)

OfWatcher(w) ==
    \/ LookFirst(w) \/ Register(w) \/ Relay(w)
    \/ Wake(w) \/ Look(w)

Closer == CloseForward \/ TakeWatches \/ (\E w \in Callees : StopWatch(w)) \/ CloseManagers

MMNext ==
    \/ \E c \in Children : OfChild(c)
    \/ \E w \in Callees : OfWatcher(w)
    \/ Closer

MMSpec == MMInit /\ [][MMNext]_mmVars

------------------------------------------------------------------------------
(* Who has not listed child c since its devices changed, after its relay   *)
(* was connected, will be woken: the word is with the child, in its        *)
(* channel, in an emission that has yet to reach the watcher, in the relay *)
(* or in the channel it reads; or the list it is making has c still before *)
(* it.  No buffer of one that drops, and no order of connecting and        *)
(* emitting, loses such a change (multimanager.go:326).  One from between  *)
(* the supervisor's first list and the connection may be lost.             *)
NobodyUnwoken ==
    closing = "open" =>
        \A w \in Callees : watch[w].at = "relaying" =>
            \A i \in DOMAIN Order : LET c == Order[i] IN
                devices[c] \in {seen[w][c], joined[w][c]}
                \/ c \in telling \/ c \in news
                \/ w \in {emitting[c][j] : j \in DOMAIN emitting[c]}
                \/ watch[w].relay \/ watch[w].ch
                \/ (look[w] # 0 /\ look[w] <= i)

(* Close ends every channel DeviceChanges has returned or will return,     *)
(* one being made while it runs included (multimanager.go:332).            *)
WatchesEnd ==
    \A w \in Callees :
        (closing = "closed" /\ watch[w].at # "none") ~> (watch[w].at = "ended")

=============================================================================
