-------------------------- MODULE RemoteTagSession --------------------------
(***************************************************************************)
(* The operations the agent runs on a tag a phone holds: a sequence of     *)
(* exchanges under the operation slot of the phone's Device                *)
(* (nfc/remotenfc/sequence.go), and a single exchange without it           *)
(* (deviceops.go).  A phone that registers again has a new Device, and     *)
(* with it a new slot.  RemoteSessions has the sessions and the requests   *)
(* these go through; here a request is sent and comes back.                *)
(***************************************************************************)
EXTENDS Naturals

CONSTANTS
    Sequences,  \* callers of TransceiveSequenceTag
    Singles,    \* callers of TransceiveTag or WriteTag
    Ids,        \* phones
    Devs,       \* Device objects the run can register
    MaxSteps,   \* the longest sequence
    None

ASSUME NoneApart == None \notin Sequences \cup Ids \cup Devs
ASSUME StepsOK == MaxSteps \in Nat \ {0}
ASSUME SinglesApart == Sequences \cap Singles = {}

VARIABLES
    device,     \* m.devices: phone -> the Device it registered last
    latest,     \* m.activeLatest
    opSlot,     \* opSlot[d]: the sequence that has Device d's slot
    at,         \* at[s]: where a sequence is
    asked,      \* asked[s]: the phone its caller named, None for the latest
    res,        \* res[s]: the phone ActiveTag gave, whose slot it takes
    dev,        \* dev[s]: that phone's Device
    target,     \* target[s]: the phone its exchanges go to
    left,       \* left[s]: steps it has still to send
    flight      \* flight[x]: the phone caller x has a request at

vars == <<device, latest, opSlot, at, asked, res, dev, target, left, flight>>

TypeOK ==
    /\ device \in [Ids -> Devs]
    /\ latest \in Ids
    /\ opSlot \in [Devs -> Sequences \cup {None}]
    /\ at \in [Sequences -> {"new", "found", "waiting", "holding", "running", "done"}]
    /\ asked \in [Sequences -> Ids \cup {None}]
    /\ res \in [Sequences -> Ids \cup {None}]
    /\ dev \in [Sequences -> Devs \cup {None}]
    /\ target \in [Sequences -> Ids \cup {None}]
    /\ left \in [Sequences -> 0..MaxSteps]
    /\ flight \in [Sequences \cup Singles -> Ids \cup {None}]
    /\ \A s \in Sequences :
          /\ at[s] \in {"waiting", "holding", "running"} => dev[s] \in Devs
          /\ at[s] = "running" => target[s] \in Ids

(* Two phones at least hold a tag: the bridge's registrations are given.   *)
Init ==
    /\ device \in [Ids -> Devs] /\ \A i, j \in Ids : device[i] = device[j] => i = j
    /\ latest \in Ids
    /\ opSlot = [d \in Devs |-> None]
    /\ at = [s \in Sequences |-> "new"]
    /\ asked = [s \in Sequences |-> None]
    /\ res = [s \in Sequences |-> None]
    /\ dev = [s \in Sequences |-> None]
    /\ target = [s \in Sequences |-> None]
    /\ left = [s \in Sequences |-> 0]
    /\ flight = [x \in Sequences \cup Singles |-> None]

Goto(s, step) == at' = [at EXCEPT ![s] = step]
Resolve(i) == IF i = None THEN latest ELSE i

-----------------------------------------------------------------------------
(* The phones: one scans, one registers anew (for good under a new Device).*)

Scanned(i) ==
    /\ latest' = i
    /\ UNCHANGED <<device, opSlot, at, asked, res, dev, target, left, flight>>

Reregister(i, d) ==
    /\ \A j \in Ids : device[j] # d
    /\ opSlot[d] = None /\ \A s \in Sequences : dev[s] # d
    /\ device' = [device EXCEPT ![i] = d]
    /\ UNCHANGED <<latest, opSlot, at, asked, res, dev, target, left, flight>>

-----------------------------------------------------------------------------
(* WithTagSession: ActiveTag, with the checks of the tag it holds.         *)
Find(s, i) ==
    /\ at[s] = "new"
    /\ asked' = [asked EXCEPT ![s] = i]
    /\ \/ res' = [res EXCEPT ![s] = Resolve(i)] /\ Goto(s, "found")
       \/ Goto(s, "done") /\ UNCHANGED res
    /\ UNCHANGED <<device, latest, opSlot, dev, target, left, flight>>

(* GetDevice, a lookup of its own.                                         *)
GetDevice(s) ==
    /\ at[s] = "found"
    /\ dev' = [dev EXCEPT ![s] = device[res[s]]]
    /\ Goto(s, "waiting")
    /\ UNCHANGED <<device, latest, opSlot, asked, res, target, left, flight>>

TakeSlot(s) ==
    /\ at[s] = "waiting"
    /\ opSlot[dev[s]] = None
    /\ opSlot' = [opSlot EXCEPT ![dev[s]] = s]
    /\ Goto(s, "holding")
    /\ UNCHANGED <<device, latest, asked, res, dev, target, left, flight>>

(* The caller's context ends the wait.                                     *)
GiveUp(s) ==
    /\ at[s] = "waiting"
    /\ Goto(s, "done")
    /\ UNCHANGED <<device, latest, opSlot, asked, res, dev, target, left, flight>>

(* TransceiveSequenceTag asks ActiveTag again, with what its caller named, *)
(* and sends there: the steps one by one, or all of them as one request.   *)
Begin(s) ==
    /\ at[s] = "holding"
    /\ target' = [target EXCEPT ![s] = Resolve(asked[s])]
    /\ \E n \in 1..MaxSteps : left' = [left EXCEPT ![s] = n]
    /\ Goto(s, "running")
    /\ UNCHANGED <<device, latest, opSlot, asked, res, dev, flight>>

SendStep(s) ==
    /\ at[s] = "running" /\ left[s] > 0
    /\ flight[s] = None
    /\ flight' = [flight EXCEPT ![s] = target[s]]
    /\ UNCHANGED <<device, latest, opSlot, at, asked, res, dev, target, left>>

(* The reply, or its absence; a step that fails or that the stop rules     *)
(* name is the last.                                                       *)
StepDone(s) ==
    /\ flight[s] # None
    /\ flight' = [flight EXCEPT ![s] = None]
    /\ left' \in {[left EXCEPT ![s] = @ - 1], [left EXCEPT ![s] = 0]}
    /\ UNCHANGED <<device, latest, opSlot, at, asked, res, dev, target>>

(* Mutant: the slot is kept by a sequence that ended early.                *)
FinishKeeping(s) ==
    /\ at[s] = "running" /\ left[s] = 0
    /\ Goto(s, "done")
    /\ UNCHANGED <<device, latest, opSlot, asked, res, dev, target, left, flight>>

Finish(s) ==
    /\ at[s] = "running" /\ left[s] = 0
    /\ opSlot' = [opSlot EXCEPT ![dev[s]] = None]
    /\ Goto(s, "done")
    /\ UNCHANGED <<device, latest, asked, res, dev, target, left, flight>>

(* TransceiveTag and WriteTag go straight to the device.                   *)
SendSingle(x, i) ==
    /\ flight[x] = None
    /\ flight' = [flight EXCEPT ![x] = i]
    /\ UNCHANGED <<device, latest, opSlot, at, asked, res, dev, target, left>>

SingleDone(x) ==
    /\ flight[x] # None
    /\ flight' = [flight EXCEPT ![x] = None]
    /\ UNCHANGED <<device, latest, opSlot, at, asked, res, dev, target, left>>

-----------------------------------------------------------------------------
Run(s) ==
    \/ GetDevice(s) \/ TakeSlot(s) \/ Begin(s) \/ SendStep(s) \/ StepDone(s) \/ Finish(s)

Next ==
    \/ \E i \in Ids : Scanned(i) \/ \E d \in Devs : Reregister(i, d)
    \/ \E s \in Sequences : (\E i \in Ids \cup {None} : Find(s, i)) \/ GiveUp(s) \/ Run(s)
    \/ \E x \in Singles : (\E i \in Ids : SendSingle(x, i)) \/ SingleDone(x)

Spec == Init /\ [][Next]_vars

-----------------------------------------------------------------------------
(* sequence.go:26-28: no other sequence interleaves its exchanges with one *)
(* that runs, where a phone registered once and both named it.  One that   *)
(* found a newer Device of the phone has another slot, and one that named  *)
(* no phone may run on another than the one whose slot it has.             *)
SequencesApart ==
    \A s, u \in Sequences :
        s # u /\ flight[s] # None /\ at[u] = "running" /\ left[u] > 0 /\ target[u] = flight[s] =>
            dev[s] # dev[u] \/ None \in {asked[s], asked[u]}

(* Every exchange comes back, by its timeout at the latest.                *)
FairSpec == Spec /\ \A s \in Sequences : WF_vars(Run(s))

(* A slot that is taken is given back, however the sequence ends.          *)
SlotComesBack == \A d \in Devs : (opSlot[d] # None) ~> (opSlot[d] = None)

(* sequence.go:26-28: the sequences that name a phone take its slot in     *)
(* turns: none sends between another's exchanges, and the slot comes back. *)
SlotIsShared == []SequencesApart /\ SlotComesBack

=============================================================================
