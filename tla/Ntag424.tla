------------------------------ MODULE Ntag424 ------------------------------
(* The NTAG 424 DNA driver (nfc/tag_ntag424.go, tag_ntag424_ops.go) over the  *)
(* card of Ntag424Card and a link that loses commands, loses answers and      *)
(* loses the card.                                                            *)
(*                                                                            *)
(* An operation is a sequence of exchanges.  "steps" are those left of the    *)
(* stage the operation is in; a stage ends well (Done), in an error (Fail),   *)
(* or begins again in a new session (the retry of withSession).  Stages:      *)
(*   "held"    a settings or version read in the session already open,        *)
(*   "plain"   the same outside a session, after a select,                    *)
(*   "keyed"   withSession(key, body),                                        *)
(*   "resolve" withSession(key, GetCardUID), begun from inside another one,   *)
(*   "iso"     the Type 4 exchange of tag_iso14443.go.                        *)
(* "want" says what the operation reads the settings for, and for ConfigureSDM *)
(* how far it has come: "write", "change", then "read".                       *)
(*                                                                            *)
(* With Phone every operation has a driver of its own                         *)
(* (NewNTAG424SessionWithBudget) and raw exchanges of other clients fall      *)
(* between its exchanges; with a reader the driver lasts as long as the card  *)
(* is present and raw exchanges wait their turn.                              *)
EXTENDS Ntag424Card, Sequences, FiniteSets

CONSTANTS KeySets,      \* the key sets the agent may be given
          Provisioned,  \* the cards that may be presented
          Plans,        \* the settings ChangeFileSettings and ConfigureSDM write
          Old,          \* the message on the card
          Kinds,        \* the operations
          MaxFaults,    \* lost commands, lost answers and removals
          MaxForeign,   \* raw exchanges of other clients
          MaxSets,      \* times the driver's memory of refusals begins anew
          MaxOps        \* operations

\* The cards come with the old message and no session.
ASSUME DriverAssumption ==
    /\ Old \in Msgs /\ Plans \subseteq Settings
    /\ KeySets \subseteq [of : [KeyNos -> KeyValues \cup {"none", "div"}], lrp : BOOLEAN]
    /\ Provisioned \subseteq Cards
    /\ \A c \in Provisioned : c = NewCard(c.key, Old, c.set, c.lrp, c.random)
    /\ Kinds \subseteq {"read", "write", "writable", "lock", "change", "key", "lrp", "sig",
                       "version", "uid", "sdm", "settings"}
    /\ MaxFaults \in Nat /\ MaxForeign \in Nat /\ MaxSets \in Nat \ {0} /\ MaxOps \in Nat

\* "refused" and "unheard" are history: the keys the card was heard to refuse,
\* each with the memory it was refused in, and the refusals lost on the way.
VARIABLES card, t, op, last, phone, faults, foreign, sets, ops, refused, unheard
vars == <<card, t, op, last, phone, faults, foreign, sets, ops, refused, unheard>>
bounds == <<phone, faults, foreign, sets, ops>>
history == <<refused, unheard>>

\* The driver: the keys it holds, its session, whether it knows the real UID
\* and how asking for it failed, the keys refused and why, the card's delay,
\* the LRP mode it has seen.
Fresh(keys) == [keys |-> keys, session |-> NoKey, real |-> FALSE, resolved |-> "no",
                failed |-> [n \in KeyNos |-> "no"], delayed |-> FALSE, lrp |-> FALSE]

Idle    == [kind |-> "none"]
NoWord  == [kind |-> "none"]

Errors == {"removed", "denied", "other"}

TypeOK ==
    /\ card \in Cards
    /\ t \in [keys : KeySets, session : KeyNos \cup {NoKey}, real : BOOLEAN,
              resolved : {"no"} \cup Errors, failed : [KeyNos -> {"no"} \cup Errors],
              delayed : BOOLEAN, lrp : BOOLEAN]
    /\ op = Idle \/ op.stage \in {"held", "plain", "keyed", "resolve", "iso"}
    /\ phone \in BOOLEAN
    /\ faults \in 0..MaxFaults /\ foreign \in 0..MaxForeign
    /\ sets \in 1..MaxSets /\ ops \in 0..MaxOps
    /\ refused \subseteq (1..MaxSets) \X KeyNos /\ unheard \in 0..MaxFaults

Init ==
    /\ card \in Provisioned
    /\ \E ks \in KeySets : t = Fresh(ks)
    /\ op = Idle /\ last = NoWord
    /\ phone \in BOOLEAN
    /\ faults = 0 /\ foreign = 0 /\ sets = 1 /\ ops = 0 /\ refused = {} /\ unheard = 0

(***************************** Keys *****************************)

Holds(n) == t.keys.of[n] # "none"

AnyHeld == {n \in KeyNos : Holds(n)}
Least(S) == CHOOSE n \in S : \A m \in S : n <= m

\* A key derived from the UID of a card that presents a random one needs the
\* real UID first.
Derived(n)   == t.keys.of[n] = "div"
NeedsReal(n) == card.random /\ ~t.real /\ Derived(n)

KeyFor(n)    == IF Derived(n) THEN IF card.random /\ ~t.real THEN "shown" ELSE "real"
                ELSE t.keys.of[n]

\* The keys that open the session GetCardUID needs: none of those derived.
Resolvers == {n \in KeyNos : Holds(n) /\ ~Derived(n)}

(***************************** Routes *****************************)

IsoRoute(fs, write) == Free \in Rights(fs, write) /\ ~fs.secured

\* The first right that names a key decides, held or not.
NamedKey(fs, write) ==
    LET first == IF write THEN fs.write ELSE fs.read IN
    IF first \in KeyNos THEN first ELSE fs.rw

RouteKey(fs, write) ==
    IF Free \in Rights(fs, write) THEN IF AnyHeld = {} THEN NoKey ELSE Least(AnyHeld)
    ELSE IF NamedKey(fs, write) \in KeyNos /\ Holds(NamedKey(fs, write))
         THEN NamedKey(fs, write) ELSE NoKey

ChangeKeyFor(fs) ==
    IF fs.change = Free THEN IF AnyHeld = {} THEN NoKey ELSE Least(AnyHeld)
    ELSE IF fs.change \in KeyNos /\ Holds(fs.change) THEN fs.change ELSE NoKey

Locked(fs) ==
    [fs EXCEPT !.read = IF @ = Never THEN fs.rw ELSE @, !.write = Never, !.rw = Never]

(***************************** Stages *****************************)

IsoOpen  == <<"select", "selCC", "readCC", "selNdef">>
ReadAll  == <<"nlen", "part">>
WriteUncleared == <<"chunk1", "chunk2", "length">>
WriteAll == <<"clear", "chunk1", "chunk2", "length">>

Changes  == {"clear", "chunk1", "chunk2", "length", "change", "key"}

Iso(o, steps) == [o EXCEPT !.stage = "iso", !.steps = steps, !.body = steps]

\* withSession(n, body): "enter" is the part of authenticate before it sends.
Keyed(o, n, body) ==
    [o EXCEPT !.stage = "keyed", !.key = n, !.body = body,
              !.steps = <<"enter">> \o body, !.again = TRUE]

\* getFileSettings and GetKeyVersion begin in the open session, if there is one.
Ask(o, what, session) ==
    IF session # NoKey
    THEN [o EXCEPT !.stage = "held", !.key = session, !.body = <<what>>, !.steps = <<what>>]
    ELSE [o EXCEPT !.stage = "plain", !.body = <<what>>, !.steps = <<"select", what>>]

Doing     == Head(op.steps)
InSession == op.stage \in {"held", "keyed", "resolve"}
InAuth    == op.stage \in {"keyed", "resolve"} /\ Len(op.steps) > Len(op.body)

NotedLate == op

\* A write inside a session is noted before it is sent.
Noted == [op EXCEPT !.sent = @ \/ (InSession /\ Doing \in Changes)]

\* The settings are what is being read, here or around the resolve.
ForSettings == Head(IF op.stage = "resolve" THEN op.outer.body ELSE op.body) = "settings"

(***************************** Ends *****************************)

\* What a failed ConfigureSDM says it left, by how far it came and whether a
\* write was noted since.
SDMStateOf ==
    CASE op.want = "write"  -> IF Noted.sent THEN "ndef indeterminate" ELSE "nothing written"
      [] op.want = "change" -> IF Noted.sent THEN "settings indeterminate" ELSE "ndef written"
      [] op.want = "read"   -> "configured unverified"

Reported(ok, state) ==
    /\ last' = [kind |-> op.kind, ok |-> ok, msg |-> op.msg, plan |-> op.plan, n |-> op.n,
                was |-> op.was, state |-> state]
    /\ op' = Idle

Report(ok) == Reported(ok, IF op.kind = "sdm" /\ ~ok THEN SDMStateOf ELSE "none")

Continue(o) == op' = o /\ last' = NoWord

\* An error ends the operation, except that settings which cannot be read,
\* other than for want of a card or a key, leave key 0 or the ISO path.
Fail(e) ==
    IF ForSettings /\ op.want = "change" /\ e # "removed"
    THEN Continue(Keyed(op, 0, <<"change">>))
    ELSE IF ForSettings /\ op.want \in {"read", "write", "writable"} /\ e = "other"
    THEN Continue(Iso(op, CASE op.want = "read"     -> IsoOpen \o ReadAll
                            [] op.want = "write"    -> IsoOpen \o WriteAll
                            [] op.want = "writable" -> <<"select", "selCC", "readCC">>))
    ELSE Report(FALSE)

\* The stage is over: the next one, or the end.  The budget may refuse the
\* change of settings before it sends anything.
Done ==
    CASE op.want = "write" /\ op.kind = "sdm" ->
             \/ Continue(Ask([op EXCEPT !.want = "change", !.sent = FALSE], "settings", t'.session))
             \/ Reported(FALSE, "ndef written")
      [] op.want = "change" /\ op.kind = "sdm" ->
             Continue(Ask([op EXCEPT !.want = "read", !.sent = FALSE], "settings", t'.session))
      [] op.want = "read" /\ op.kind = "sdm" ->
             Continue([op EXCEPT !.stage = "keyed", !.body = <<"verify">>, !.steps = <<"verify">>])
      [] OTHER -> Report(TRUE)

\* The settings are read: the route they name, or the end.
Settled ==
    LET fs == card.set IN
    CASE op.want = "none"     -> Report(TRUE)
      [] op.want = "writable" -> Report(IsoRoute(fs, TRUE) \/ RouteKey(fs, TRUE) # NoKey)
      [] op.want = "read" ->
             IF IsoRoute(fs, FALSE) THEN Continue(Iso(op, IsoOpen \o ReadAll))
             ELSE IF RouteKey(fs, FALSE) = NoKey THEN Report(FALSE)
             ELSE Continue(Keyed(op, RouteKey(fs, FALSE), ReadAll))
      [] op.want = "write" ->
             \/ Report(FALSE)
             \/ /\ IsoRoute(fs, TRUE)
                /\ Continue(Iso([op EXCEPT !.sent = TRUE], IsoOpen \o WriteAll))
             \/ /\ ~IsoRoute(fs, TRUE) /\ RouteKey(fs, TRUE) # NoKey
                /\ Continue(Keyed(op, RouteKey(fs, TRUE), WriteAll))
      [] op.want = "change" ->
             IF ChangeKeyFor(fs) = NoKey THEN Report(FALSE)
             ELSE Continue(Keyed(op, ChangeKeyFor(fs), <<"change">>))
      [] op.want = "lock" ->
             \/ Report(FALSE)
             \/ /\ ChangeKeyFor(fs) # NoKey
                /\ Continue(Ask([op EXCEPT !.want = "change", !.plan = Locked(fs)],
                                "settings", t'.session))

(***************************** Beginning *****************************)

AnyPlan == CHOOSE p \in Plans : TRUE

\* What an operation reads the settings for at first.
FirstWant(kind) ==
    CASE kind = "sdm" -> "write"
      [] kind \in {"read", "write", "writable", "change", "lock"} -> kind
      [] OTHER -> "none"

New(kind, want, m, p, n) ==
    [kind |-> kind, want |-> want, msg |-> m, plan |-> p, n |-> n, sent |-> FALSE,
     was |-> IF kind \in {"sdm", "lock"} THEN [file |-> card.file, set |-> card.set] ELSE NoWord,
     stage |-> "keyed", key |-> NoKey, body |-> <<>>, steps |-> <<>>, again |-> FALSE,
     outer |-> [key |-> NoKey, body |-> <<>>, steps |-> <<>>]]

\* The stage an operation opens with.  ReadSig takes the session there is, or
\* any key held.
Opening(o, session) ==
    CASE o.kind = "version" -> Ask(o, "version", session)
      [] o.kind = "key" -> [Keyed(o, 0, <<"key">>) EXCEPT
                               !.steps = (IF o.n = 0 THEN <<>> ELSE <<"old">>) \o @]
      [] o.kind = "lrp" -> Keyed(o, 0, <<"lrp">>)
      [] o.kind = "sig" -> Keyed(o, IF session # NoKey THEN session ELSE Least(AnyHeld), <<"sig">>)
      [] o.kind = "uid" -> [o EXCEPT !.body = <<"told">>, !.steps = <<"told">>]
      [] OTHER -> Ask(o, "settings", session)

\* An operation on the card: write and lock, the reads, and the card's own
\* commands.  A phone's is begun by a driver of its own.
Begin ==
    /\ op = Idle /\ ops < MaxOps /\ ops' = ops + 1
    /\ t' = IF phone THEN Fresh(t.keys) ELSE t
    /\ \E kind \in Kinds, m \in Msgs \ {Old}, p \in Plans, n \in KeyNos :
         /\ kind \notin {"write", "sdm"} => m = CHOOSE x \in Msgs \ {Old} : TRUE
         /\ CASE kind = "sdm" -> p.sdm [] kind = "change" -> TRUE [] OTHER -> p = AnyPlan
         /\ IF kind = "key" THEN Holds(n) ELSE n = 0
         /\ kind = "sig" => t'.session # NoKey \/ AnyHeld # {}
         /\ op' = Opening(New(kind, FirstWant(kind), m, p, n), t'.session)
    /\ last' = NoWord
    /\ UNCHANGED <<card, phone, faults, foreign, sets, history>>

(***************************** Between exchanges *****************************)

Refused(n) ==
    IF (t.lrp /\ ~t.keys.lrp) \/ t.delayed THEN "other" ELSE t.failed[n]

AuthSteps == IF t.lrp THEN <<"select", "lrp1", "auth2">> ELSE <<"select", "auth1", "auth2">>

\* A failed resolve is remembered, so the UID is asked for once.
Remember(d, e) ==
    IF op.stage = "resolve" /\ e # "removed" THEN [d EXCEPT !.resolved = e] ELSE d

\* The real UID is asked for under a key that does not derive from it; the
\* step that needed it is taken again once it is known.
Resolve ==
    IF t.resolved # "no" THEN Fail(t.resolved) /\ UNCHANGED t
    ELSE IF Resolvers = {} THEN Fail("other") /\ t' = [t EXCEPT !.resolved = "other"]
    ELSE /\ Continue([op EXCEPT !.stage = "resolve", !.key = Least(Resolvers),
                                !.body = <<"uid">>, !.steps = <<"enter", "uid">>,
                                !.outer = [key |-> op.key, body |-> op.body, steps |-> op.steps]])
         /\ UNCHANGED t

\* authenticate, up to what it sends.
Enter ==
    IF t.session = op.key THEN Continue([op EXCEPT !.steps = op.body]) /\ UNCHANGED t
    ELSE IF Refused(op.key) # "no"
    THEN Fail(Refused(op.key)) /\ t' = Remember(t, Refused(op.key))
    ELSE IF NeedsReal(op.key) THEN Resolve
    ELSE IF ~Holds(op.key) THEN Fail("other") /\ t' = Remember(t, "other")
    ELSE /\ Continue([op EXCEPT !.steps = AuthSteps \o op.body])
         /\ t' = [t EXCEPT !.session = NoKey]

\* The tap read back verifies under the keys held: the message whole, SDM on,
\* the key the card's own.
TapVerifies ==
    /\ card.file = [nlen |-> 1, c1 |-> op.msg, c2 |-> op.msg]
    /\ card.set.sdm /\ KeyFor(op.plan.tapKey) = card.key[op.plan.tapKey]

Local ==
    /\ op # Idle
    /\ \/ Doing = "enter" /\ Enter
       \/ /\ Doing = "old"
          /\ IF NeedsReal(op.n) THEN Resolve
             ELSE Continue([op EXCEPT !.steps = Tail(@)]) /\ UNCHANGED t
       \/ /\ Doing = "verify"
          /\ IF NeedsReal(op.plan.tapKey) THEN Resolve ELSE Report(TapVerifies) /\ UNCHANGED t
       \/ /\ Doing = "told"
          /\ IF card.random /\ ~t.real THEN Resolve ELSE Report(TRUE) /\ UNCHANGED t
    /\ UNCHANGED <<card, bounds, history>>

(***************************** One exchange *****************************)

Lost == {"AE", "1E", "7E"}

\* How an error reads to settingsDenied.  GetCardUID's answer is not examined
\* for its status.
Class(a) ==
    IF a = "removed" THEN "removed"
    ELSE IF a \in {"AE", "9D"} /\ Doing # "uid" THEN "denied" ELSE "other"

\* What the card answers to the step.
Asked ==
    CASE Doing = "select"  -> IsoSelect(card, "app")
      [] Doing = "selCC"   -> IsoSelect(card, "cc")
      [] Doing = "selNdef" -> IsoSelect(card, "ndef")
      [] Doing = "readCC"  -> IsoRead(card)
      [] Doing \in {"auth1", "lrp1"} -> AuthFirst(card, op.key)
      [] Doing = "auth2"   -> AuthSecond(card, KeyFor(op.key))
      [] Doing = "settings" -> Plainly(card, InSession, SettingsOpen(card.set))
      [] Doing = "version" -> Plainly(card, InSession, TRUE)
      [] Doing \in {"nlen", "part"} -> IF InSession THEN ReadData(card) ELSE IsoRead(card)
      [] Doing \in {"clear", "chunk1", "chunk2", "length"} ->
             IF InSession THEN WriteData(card, Doing, op.msg) ELSE IsoUpdate(card, Doing, op.msg)
      [] Doing = "change"  -> ChangeFileSettings(card, op.plan)
      [] Doing = "key"     -> ChangeKey(card, op.n, KeyFor(op.n), "new")
      [] Doing = "lrp"     -> SetLRP(card)
      [] Doing \in {"uid", "sig"} -> Tell(card)

Onward == [Noted EXCEPT !.steps = Tail(@)]

ForgetRefusal(a) == IF a = "AD" THEN [t EXCEPT !.delayed = TRUE] ELSE t

AuthRefused(a) ==
    IF a = "AD" THEN [t EXCEPT !.delayed = TRUE] ELSE [t EXCEPT !.failed[op.key] = Class(a)]

\* An answer to a step of authenticate: a refusal is remembered with its key,
\* a delay for every key, a lost exchange not at all.
Authenticated(a) ==
    CASE a \in {"fault", "removed"} -> Fail(Class(a)) /\ t' = Remember(t, Class(a))
      [] a \in {"ok", "af"} \/ (a = "lrp" /\ Doing = "lrp1") ->
             /\ Continue(Onward)
             /\ t' = IF Doing = "auth2" THEN [t EXCEPT !.session = op.key] ELSE t
      [] a = "lrp" /\ Doing = "auth1" ->
             IF t.keys.lrp
             THEN /\ Continue([op EXCEPT !.steps = <<"lrp1">> \o Tail(@)])
                  /\ t' = [t EXCEPT !.lrp = TRUE]
             ELSE Fail("other") /\ t' = Remember([t EXCEPT !.lrp = TRUE], "other")
      [] OTHER ->
             /\ Fail(Class(a))
             /\ t' = Remember(AuthRefused(a), Class(a))

\* What the last answer of a stage settles.
After ==
    CASE Doing = "settings" -> UNCHANGED t /\ Settled
      [] Doing = "uid" -> /\ t' = [t EXCEPT !.real = TRUE]
                          /\ Continue([op EXCEPT !.stage = "keyed", !.key = op.outer.key,
                                                 !.body = op.outer.body, !.steps = op.outer.steps])
      [] Doing = "key" -> /\ t' = IF op.n = op.key THEN [t EXCEPT !.session = NoKey] ELSE t
                          /\ Done
      [] Doing = "lrp" -> t' = [t EXCEPT !.session = NoKey, !.lrp = TRUE] /\ Done
      [] OTHER -> UNCHANGED t /\ Done

\* An error in the body drops the session.  A session the card lost is opened
\* once more and the body begun again; GetCardUID's is not.
Failed(a) ==
    /\ t' = Remember([t EXCEPT !.session = NoKey], Class(a))
    /\ IF op.stage = "keyed" /\ op.again /\ a \in Lost
       THEN Continue([Noted EXCEPT !.again = FALSE, !.steps = <<"enter">> \o op.body])
       ELSE IF op.stage = "held" /\ a \in Lost THEN Continue(Ask(op, Doing, NoKey))
       ELSE IF op.stage = "plain" /\ Doing = "settings" /\ a = "AE" /\ Holds(0)
       THEN Continue(Keyed(op, 0, <<"settings">>))
       ELSE Fail(Class(a))

Answered(a) ==
    IF a # "ok" THEN Failed(a)
    ELSE IF Doing = "nlen" /\ card.file.nlen = 0 THEN Report(FALSE) /\ UNCHANGED t
    ELSE IF Len(op.steps) > 1 THEN Continue(Onward) /\ UNCHANGED t
    ELSE After

Handle(a) == IF InAuth THEN Authenticated(a) ELSE Answered(a)

\* The card refuses a key that is not its own.
Wrongly(n) == (IF Derived(n) THEN "real" ELSE t.keys.of[n]) # card.key[n]
Refuses    == Asked.card.fails > card.fails /\ Wrongly(op.key)

\* Other clients of a phone have selected the CC file and opened a session with
\* key 0 since a plain write selected the NDEF file: its next update of the
\* length goes into the CC file and is answered with success.  What the driver
\* then reports is not so, and the model follows the write no further.
Diverted ==
    ~InSession /\ Doing \in {"clear", "length"} /\ IntoCC(card, Doing)

\* A step is sent and answered; or it is lost, or its answer is, or the card is
\* gone.  A lost answer leaves the card's counter ahead of the driver's.
Exchange ==
    /\ op # Idle /\ Doing \notin {"enter", "old", "verify", "told"} /\ ~Diverted
    /\ \/ /\ card' = Asked.card /\ Handle(Asked.ans)
          /\ refused' = IF Refuses THEN refused \cup {<<sets, op.key>>} ELSE refused
          /\ UNCHANGED <<faults, unheard>>
       \/ /\ faults < MaxFaults /\ faults' = faults + 1 /\ UNCHANGED refused
          /\ \/ card' = card /\ Handle("fault") /\ UNCHANGED unheard
             \/ /\ card' = [Asked.card EXCEPT !.ours = FALSE] /\ Handle("fault")
                /\ unheard' = IF Refuses THEN unheard + 1 ELSE unheard
             \/ card' = NewPresentation(card) /\ Handle("removed") /\ UNCHANGED unheard
    /\ UNCHANGED <<phone, foreign, sets, ops>>

(***************************** Around the operations *****************************)

\* The agent's keys change: what was learned under the old ones is forgotten.
SetKeys ==
    /\ op = Idle /\ sets < MaxSets
    /\ \E ks \in KeySets \ {t.keys} :
           t' = [t EXCEPT !.keys = ks, !.session = NoKey, !.delayed = FALSE, !.resolved = "no",
                          !.failed = [n \in KeyNos |-> "no"]]
    /\ sets' = sets + 1 /\ last' = NoWord
    /\ UNCHANGED <<card, op, phone, faults, foreign, ops, history>>

\* The card is taken away and presented again: a new tag, a new driver.
Present ==
    /\ op = Idle /\ sets < MaxSets
    /\ card' = NewPresentation(card) /\ t' = Fresh(t.keys)
    /\ sets' = sets + 1 /\ last' = NoWord
    /\ UNCHANGED <<op, phone, faults, foreign, ops, history>>

\* Another client's raw exchange.  A reader's goes through the tag, between
\* operations, and drops the session first.
Foreign ==
    /\ foreign < MaxForeign /\ foreign' = foreign + 1
    /\ op = Idle \/ phone
    /\ t' = IF phone THEN t ELSE [t EXCEPT !.session = NoKey]
    /\ card' \in {IsoSelect(card, "app").card, IsoSelect(card, "cc").card, DropSession(card)}
                 \cup {[card EXCEPT !.sess = n, !.ours = FALSE, !.pend = NoKey] : n \in KeyNos}
    /\ last' = NoWord
    /\ UNCHANGED <<op, phone, faults, sets, ops, history>>

Next == Begin \/ Local \/ Exchange \/ SetKeys \/ Present \/ Foreign

Spec == Init /\ [][Next]_vars

(***************************** Properties *****************************)

Whole(m) == card.file = [nlen |-> 1, c1 |-> m, c2 |-> m]

\* The NDEF file reads as one message or as none, wherever a write is cut short
\* and however often it is begun again: WriteData clears the length first and
\* sets it last.
NeverMixed == card.file.nlen = 1 => card.file.c1 = card.file.c2

\* What an operation reports is so of the card: a success is its effect, and a
\* failed ConfigureSDM that names how far it came (ntag424_budget.go:136-156)
\* names what the card holds, whatever was lost or began again on the way.  A
\* lock leaves a reader where there was one.
ReportIsTrue ==
    last # NoWord =>
        CASE last.kind = "write" /\ last.ok -> Whole(last.msg)
          [] last.kind \in {"change", "lock"} /\ last.ok ->
                 /\ card.set = last.plan
                 /\ last.kind = "lock" =>
                        /\ {card.set.write, card.set.rw} = {Never}
                        /\ Rights(last.was.set, FALSE) # {Never} => card.set.read # Never
          [] last.kind = "key" /\ last.ok -> card.key[last.n] = "new"
          [] last.kind = "lrp" /\ last.ok -> card.lrp
          [] last.kind = "sdm" /\ last.ok -> Whole(last.msg) /\ card.set = last.plan
          [] last.state = "configured unverified" -> Whole(last.msg) /\ card.set = last.plan
          [] last.state = "ndef written" -> Whole(last.msg) /\ card.set = last.was.set
          [] OTHER -> TRUE

\* On a reader the driver spends at most one of the card's failed
\* authentications on a key while the keys and the card stay, but for refusals
\* that were lost on the way; and none at all on a card the keys are right for,
\* random UID included (authRefused, keyFor, resolveUID).
LockoutBounded ==
    ~phone => card.fails <= Cardinality(refused) + unheard

\* A ConfigureSDM that says nothing was written left the file as it was
\* (SDMNothingWritten, "the failure came before any write was sent").
NothingWritten ==
    last # NoWord /\ last.state = "nothing written" => card.file = last.was.file

=============================================================================
