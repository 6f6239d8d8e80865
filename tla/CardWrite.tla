----------------------------- MODULE CardWrite -----------------------------
(* Writing and locking a card on a reader: WriteMessage and lockCard          *)
(* (nfc/write_and_lock.go, nfc/reader.go) through the drivers of              *)
(* nfc/tag_ntag.go, tag_ultralight.go, tag_classic.go, tag_classic_format.go, *)
(* tag_iso14443.go and tag_desfire.go, over the cards of EmulatedCards and a  *)
(* link that loses commands and answers, disturbs them, and loses the card.   *)
(*                                                                            *)
(* A call of a driver is the sequence of its commands: "todo" are those left. *)
(* Three of them send nothing: "fit" compares the message with the room the   *)
(* driver knows of, "enter" is the choice the DESFire driver makes once it    *)
(* has asked for the file's rights, "cannot" is what it does not implement.   *)
(* The stages of an operation are                                             *)
(* "resolve" (ReadMessage of resolveWriteMessage), "write" (writeOnce),       *)
(* "verify" (verifyWrite) and "lock" (MakeReadOnly).                          *)
EXTENDS EmulatedCards

CONSTANTS Provisioned,  \* the cards that may be presented, each with "held":
                        \* whether the agent has the key a DESFire right names
          Requests,     \* the operations asked for
          Candidates,   \* the Classic keys configured besides the defaults
          MaxFaults,    \* commands and answers lost or disturbed, and removals
          MaxOps        \* operations

\* over: by how many bytes the message exceeds the room its profile reports.
Operations ==
    [kind : {"write", "lock"}, msg : Messages, overwrite : BOOLEAN, replace : BOOLEAN, verify : BOOLEAN,
     lock : BOOLEAN, force : BOOLEAN, over : Int, unchecked : BOOLEAN, attempts : Nat \ {0}]

\* No card is presented half locked: the drivers look at the static lock bytes
\* alone, which are the last a lock sets.
NotHalfLocked(c) == c.static => \A i \in Cells : LockedPage(c, i)

ASSUME ChunksAssumption == Chunks \in Nat \ {0}
ASSUME ProvisionedAssumption ==
    \A p \in Provisioned :
        /\ p.held \in BOOLEAN
        /\ p.card \in Cards
        /\ Family(p.card.kind) = "page" => NotHalfLocked(p.card)
ASSUME RequestsAssumption ==
    \A r \in Requests : r \in Operations /\ r.msg \notin {Blank, Garbage}
ASSUME KeysAssumption == {"factory", "forum", "mad"} \subseteq Keys /\ Candidates \in Seq(Keys)

VARIABLES card, drv, present, stage, todo, heard, task, last, faults, ops
writeVars == <<card, drv, present, stage, todo, heard, task, last, faults, ops>>

\* The driver's memory, which lasts as long as the card is present: what a
\* DESFire said of its file, and the session, "adrift" once the place the
\* driver has it at is not the card's.
Fresh(held) == [held |-> held, probed |-> FALSE, rights |-> [r \in {} |-> ""], session |-> "none"]

Idle   == [kind |-> "none"]
NoWord == [result |-> "none"]

Reading == stage \in {"resolve", "verify"}

WriteInit ==
    /\ \E p \in Provisioned : card = p.card /\ drv = Fresh(p.held)
    /\ present = TRUE /\ stage = "idle" /\ todo = << >> /\ heard = << >>
    /\ task = Idle /\ last = NoWord /\ faults = 0 /\ ops = 0

(***************************** Room *****************************)

\* Bytes: what the profile reports (0 for a Type 4 tag, which reports none),
\* and the room the driver has.  The TLV adds 3 bytes, 5 to a long message.
Reported(kind) ==
    CASE kind = "NTAG213"     -> 144  [] kind = "NTAG215"       -> 504
      [] kind = "NTAG216"     -> 888  [] kind = "Ultralight"    -> 46
      [] kind = "UltralightC" -> 137  [] kind = "UltralightEV1" -> 126
      [] kind = "Classic"     -> 716  [] kind = "Type4"         -> 0
      [] kind \in DESFires    -> 254

Pages(kind) ==
    CASE kind = "NTAG213"     -> 36   [] kind = "NTAG215"       -> 126
      [] kind = "NTAG216"     -> 222  [] kind = "Ultralight"    -> 12
      [] kind = "UltralightC" -> 36   [] kind = "UltralightEV1" -> 32

TLVSize(bytes) == bytes + (IF bytes < 255 THEN 3 ELSE 5)

Bytes == Reported(card.kind) + task.req.over

\* A message of more records than the area has cells for is over it too.
TooLarge ==
    \/ Need(task.data) > Chunks
    \/ CASE Family(card.kind) = "page"    -> (TLVSize(Bytes) + 3) \div 4 > Pages(card.kind)
         [] Family(card.kind) = "classic" -> (TLVSize(Bytes) + 15) \div 16 > 45
         [] OTHER                         -> task.req.over > 0

\* checkWriteCapacity
PreflightRefuses(m) ==
    /\ ~task.req.unchecked
    /\ card.kind # "Type4"
    /\ Need(m) > Chunks \/ task.req.over > 0

(***************************** The drivers' commands *****************************)

Read(i)     == [ins |-> "read", at |-> i]
Write(i, m) == [ins |-> "write", at |-> i, msg |-> m]
ReadLock(which) == [ins |-> "readLock", at |-> which]
Fit         == [ins |-> "fit"]
Enter       == [ins |-> "enter"]
Cannot      == [ins |-> "cannot"]

\* authenticateSector: every key, as A and then as B.
KeysToTry     == Candidates \o <<"factory", "forum", "mad">>
Auth(s, keys) == [ins |-> "auth", at |-> s, key |-> Head(keys), asB |-> FALSE, rest |-> Tail(keys)]

Opening(s)       == Auth(s, KeysToTry)
TrailerTo(s, to) == [ins |-> "trailer", at |-> s, to |-> to]

Select == <<[ins |-> "selectApp"], [ins |-> "selectFile", at |-> "cc"], [ins |-> "readCC"],
            [ins |-> "selectFile", at |-> "ndef"]>>

\* The select, probe, and the choice that waits for its answers.
Probe == IF drv.probed THEN <<[ins |-> "select"], Enter>> ELSE <<[ins |-> "select"], [ins |-> "settings"], Enter>>

ReadCells     == [i \in Cells |-> Read(i)]
WriteCells(m) == [i \in 1..Need(m) |-> Write(i, m)]

\* A sector at a time, each authenticated first.
ReadSectors     == [k \in 1..2 * Chunks |-> IF k % 2 = 1 THEN Opening((k + 1) \div 2) ELSE Read(k \div 2)]
WriteSectors(m) == [k \in 1..2 * Need(m) |-> IF k % 2 = 1 THEN Opening((k + 1) \div 2) ELSE Write(k \div 2, m)]

ReadData ==
    CASE Family(card.kind) = "page"    -> ReadCells
      [] Family(card.kind) = "classic" -> ReadSectors
      [] Family(card.kind) = "type4"   -> Select \o ReadCells
      [] Family(card.kind) = "desfire" -> Probe

\* A Type 4 file's NLEN is cleared first and written last.
ClearedWrite(m) ==
    <<Write(1, Blank)>> \o [i \in 1..Len(m) |-> Write(i + 1, m)] \o <<Write(1, m)>>

WriteData(m) ==
    CASE Family(card.kind) = "page"    -> <<ReadLock("static"), Fit>> \o WriteCells(m)
      [] Family(card.kind) = "classic" ->
           <<Fit>> \o WriteSectors(m)
      [] Family(card.kind) = "type4"   -> Select \o <<Fit>> \o ClearedWrite(m)
      [] Family(card.kind) = "desfire" -> Probe

\* formatAndWriteNDEF: every sector is authenticated before any is written.
Preflight == [k \in 1..Chunks + 1 |-> Opening(k - 1)]

\* Then each in turn is opened, filled, and given its trailer.
FormatSectors(m) ==
    [k \in 1..3 * (Chunks + 1) |->
        LET s == (k - 1) \div 3 IN
        CASE k % 3 = 1 -> Opening(s)
          [] k % 3 = 2 -> Write(s, IF s \in 1..Need(m) THEN m ELSE Blank)
          [] k % 3 = 0 -> TrailerTo(s, IF s = 0 THEN "mad" ELSE "ndef")]

\* mutant: each sector authenticated as it is written, no sooner
FormatAtOnce(m) == <<Fit>> \o FormatSectors(m)

Format(m) == <<Fit>> \o Preflight \o FormatSectors(m)

\* writeOnce: ForceInitialize is for a tag that is an AdvancedWriter.
WriteOnce(m) == IF task.req.force /\ card.kind = "Classic" THEN Format(m) ELSE WriteData(m)

LockBytes(which) == <<ReadLock(which), [ins |-> "setLock", at |-> which]>>

\* The dynamic lock bytes first: the static ones are what a write looks at.
MakeReadOnly ==
    CASE Family(card.kind) = "page"    ->
           IF HasDynamic(card.kind) THEN LockBytes("dynamic") \o LockBytes("static") ELSE LockBytes("static")
      [] Family(card.kind) = "desfire" -> Probe

CanLock == Family(card.kind) \in {"page", "desfire"} /\ card.kind # "UltralightEV1"

(***************************** One command *****************************)

\* What a command leaves of the call: the driver, the commands left, what it
\* has read, and how it ended, if it did.
Onward(d, rest) ==
    [drv |-> d, todo |-> rest, heard |-> heard, end |-> IF rest = << >> THEN "ok" ELSE "none"]
EndsWith(d, h, how) == [drv |-> d, todo |-> << >>, heard |-> h, end |-> how]

Trouble(how) == IF how = "gone" THEN "gone" ELSE "failed"
Fails(d, how) == EndsWith(d, heard, Trouble(how))

\* A read that stops early keeps what it has, if it has any.
CutShort(d, how) == IF how # "gone" /\ heard # << >> THEN EndsWith(d, heard, "ok") ELSE Fails(d, how)

\* What was read is a message once its every cell holds it.  A write that was
\* cut short is none, and neither is a card's first use.
Found(h) ==
    IF h = << >> \/ Head(h) \in {Blank, Garbage} \/ Len(h) < Need(Head(h)) THEN Blank
    ELSE IF \A i \in 1..Need(Head(h)) : h[i] = Head(h) THEN Head(h) ELSE Garbage

\* A file is read as far as its length says, a Classic until the message is
\* whole, pages to the end.
ReadEnough(h) == Family(card.kind) # "page" /\ (Head(h) = Blank \/ Len(h) >= Need(Head(h)))

HeardCell(d, v, rest) ==
    LET h == Append(heard, v)
    IN  IF rest = << >> \/ ReadEnough(h) THEN EndsWith(d, h, "ok")
        ELSE [Onward(d, rest) EXCEPT !.heard = h]

PageReacts(cmd, how, v, rest) ==
    CASE Reading -> IF how = "ok" THEN HeardCell(drv, v, rest) ELSE CutShort(drv, how)
      [] stage = "write" /\ cmd.ins = "readLock" ->        \* an error is left to the writes
           IF how = "ok" /\ v THEN EndsWith(drv, heard, "readOnly") ELSE Onward(drv, rest)
      [] OTHER -> IF how = "ok" THEN Onward(drv, rest) ELSE Fails(drv, how)

ClassicReacts(cmd, how, v, rest) ==
    CASE how = "ok" -> IF cmd.ins = "read" THEN HeardCell(drv, v, rest) ELSE Onward(drv, rest)
      [] how = "refused" /\ cmd.ins = "auth" /\ ~cmd.asB ->
           Onward(drv, <<[cmd EXCEPT !.asB = TRUE]>> \o rest)
      [] how \in {"refused", "error"} /\ cmd.ins = "auth" /\ (how = "error" \/ cmd.asB) /\ cmd.rest # << >> ->
           Onward(drv, <<Auth(cmd.at, cmd.rest)>> \o rest)
      [] OTHER -> IF Reading THEN CutShort(drv, how) ELSE Fails(drv, how)

FileReacts(cmd, how, v, rest) ==
    CASE how = "ok" -> IF Reading /\ cmd.ins = "read" THEN HeardCell(drv, v, rest) ELSE Onward(drv, rest)
      [] OTHER -> Fails(drv, how)

\* A command goes in the session where the right it needs names a key.
RightFor(ins) == CASE ins = "read" -> "read" [] ins = "write" -> "write" [] ins = "change" -> "change"
Keyed(cmd) ==
    cmd.ins \in {"read", "write", "change"} /\ drv.probed /\ drv.rights[RightFor(cmd.ins)] # "free"

\* An EV1 session chains a MAC over every command and answer, an EV2 one counts
\* the commands answered.  An EV1 one is left behind by a change sent plainly.
\* executed: the card answered a command in the session, whoever heard it.
Slipped(cmd, how, executed) ==
    /\ drv.session = "open"
    /\ \/ Keyed(cmd) /\ how # "ok" /\ (executed \/ card.kind = "DESFireEV1")
       \/ cmd.ins = "change" /\ ~Keyed(cmd)
DriverAfter(cmd, how, executed) ==
    IF Slipped(cmd, how, executed) THEN [drv EXCEPT !.session = "adrift"] ELSE drv

DesfireReacts(cmd, how, v, executed, rest) ==
    LET d == DriverAfter(cmd, how, executed)
        taken == how = "ok" /\ ~(card.kind = "DESFireEV1" /\ Keyed(cmd) /\ drv.session = "adrift")
        shut == [d EXCEPT !.rights.write = "never", !.rights.change = "never"]
    IN  CASE cmd.ins = "settings" ->
               Onward(IF taken THEN [d EXCEPT !.probed = TRUE, !.rights = v] ELSE d, rest)
          [] cmd.ins # "settings" /\ taken ->
               (CASE cmd.ins = "read"   -> HeardCell(d, v, rest)
                  [] cmd.ins = "auth2"  -> Onward([d EXCEPT !.session = "open"], rest)
                  [] cmd.ins = "change" -> Onward(shut, rest)
                  [] OTHER              -> Onward(d, rest))
          [] cmd.ins = "select" /\ ~taken /\ stage = "lock" -> EndsWith(d, heard, "notSupported")
          [] cmd.ins \in {"select", "auth1", "auth2"} /\ ~taken /\ Reading ->   \* no payload
               EndsWith(d, heard, "failed")
          [] OTHER -> Fails(d, how)

Reacts(cmd, how, v, executed) ==
    LET rest == Tail(todo) IN
    CASE Family(card.kind) = "page"    -> PageReacts(cmd, how, v, rest)
      [] Family(card.kind) = "classic" -> ClassicReacts(cmd, how, v, rest)
      [] Family(card.kind) = "type4"   -> FileReacts(cmd, how, v, rest)
      [] Family(card.kind) = "desfire" -> DesfireReacts(cmd, how, v, executed, rest)

(***************************** What sends nothing *****************************)

\* The room: a Type 4 file's is known and a format checks it first, the others
\* refuse without saying that it is the room.
Fitted ==
    IF ~TooLarge THEN Onward(drv, Tail(todo))
    ELSE EndsWith(drv, heard,
                  IF Family(card.kind) = "type4" \/ task.req.force THEN "capacity" ELSE "failed")

\* openFor and authenticate: the session at hand, or a new one.
InSession(cmds) ==
    (IF drv.session = "none" THEN <<[ins |-> "auth1"], [ins |-> "auth2"]>> ELSE << >>) \o cmds

Entry(right, cmds) ==
    IF ~drv.probed \/ drv.rights[right] = "free" THEN cmds ELSE InSession(cmds)

Mine(right) == drv.rights[right] = "free" \/ (drv.rights[right] = "key" /\ drv.held)

Change == IF drv.rights.change = "key" /\ card.kind = "DESFireEV1"
          THEN <<Cannot>> ELSE <<[ins |-> "change"]>>

Entered ==
    CASE Reading ->
           IF drv.probed /\ ~Mine("read") THEN EndsWith(drv, heard, "failed")
           ELSE Onward(drv, Entry("read", ReadCells))
      [] stage = "write" ->
           IF drv.probed /\ ~Mine("write") THEN EndsWith(drv, heard, "readOnly")
           ELSE IF drv.probed /\ TooLarge THEN EndsWith(drv, heard, "capacity")
           ELSE Onward(drv, Entry("write", WriteCells(task.data)))
      [] stage = "lock" ->
           IF ~drv.probed \/ ~Mine("change") THEN EndsWith(drv, heard, "notSupported")
           ELSE Onward(drv, Entry("change", Change))

(***************************** The operation *****************************)

\* What the caller is told.  sure: the write was verified.  met: the faults the
\* operation met.  fits: the driver had room for the message.  sound: the card
\* was, when the operation began.
Report(result, m, sure, locked) ==
    /\ stage' = "idle" /\ todo' = << >> /\ heard' = << >> /\ task' = Idle
    /\ last' = [kind |-> task.req.kind, result |-> result, data |-> m, sure |-> sure, locked |-> locked,
                attempts |-> task.req.attempts, met |-> faults' - task.from, fits |-> ~TooLarge,
                sound |-> task.sound]

Starts(name, cmds, o) ==
    /\ stage' = name /\ todo' = cmds /\ heard' = << >> /\ task' = o
    /\ UNCHANGED last

\* resolveWriteMessage: a card that cannot be read is overwritten.  A card of
\* half a message may parse as one.
Merge(old) == IF task.req.replace THEN task.req.msg \o Tail(old) ELSE old \o task.req.msg
Resolved(end, h) ==
    LET old == IF end = "ok" THEN Found(h) ELSE Blank IN
    IF task.req.overwrite \/ old = Blank THEN {task.req.msg}
    ELSE {Merge(old)} \cup (IF old = Garbage THEN {task.req.msg} ELSE {})

AfterResolve(end, h) ==
    \E m \in Resolved(end, h) :
        IF PreflightRefuses(m) THEN Report("capacity", m, FALSE, FALSE)
        ELSE Starts("write", WriteOnce(m), [task EXCEPT !.data = m, !.attempt = 1])

RetriesReadOnly == {"gone", "notSupported", "capacity"}   \* mutant: a locked card is tried again

Permanent == {"gone", "readOnly", "notSupported", "capacity"}

Retry ==
    IF task.attempt < task.req.attempts
    THEN Starts("write", WriteOnce(task.data), [task EXCEPT !.attempt = @ + 1])
    ELSE Report("failed", task.data, FALSE, FALSE)

\* WriteMessage: lockCard once the write is a success.
Succeed(sure) ==
    CASE ~task.req.lock             -> Report("success", task.data, sure, FALSE)
      [] task.req.lock /\ ~CanLock -> Report("notLocked", task.data, sure, FALSE)
      [] task.req.lock /\ CanLock  -> Starts("lock", MakeReadOnly, [task EXCEPT !.sure = sure])

AfterWrite(end) ==
    CASE end = "ok"           -> IF task.req.verify THEN Starts("verify", ReadData, task) ELSE Succeed(FALSE)
      [] end \in Permanent    -> Report(end, task.data, FALSE, FALSE)
      [] OTHER                -> Retry

AnythingRead(end, h) == end = "ok"   \* mutant: that it could be read at all

VerifyWrite(end, h) == end = "ok" /\ Found(h) = task.data

AfterVerify(end, h) ==
    CASE VerifyWrite(end, h) -> Succeed(TRUE)
      [] end = "gone"        -> Report("gone", task.data, FALSE, FALSE)
      [] OTHER               -> Retry

AfterLock(end) ==
    CASE end = "ok"                             -> Report("success", task.data, task.sure, TRUE)
      [] end # "ok" /\ task.req.kind = "lock"    -> Report(end, task.data, FALSE, FALSE)
      [] end # "ok" /\ task.req.kind = "write"   -> Report("notLocked", task.data, task.sure, FALSE)

Advance(s) ==
    /\ drv' = s.drv
    /\ CASE s.end = "none" -> todo' = s.todo /\ heard' = s.heard /\ UNCHANGED <<stage, task, last>>
         [] s.end # "none" /\ stage = "resolve" -> AfterResolve(s.end, s.heard)
         [] s.end # "none" /\ stage = "write"   -> AfterWrite(s.end)
         [] s.end # "none" /\ stage = "verify"  -> AfterVerify(s.end, s.heard)
         [] s.end # "none" /\ stage = "lock"    -> AfterLock(s.end)

(***************************** The card's soundness *****************************)

\* Nothing of the NDEF area can be written any more.
WhollyLocked ==
    CASE Family(card.kind) = "page"    -> \A i \in Cells : LockedPage(card, i)
      [] Family(card.kind) = "desfire" -> card.rights.write = "never"
      [] OTHER                         -> FALSE

\* A card nothing is wrong with: not half locked, not storing inverted bytes, no
\* sector of foreign keys, and nothing withheld (now, or when the driver asked):
\* a file that may never be read, or only with a key.
Withheld(rights) ==
    \E r \in DOMAIN rights : rights[r] = "key" \/ (r = "read" /\ rights[r] = "never")
Sound ==
    CASE Family(card.kind) = "page"    -> ~card.corrupt /\ (WhollyLocked \/ \A i \in Cells : ~LockedPage(card, i))
      [] Family(card.kind) = "classic" -> \A s \in DOMAIN card.trailers :
                                              card.trailers[s] \in {Factory, Formats.mad, Formats.ndef}
      [] Family(card.kind) = "type4"   -> TRUE
      [] Family(card.kind) = "desfire" -> ~Withheld(card.rights) /\ ~Withheld(drv.rights)

(***************************** Actions *****************************)

Choosing == {"fit", "enter", "cannot"}

\* WriteMessageWithResult and LockCardExpecting, once they hold the card.
Begin(r) ==
    LET o == [req |-> r, data |-> Blank, attempt |-> 0, sure |-> FALSE, from |-> faults, sound |-> Sound] IN
    /\ stage = "idle" /\ present /\ ops < MaxOps
    /\ r.force => card.kind = "Classic"
    /\ ops' = ops + 1
    /\ task' = o /\ heard' = << >> /\ last' = NoWord
    /\ IF r.kind = "write" THEN stage' = "resolve" /\ todo' = ReadData
       ELSE CanLock /\ stage' = "lock" /\ todo' = MakeReadOnly
    /\ UNCHANGED <<card, drv, present, faults>>

\* A command sent, and its answer heard; or it is lost, or its answer is; or the
\* card takes it for another and refuses it, which only a Classic's driver
\* tells from a loss.
Exchange(how) ==
    LET cmd == Head(todo)
        a == Answer(card, cmd, drv.session = "open")
        executed == present /\ how \in {"heard", "unheard"}
        got == CASE ~present                    -> "gone"
                 [] present /\ how = "heard"   -> a.how
                 [] present /\ how = "nak"     -> "refused"
                 [] OTHER                       -> "error"
    IN  /\ todo # << >> /\ cmd.ins \notin Choosing
        /\ how # "heard" => present /\ faults < MaxFaults
        /\ how = "nak" => card.kind = "Classic"
        /\ faults' = IF how = "heard" THEN faults ELSE faults + 1
        /\ card' = IF executed THEN a.card ELSE card
        /\ Advance(Reacts(cmd, got, a.value, executed /\ a.how = "ok"))
        /\ UNCHANGED <<present, ops>>

\* A choice of the driver's.
Choose(ins) ==
    /\ todo # << >> /\ Head(todo).ins = ins
    /\ faults' = faults
    /\ Advance(CASE ins = "fit"    -> Fitted
                 [] ins = "enter"  -> Entered
                 [] ins = "cannot" -> EndsWith(drv, heard, "failed"))
    /\ UNCHANGED <<card, present, ops>>

\* The card leaves the field while it is being used.
Lifted ==
    /\ stage # "idle" /\ present /\ faults < MaxFaults
    /\ present' = FALSE /\ faults' = faults + 1
    /\ UNCHANGED <<card, drv, stage, todo, heard, task, last, ops>>

\* It is presented again between operations: the device makes a new driver.
Return ==
    /\ stage = "idle" /\ last # NoWord /\ ops < MaxOps
    /\ present' = TRUE /\ card' = Powered(card) /\ drv' = Fresh(drv.held) /\ last' = NoWord
    /\ UNCHANGED <<stage, todo, heard, task, faults, ops>>

WriteNext ==
    \/ \E r \in Requests : Begin(r)
    \/ \E how \in {"heard", "lost", "unheard", "nak"} : Exchange(how)
    \/ \E ins \in Choosing : Choose(ins)
    \/ Lifted
    \/ Return

WriteSpec == WriteInit /\ [][WriteNext]_writeVars

(***************************** Properties *****************************)

\* A write reported verified is on the card, every cell of it: whatever was
\* lost, stored wrong or half written by the attempts before, the card reads as
\* the message that was asked for (verifyWrite, writeMessageToCard).
VerifiedIsThere ==
    last # NoWord /\ last.sure => \A i \in 1..Need(last.data) : card.cells[i] = last.data

\* A card reported locked, or refused as read-only, has no cell left that could
\* be written with the keys at hand: a lock is irreversible, and half of one is
\* neither (MakeReadOnly, ndefAreaLocked, canWrite).  A card that stores its
\* writes inverted is the exception, and only where nobody asked to verify.
LockIsTrue ==
    last # NoWord =>
        /\ last.locked => WhollyLocked \/ (Family(card.kind) = "page" /\ card.corrupt /\ ~last.sure)
        /\ last.result = "readOnly" => WhollyLocked \/ (Family(card.kind) = "desfire" /\ ~drv.held)

\* What a write and a lock report of the card is so (WriteMessageWithResult).
ReportedIsThere == VerifiedIsThere /\ LockIsTrue

\* A write of a message there is room for, to a card that was sound when it
\* began, is given up only after as many faults as it had attempts: a transient
\* failure costs one, it leaves nothing behind that fails the next
\* (writeMessageToCard's retries).
FailureHasFault ==
    last # NoWord /\ last.kind = "write" /\ last.result = "failed" /\ last.sound /\ last.fits =>
        last.met >= last.attempts

\* A format changes a Classic only if every sector of it opens with a key the
\* driver has: an inaccessible card is left as it was (formatAndWriteNDEF).
Opens(t) == \E i \in DOMAIN KeysToTry : KeysToTry[i] \in {t.a, t.b}
FormatPreflighted ==
    [][ stage = "write" /\ task.req.force /\ [card' EXCEPT !.authed = -1, !.asB = FALSE]
                                             # [card EXCEPT !.authed = -1, !.asB = FALSE]
        => \A s \in DOMAIN card.trailers : Opens(card.trailers[s]) ]_writeVars
=============================================================================
