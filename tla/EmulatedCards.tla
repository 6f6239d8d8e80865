--------------------------- MODULE EmulatedCards ---------------------------
(* The emulated cards of nfc/nfctest/emulator.go other than the NTAG 424      *)
(* (Ntag424Card): NTAG and Ultralight pages with their lock bytes, a MIFARE   *)
(* Classic with its sector trailers, an NFC Forum Type 4 file, a DESFire file *)
(* behind access rights.  Answer is the Transceive of each.                   *)
(*                                                                            *)
(* The NDEF area is Chunks cells.  A cell holds the message a chunk of which  *)
(* was written there: the first cell says where the message ends (the TLV     *)
(* length of a paged card, NLEN of a file), so a message fills one cell more  *)
(* than it has records.  On a Classic a cell is the data of one sector.       *)
EXTENDS Integers, Sequences, FiniteSets

CONSTANTS Chunks,   \* the cells of an NDEF area
          Records,  \* the records messages are made of
          Keys      \* the keys of Classic sectors

Blank   == << >>            \* nothing written
Garbage == <<"garbage">>    \* bytes of no message: a write stored inverted

Cells == 1..Chunks
Need(m) == Len(m) + 1

NTAGs       == {"NTAG213", "NTAG215", "NTAG216"}
Ultralights == {"Ultralight", "UltralightC", "UltralightEV1"}
DESFires    == {"DESFireEV1", "DESFireEV2"}
Family(kind) ==
    CASE kind \in NTAGs \cup Ultralights -> "page"
      [] kind = "Classic"                -> "classic"
      [] kind = "Type4"                  -> "type4"
      [] kind \in DESFires               -> "desfire"

\* An answer: the card it leaves, how it went, and what it carries.
Says(c, v) == [card |-> c, how |-> "ok", value |-> v]
Accepts(c) == Says(c, Blank)
Refuses(c) == [card |-> c, how |-> "refused", value |-> Blank]

Put(c, i, m) == [c EXCEPT !.cells[i] = m]

(***************************** Pages *****************************)

\* Dynamic lock bytes govern the pages from 16 on; the static ones the others,
\* which is every page of an original Ultralight.  The EV1 emulator has no
\* dynamic lock page.
HasDynamic(kind) == kind \in NTAGs \cup {"UltralightC"}
Static(c, i)     == c.kind = "Ultralight" \/ i = 1
LockedPage(c, i) == IF Static(c, i) THEN c.static ELSE HasDynamic(c.kind) /\ c.dynamic

NewPages(kind, m, locked, corrupt) ==
    [kind |-> kind, cells |-> [i \in Cells |-> IF i <= Need(m) THEN m ELSE Blank],
     static |-> locked, dynamic |-> locked /\ HasDynamic(kind), corrupt |-> corrupt]

\* Lock bytes are OR-only: inverted ones, 00 for FF, set nothing.
SetLock(c, which) ==
    IF which = "static" THEN [c EXCEPT !.static = @ \/ ~c.corrupt]
    ELSE [c EXCEPT !.dynamic = @ \/ ~c.corrupt]

WriteMem(c, cmd) ==
    IF LockedPage(c, cmd.at) THEN Refuses(c)
    ELSE Accepts(Put(c, cmd.at, IF c.corrupt THEN Garbage ELSE cmd.msg))

PageAnswer(c, cmd) ==
    CASE cmd.ins = "read"     -> Says(c, c.cells[cmd.at])
      [] cmd.ins = "write"    -> WriteMem(c, cmd)
      [] cmd.ins = "readLock" -> Says(c, IF cmd.at = "static" THEN c.static ELSE c.dynamic)
      [] cmd.ins = "setLock"  -> Accepts(SetLock(c, cmd.at))

(***************************** Classic *****************************)

\* A trailer: Key A, Key B and the access conditions.  Sector 0 is the MAD.
Trailer(a, b, access) == [a |-> a, b |-> b, access |-> access]
Factory  == Trailer("factory", "factory", "transport")
Formats  == [mad |-> Trailer("mad", "factory", "mad"), ndef |-> Trailer("forum", "factory", "ndef")]
Foreign  == Trailer("foreign", "foreign", "transport")
HalfKept == Trailer("foreign", "factory", "transport")   \* only Key A was changed

NewClassic(m, trailers) ==
    [kind |-> "Classic", cells |-> [i \in Cells |-> IF i <= Need(m) THEN m ELSE Blank],
     trailers |-> trailers, mad |-> FALSE, authed |-> -1, asB |-> FALSE]

\* The NXP access tables: who may write data, and rewrite the trailer.
DataWrite(t, asB)    == t.access \in {"transport", "ndef"} \/ asB
TrailerWrite(t, asB) == IF t.access = "transport" THEN ~asB ELSE asB

Authenticate(c, cmd) ==
    LET t == c.trailers[cmd.at] IN
    IF cmd.key = (IF cmd.asB THEN t.b ELSE t.a)
    THEN Accepts([c EXCEPT !.authed = cmd.at, !.asB = cmd.asB])
    ELSE Refuses(c)

ClassicAnswer(c, cmd) ==
    CASE cmd.ins = "auth" -> Authenticate(c, cmd)
      [] cmd.ins # "auth" /\ c.authed # cmd.at -> Refuses(c)
      [] cmd.ins = "read" /\ c.authed = cmd.at -> Says(c, c.cells[cmd.at])
      [] cmd.ins = "write" /\ c.authed = cmd.at ->
           IF ~DataWrite(c.trailers[cmd.at], c.asB) THEN Refuses(c)
           ELSE IF cmd.at = 0 THEN Accepts([c EXCEPT !.mad = TRUE]) ELSE Accepts(Put(c, cmd.at, cmd.msg))
      [] cmd.ins = "trailer" /\ c.authed = cmd.at ->
           IF ~TrailerWrite(c.trailers[cmd.at], c.asB) THEN Refuses(c)
           ELSE Accepts([c EXCEPT !.trailers[cmd.at] = Formats[cmd.to]])

(***************************** Type 4 *****************************)

NewType4(m) ==
    [kind |-> "Type4", cells |-> [i \in Cells |-> IF i <= Need(m) THEN m ELSE Blank],
     app |-> FALSE, file |-> "none"]

Type4Answer(c, cmd) ==
    CASE cmd.ins = "selectApp" -> Accepts([c EXCEPT !.app = TRUE, !.file = "none"])
      [] cmd.ins = "selectFile" -> IF c.app THEN Accepts([c EXCEPT !.file = cmd.at]) ELSE Refuses(c)
      [] cmd.ins = "readCC" -> IF c.file = "none" THEN Refuses(c) ELSE Accepts(c)
      [] cmd.ins = "read" -> IF c.file = "none" THEN Refuses(c) ELSE Says(c, c.cells[cmd.at])
      [] cmd.ins = "write" -> IF c.file = "ndef" THEN Accepts(Put(c, cmd.at, cmd.msg)) ELSE Refuses(c)

(***************************** DESFire *****************************)

\* Rights of the NDEF file; "key" names the one the agent may hold.  channel: a
\* session is open on the card.  challenged: a random number is out.
NewDESFire(kind, m, rights, comm) ==
    [kind |-> kind, cells |-> [i \in Cells |-> IF i <= Need(m) THEN m ELSE Blank],
     rights |-> rights, comm |-> comm, selected |-> FALSE, challenged |-> FALSE, channel |-> FALSE]

\* A command in the session: the card checks its MAC, if the file's setting
\* has it carry one.  ChangeFileSettings is enciphered whatever the setting.
Verifies(c, inStep, comm) == c.channel /\ (comm = "plain" \/ inStep)

\* The emulator asks for a session only where the right names a key: a file
\* nobody may write is left to the driver to refuse.
DesfireFile(c, inStep, right) ==
    c.selected /\ (c.rights[right] = "key" => Verifies(c, inStep, c.comm))

\* Answered in the session if one is open, which an EV1 emulator cannot.
ChangeSettings(c, inStep) ==
    LET shut == [c EXCEPT !.rights.write = "never", !.rights.change = "never"] IN
    IF c.rights.change = "free"
    THEN IF c.channel /\ c.kind = "DESFireEV1" THEN Refuses(shut) ELSE Accepts(shut)
    ELSE IF c.kind = "DESFireEV2" /\ Verifies(c, inStep, "full") THEN Accepts(shut) ELSE Refuses(c)

\* The second half of an authentication is taken for one only while no session
\* is open, and opens it.
FinishAuth(c) ==
    IF c.challenged /\ ~c.channel THEN Accepts([c EXCEPT !.channel = TRUE]) ELSE Refuses(c)

DesfireAnswer(c, cmd, inStep) ==
    CASE cmd.ins = "select" -> Accepts([c EXCEPT !.selected = TRUE])
      [] cmd.ins = "settings" -> IF c.selected THEN Says(c, c.rights) ELSE Refuses(c)
      [] cmd.ins = "auth1" -> Accepts([c EXCEPT !.challenged = TRUE])
      [] cmd.ins = "auth2" -> FinishAuth(c)
      [] cmd.ins = "read" -> IF DesfireFile(c, inStep, "read") THEN Says(c, c.cells[cmd.at]) ELSE Refuses(c)
      [] cmd.ins = "write" -> IF DesfireFile(c, inStep, "write") THEN Accepts(Put(c, cmd.at, cmd.msg))
                              ELSE Refuses(c)
      [] cmd.ins = "change" -> ChangeSettings(c, inStep)

\* inStep: the command's MAC, if it has one, is over the place the card is at.
Answer(c, cmd, inStep) ==
    CASE Family(c.kind) = "page"    -> PageAnswer(c, cmd)
      [] Family(c.kind) = "classic" -> ClassicAnswer(c, cmd)
      [] Family(c.kind) = "type4"   -> Type4Answer(c, cmd)
      [] Family(c.kind) = "desfire" -> DesfireAnswer(c, cmd, inStep)

\* What a card may be.
Messages == Seq(Records \cup {"garbage"})
Filled   == [Cells -> Messages]
Rights   == [read : {"free", "key", "never"}, write : {"free", "key", "never"}, change : {"free", "key", "never"}]
SectorTrailers == [a : Keys, b : Keys, access : {"transport", "mad", "ndef"}]

PageCards ==
    [kind : NTAGs \cup Ultralights, cells : Filled, static : BOOLEAN, dynamic : BOOLEAN, corrupt : BOOLEAN]
ClassicCards ==
    [kind : {"Classic"}, cells : Filled, trailers : [0..Chunks -> SectorTrailers],
     mad : BOOLEAN, authed : Int, asB : BOOLEAN]
Type4Cards ==
    [kind : {"Type4"}, cells : Filled, app : BOOLEAN, file : {"none", "cc", "ndef"}]
DESFireCards ==
    [kind : DESFires, cells : Filled, rights : Rights, comm : {"plain", "mac", "full"},
     selected : BOOLEAN, challenged : BOOLEAN, channel : BOOLEAN]
Cards == PageCards \cup ClassicCards \cup Type4Cards \cup DESFireCards

\* The card out of the field and back: what it held in RAM is gone.
Powered(c) ==
    CASE Family(c.kind) = "page"    -> c
      [] Family(c.kind) = "classic" -> [c EXCEPT !.authed = -1]
      [] Family(c.kind) = "type4"   -> [c EXCEPT !.app = FALSE, !.file = "none"]
      [] Family(c.kind) = "desfire" -> [c EXCEPT !.selected = FALSE, !.challenged = FALSE, !.channel = FALSE]
=============================================================================
