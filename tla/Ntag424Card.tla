---------------------------- MODULE Ntag424Card ----------------------------
(* An NTAG 424 DNA as nfc/nfctest/ntag424_emulator.go answers it: five AES    *)
(* keys (a few of them here), the NDEF file and its settings, one session,    *)
(* the count of failed authentications, the LRP switch.  The module is the    *)
(* card alone: a record, and for each command the card and the answer it      *)
(* leaves.  Ciphers and MACs are not computed.  A command sent inside a       *)
(* session verifies when the card's session is the sender's own, its counter  *)
(* included ("ours"); an authentication succeeds when the key is the card's.  *)
(* The file holds a length, zero or the message's, and the two chunks a       *)
(* message takes.                                                             *)
EXTENDS Naturals

CONSTANTS KeyNos,       \* the card's key numbers, 0 among them
          Msgs,         \* the messages that may be in the file
          FailLimit     \* failed authentications before the card delays

ASSUME CardAssumption == /\ KeyNos \subseteq 0..4 /\ 0 \in KeyNos
                         /\ FailLimit \in Nat \ {0}

\* Access rights: a key number, free to all, or denied to all; no session.
Free  == 14
Never == 15
NoKey == 16

Access   == KeyNos \cup {Free, Never}
Settings == [read : Access, write : Access, rw : Access, change : Access,
             secured : BOOLEAN, sdm : BOOLEAN, tapKey : KeyNos]

File == [nlen : {0, 1}, c1 : Msgs, c2 : Msgs]

KeyValues == {"k0", "k1", "bad", "new", "real", "shown"}

Cards == [key : [KeyNos -> KeyValues], file : File, set : Settings,
          sess : KeyNos \cup {NoKey}, ours : BOOLEAN, pend : KeyNos \cup {NoKey},
          app : BOOLEAN, sel : {"none", "cc", "ndef"},
          fails : 0..FailLimit, lrp : BOOLEAN, random : BOOLEAN]

\* A card as it comes to a reader.
NewCard(keys, m, fs, lrp, random) ==
    [key |-> keys, file |-> [nlen |-> 1, c1 |-> m, c2 |-> m], set |-> fs,
     sess |-> NoKey, ours |-> FALSE, pend |-> NoKey, app |-> FALSE, sel |-> "none",
     fails |-> 0, lrp |-> lrp, random |-> random]

Answer(c, a) == [card |-> c, ans |-> a]

DropSession(c)    == [c EXCEPT !.sess = NoKey, !.ours = FALSE, !.pend = NoKey]
ClearSelection(c) == [DropSession(c) EXCEPT !.sel = "none"]
NewPresentation(c) == [ClearSelection(c) EXCEPT !.app = FALSE]

(***************************** Access *****************************)

Rights(fs, write) == {IF write THEN fs.write ELSE fs.read, fs.rw}

Permitted(c, write) ==
    \/ Free \in Rights(c.set, write)
    \/ c.sess \in Rights(c.set, write)

Refusal(c, write) ==
    IF Rights(c.set, write) \cap KeyNos # {} /\ c.sess = NoKey THEN "AE" ELSE "9D"

(***************************** The ISO commands *****************************)

\* Any select ends the session and the file selection.
IsoSelect(c, what) ==
    LET d == ClearSelection(c) IN
    IF what = "app" THEN Answer([d EXCEPT !.app = TRUE], "ok")
    ELSE IF ~c.app THEN Answer(d, "sw")
    ELSE Answer([d EXCEPT !.sel = what], "ok")

IsoRead(c) ==
    Answer(c, IF c.sel = "cc" \/ (c.sel = "ndef" /\ Permitted(c, FALSE))
              THEN "ok" ELSE "sw")

\* What a write leaves in the file, by the part of the message it carries.
Put(f, part, m) ==
    CASE part = "clear"  -> [f EXCEPT !.nlen = 0]
      [] part = "chunk1" -> [f EXCEPT !.c1 = m]
      [] part = "chunk2" -> [f EXCEPT !.c2 = m]
      [] part = "length" -> [f EXCEPT !.nlen = 1]

\* The CC file is key 0's to write, and too short for a chunk: an update of the
\* length that meets it selected, in a session with key 0, is of its first bytes.
IntoCC(c, part) == c.sel = "cc" /\ c.sess = 0 /\ part \in {"clear", "length"}

\* An update is of the file selected.  What the CC file holds is not kept.
IsoUpdate(c, part, m) ==
    CASE c.sel = "ndef" /\ Permitted(c, TRUE) -> Answer([c EXCEPT !.file = Put(@, part, m)], "ok")
      [] IntoCC(c, part) -> Answer(c, "ok")
      [] OTHER -> Answer(c, "sw")

(***************************** Authentication *****************************)

AuthFirst(c, n) ==
    IF c.fails >= FailLimit THEN Answer([c EXCEPT !.pend = NoKey], "AD")
    ELSE Answer([c EXCEPT !.pend = n], IF c.lrp THEN "lrp" ELSE "af")

\* The decrement of a success is taken to cover the whole count.
AuthSecond(c, value) ==
    IF c.pend = NoKey THEN Answer(c, "1C")
    ELSE IF c.key[c.pend] = value
    THEN Answer([c EXCEPT !.sess = c.pend, !.ours = TRUE, !.pend = NoKey, !.fails = 0], "ok")
    ELSE Answer([DropSession(c) EXCEPT !.fails = @ + 1], "AE")

(***************************** Native commands *****************************)

\* A command that must verify in the open session before Do is done with it.
Secure(c, valid, Do(_)) ==
    IF c.sess = NoKey THEN Answer([c EXCEPT !.pend = NoKey], "AE")
    ELSE IF ~valid THEN Answer(DropSession(c), "1E")
    ELSE Do([c EXCEPT !.pend = NoKey])

\* GetFileSettings and GetKeyVersion, which a card with no session answers to
\* a plain command ("open" says whether it answers this one).
Plainly(c, inSession, open) ==
    IF c.sess # NoKey
    THEN IF inSession /\ c.ours THEN Answer([c EXCEPT !.pend = NoKey], "ok")
         ELSE Answer(DropSession(c), "1E")
    ELSE Answer([c EXCEPT !.pend = NoKey],
                IF inSession THEN "7E" ELSE IF open THEN "ok" ELSE "AE")

SettingsOpen(fs) == Free \in {fs.read, fs.rw, fs.change}

\* ReadData and WriteData, always sent in what the driver holds a session.
Native(c, write, Do(_)) ==
    IF c.sess # NoKey /\ c.set.secured /\ ~c.ours THEN Answer(DropSession(c), "1E")
    ELSE IF ~Permitted(c, write) THEN Answer([c EXCEPT !.pend = NoKey], Refusal(c, write))
    ELSE IF c.sess = NoKey /\ c.set.secured THEN Answer([c EXCEPT !.pend = NoKey], "7E")
    ELSE Answer(Do([c EXCEPT !.pend = NoKey]), "ok")

ReadData(c) == Native(c, FALSE, LAMBDA d : d)

WriteData(c, part, m) == Native(c, TRUE, LAMBDA d : [d EXCEPT !.file = Put(@, part, m)])

ChangeFileSettings(c, fs) ==
    Secure(c, c.ours, LAMBDA d :
        IF d.set.change \in {Free, d.sess} THEN Answer([d EXCEPT !.set = fs], "ok")
        ELSE Answer(d, "9D"))

\* A key other than the session's is sent as its difference from the old one.
ChangeKey(c, n, old, new) ==
    Secure(c, c.ours, LAMBDA d :
        IF d.sess # 0 THEN Answer(d, "9D")
        ELSE IF n # 0 /\ old # d.key[n] THEN Answer(DropSession(d), "1E")
        ELSE LET e == [d EXCEPT !.key[n] = new] IN
             Answer(IF n = 0 THEN DropSession(e) ELSE e, "ok"))

\* SetConfiguration with the LRP bit: permanent, and SDM no longer applies.
SetLRP(c) ==
    Secure(c, c.ours, LAMBDA d :
        IF d.sess # 0 THEN Answer(d, "9D")
        ELSE Answer([d EXCEPT !.lrp = TRUE, !.set.sdm = FALSE], "ok"))

\* GetCardUID and ReadSig, which change nothing.
Tell(c) == Secure(c, c.ours, LAMBDA d : Answer(d, "ok"))

=============================================================================
