---------------------------- MODULE Ntag424Proofs ----------------------------
(* What the NTAG 424 driver guarantees for every card, key set, message and *)
(* settings, and every number of operations, faults and raw exchanges.      *)
(*                                                                          *)
(* The invariant has four parts.  The steps left of a stage are the end of  *)
(* its body, and a body is one of the sequences the code sends (FlowOK); the *)
(* file holds what the writes sent so far have left (FileOK); what an       *)
(* operation that has come so far says of the card is so (TrueOK); and no   *)
(* step authenticates with a key already refused (AuthOK, Accounted).       *)
EXTENDS Ntag424, SequenceTheorems, FiniteSetTheorems, TLAPS

(* The steps of a stage's body, and those that may lead it in.             *)
AuthWords == {"auth1", "lrp1", "auth2"}
LeadSteps == {"enter", "old", "select"} \cup AuthWords
FileSteps == {"clear", "chunk1", "chunk2", "length"}
BodySteps == {"told", "select", "selCC", "selNdef", "readCC", "settings", "version", "nlen", "part",
              "change", "key", "lrp", "uid", "sig", "verify"} \cup FileSteps
AllSteps  == BodySteps \cup LeadSteps

(* Those taken without an exchange.                                        *)
LocalSteps == {"enter", "old", "verify", "told"}

Wants  == {"none", "read", "write", "writable", "change", "lock"}
Stages == {"held", "plain", "keyed", "resolve", "iso"}

Operations ==
    [kind : Kinds, want : Wants, msg : Msgs, plan : Settings, n : KeyNos, sent : BOOLEAN,
     was : {NoWord} \cup [file : File, set : Settings], stage : Stages,
     key : KeyNos \cup {NoKey}, body : Seq(AllSteps), steps : Seq(AllSteps), again : BOOLEAN,
     outer : [key : KeyNos \cup {NoKey}, body : Seq(AllSteps), steps : Seq(AllSteps)]]

(* What an operation asks for, which only ConfigureSDM and a lock change.  *)
WantOf(kind) ==
    {w \in Wants : \/ kind = "sdm" /\ w \in {"write", "change", "read"}
                   \/ kind = "lock" /\ w \in {"lock", "change"}
                   \/ kind \in {"read", "write", "writable", "change"} /\ w = kind
                   \/ kind \in {"key", "lrp", "sig", "version", "uid", "settings"} /\ w = "none"}

(* The step a body ends in, and those that may stand before it.            *)
Ends(kind, want) ==
    {x \in BodySteps : \/ want # "none" /\ x = "settings"
                       \/ want = "read" /\ x \in {"part", "verify"}
                       \/ want = "write" /\ x = "length"
                       \/ want = "writable" /\ x = "readCC"
                       \/ want = "change" /\ x = "change"
                       \/ want = "none" /\ kind = "uid" /\ x = "told"
                       \/ want = "none" /\ kind # "uid" /\ x = kind}

Middle(want) ==
    {"select", "selCC", "selNdef", "readCC", "nlen"} \cup
        IF want = "write" THEN FileSteps ELSE {}

(* A message is written in one order: the length cleared first, set last.  *)
Follows(x, y) ==
    /\ y = "chunk1" => x = "clear"
    /\ y = "chunk2" => x = "chunk1"
    /\ y = "length" => x = "chunk2"

BodyOK(b, kind, want) ==
    /\ Len(b) \in Nat \ {0} /\ b[1] \notin {"chunk1", "chunk2", "length"}
    /\ b[Len(b)] \in Ends(kind, want)
    /\ \A i \in 1 .. Len(b) - 1 : b[i] \in Middle(want) /\ Follows(b[i], b[i + 1])

(* The steps left of a stage are the end of its body, or all of it with    *)
(* what leads in.                                                          *)
Led(s, b) ==
    /\ Len(s) \in Nat \ {0}
    /\ \A i \in 1 .. Len(s) :
          IF i > Len(s) - Len(b) THEN s[i] = b[i - (Len(s) - Len(b))] ELSE s[i] \in LeadSteps
    /\ \A i \in 2 .. Len(s) : s[i] = "auth2" => s[i - 1] \in {"auth1", "lrp1"}
    /\ \A i, j \in 1 .. Len(s) : s[i] \in {"enter", "old"} => s[j] \notin AuthWords

FlowOK(o) ==
    /\ o.want \in WantOf(o.kind)
    /\ Led(o.steps, o.body)
    /\ o.stage # "resolve" => BodyOK(o.body, o.kind, o.want)
    /\ o.stage = "resolve" =>
          /\ o.body = <<"uid">>
          /\ BodyOK(o.outer.body, o.kind, o.want) /\ Led(o.outer.steps, o.outer.body)
          /\ o.outer.steps[1] \in {"enter", "old", "verify", "told"}
    /\ o.stage = "held" => Len(o.body) = 1 /\ Len(o.steps) = 1
    /\ o.stage \notin {"keyed", "resolve"} =>
          \A i \in 1 .. Len(o.steps) : o.steps[i] \notin LocalSteps \cup {"change"}
    /\ o.stage \in {"held", "keyed", "resolve"} =>
          o.key \in KeyNos \/ o.steps[1] \in {"told", "verify"}
    /\ o.stage = "resolve" => o.outer.key \in KeyNos \/ o.outer.steps[1] \in {"told", "verify"}

(* A stage of o's operation at its beginning.                              *)
Same(p, o) ==
    /\ p.kind = o.kind /\ p.want = o.want /\ p.msg = o.msg /\ p.plan = o.plan
    /\ p.n = o.n /\ p.was = o.was

Quiet(p) ==
    /\ \A i \in 1 .. Len(p.steps) : p.steps[i] \notin AuthWords
    /\ p.steps[1] \notin {"chunk1", "chunk2", "length"}

Anew(p, o) ==
    /\ p \in Operations /\ Same(p, o) /\ p.sent = o.sent
    /\ p.stage # "resolve" /\ FlowOK(p) /\ Quiet(p)

-----------------------------------------------------------------------------
(* Sequences of steps.                                                     *)

(* What a new head, a prefix and a tail do to the steps.                   *)
LEMMA CatOne ==
    ASSUME NEW x \in AllSteps, NEW b \in Seq(AllSteps)
    PROVE  /\ <<x>> \o b \in Seq(AllSteps) /\ Len(<<x>> \o b) = Len(b) + 1
           /\ (<<x>> \o b)[1] = x /\ \A i \in 2 .. Len(b) + 1 : (<<x>> \o b)[i] = b[i - 1]
BY <<x>> \in Seq(AllSteps), ConcatProperties

LEMMA CatThree ==
    ASSUME NEW x \in AllSteps, NEW y \in AllSteps, NEW z \in AllSteps, NEW b \in Seq(AllSteps)
    PROVE  LET s == <<x, y, z>> \o b IN
           /\ s \in Seq(AllSteps) /\ Len(s) = Len(b) + 3
           /\ s[1] = x /\ s[2] = y /\ s[3] = z /\ \A i \in 4 .. Len(b) + 3 : s[i] = b[i - 3]
BY <<x, y, z>> \in Seq(AllSteps), ConcatProperties

LEMMA CatIso ==
    ASSUME NEW b \in Seq(AllSteps)
    PROVE  /\ IsoOpen \o b \in Seq(AllSteps) /\ Len(IsoOpen \o b) = Len(b) + 4
           /\ \A i \in 1 .. 4 : (IsoOpen \o b)[i] = IsoOpen[i]
           /\ \A i \in 5 .. Len(b) + 4 : (IsoOpen \o b)[i] = b[i - 4]
<1>1. IsoOpen \in Seq(AllSteps) /\ Len(IsoOpen) = 4
  BY DEF IsoOpen, AllSteps, BodySteps, LeadSteps
<1>2. /\ IsoOpen \o b \in Seq(AllSteps) /\ Len(IsoOpen \o b) = 4 + Len(b) /\ Len(b) \in Nat
      /\ \A i \in 1 .. 4 + Len(b) :
            (IsoOpen \o b)[i] = IF i <= 4 THEN IsoOpen[i] ELSE b[i - 4]
  <2> DEFINE p == IsoOpen
  <2>1. p \in Seq(AllSteps) /\ Len(p) = 4
    BY <1>1
  <2> HIDE DEF p
  <2>2. /\ p \o b \in Seq(AllSteps) /\ Len(p \o b) = Len(p) + Len(b)
        /\ \A i \in 1 .. Len(p) + Len(b) :
              (p \o b)[i] = IF i <= Len(p) THEN p[i] ELSE b[i - Len(p)]
    BY <2>1, ConcatProperties, Zenon
  <2>3. Len(b) \in Nat
    OBVIOUS
  <2> QED BY <2>1, <2>2, <2>3 DEF p
<1> QED BY <1>2

LEMMA TailFacts ==
    ASSUME NEW s \in Seq(AllSteps), Len(s) > 1
    PROVE  /\ Tail(s) \in Seq(AllSteps) /\ Len(Tail(s)) = Len(s) - 1
           /\ \A i \in 1 .. Len(s) - 1 : Tail(s)[i] = s[i + 1]
BY HeadTailProperties

(* What may lead a body in: the driver's own first step, the old key's, an *)
(* authentication, a select, or nothing.                                   *)
LEMMA LedEnter ==
    ASSUME NEW b \in Seq(AllSteps), Len(b) > 0, \A i \in 1 .. Len(b) : b[i] \notin AuthWords
    PROVE  /\ <<"enter">> \o b \in Seq(AllSteps) /\ Led(<<"enter">> \o b, b)
           /\ Len(<<"enter">> \o b) = Len(b) + 1 /\ (<<"enter">> \o b)[1] = "enter"
           /\ \A i \in 1 .. Len(b) + 1 : (<<"enter">> \o b)[i] \notin AuthWords
<1> DEFINE s == <<"enter">> \o b
<1>1. /\ s \in Seq(AllSteps) /\ Len(s) = Len(b) + 1 /\ Len(b) \in Nat
      /\ s[1] = "enter" /\ \A i \in 2 .. Len(b) + 1 : s[i] = b[i - 1]
  BY CatOne DEF AllSteps, LeadSteps
<1> HIDE DEF s
<1>2. \A i \in 1 .. Len(b) + 1 : s[i] \notin AuthWords
  BY <1>1 DEF AuthWords
<1>3. Led(s, b)
  BY <1>1, <1>2 DEF Led, LeadSteps, AuthWords
<1> QED BY <1>1, <1>2, <1>3 DEF s

LEMMA LedOld ==
    ASSUME NEW b \in Seq(AllSteps), Len(b) > 0, \A i \in 1 .. Len(b) : b[i] \notin AuthWords
    PROVE  LET s == <<"old">> \o (<<"enter">> \o b) IN
           /\ s \in Seq(AllSteps) /\ Led(s, b) /\ s[1] = "old"
           /\ \A i \in 1 .. Len(s) : s[i] \notin AuthWords
<1> DEFINE e == <<"enter">> \o b  s == <<"old">> \o e
<1>1. /\ e \in Seq(AllSteps) /\ Led(e, b) /\ Len(e) = Len(b) + 1 /\ Len(b) \in Nat
      /\ \A i \in 1 .. Len(e) : e[i] \notin AuthWords
  BY LedEnter
<1> HIDE DEF e
<1>2. /\ s \in Seq(AllSteps) /\ Len(s) = Len(e) + 1
      /\ s[1] = "old" /\ \A i \in 2 .. Len(e) + 1 : s[i] = e[i - 1]
  BY <1>1, CatOne DEF AllSteps, LeadSteps
<1> HIDE DEF s
<1>3. \A i \in 1 .. Len(s) : s[i] \notin AuthWords
  BY <1>1, <1>2 DEF AuthWords
<1>4. Led(s, b)
  BY <1>1, <1>2, <1>3 DEF Led, LeadSteps, AuthWords
<1> QED BY <1>2, <1>3, <1>4 DEF s, e

LEMMA LedAuth ==
    ASSUME NEW b \in Seq(AllSteps), Len(b) > 0, \A i \in 1 .. Len(b) : b[i] \notin LeadSteps \ {"select"},
           NEW w \in {"auth1", "lrp1"}
    PROVE  LET s == <<"select", w, "auth2">> \o b IN
           /\ s \in Seq(AllSteps) /\ Led(s, b) /\ s[1] = "select" /\ Len(s) = Len(b) + 3
<1> DEFINE s == <<"select", w, "auth2">> \o b
<1>1. /\ s \in Seq(AllSteps) /\ Len(s) = Len(b) + 3 /\ Len(b) \in Nat
      /\ s[1] = "select" /\ s[2] = w /\ s[3] = "auth2"
      /\ \A i \in 4 .. Len(b) + 3 : s[i] = b[i - 3]
  BY CatThree DEF AllSteps, LeadSteps, AuthWords
<1> HIDE DEF s
<1>2. \A i \in 4 .. Len(s) : s[i] \notin LeadSteps \ {"select"}
  BY <1>1
<1>3. \A i \in 1 .. Len(s) :
          IF i > Len(s) - Len(b) THEN s[i] = b[i - (Len(s) - Len(b))] ELSE s[i] \in LeadSteps
  BY <1>1 DEF LeadSteps, AuthWords
<1>4. \A i \in 2 .. Len(s) : s[i] = "auth2" => s[i - 1] \in {"auth1", "lrp1"}
  BY <1>1, <1>2 DEF LeadSteps, AuthWords
<1>5. \A i, j \in 1 .. Len(s) : s[i] \in {"enter", "old"} => s[j] \notin AuthWords
  BY <1>1, <1>2 DEF LeadSteps, AuthWords
<1>6. Led(s, b)
  BY <1>1, <1>3, <1>4, <1>5 DEF Led
<1> QED BY <1>1, <1>6 DEF s

LEMMA LedSelf ==
    ASSUME NEW b \in Seq(AllSteps), Len(b) > 0, \A i \in 1 .. Len(b) : b[i] \notin AuthWords
    PROVE  Led(b, b)
BY DEF Led, AuthWords

LEMMA LedSelect ==
    ASSUME NEW w \in BodySteps
    PROVE  /\ <<"select", w>> \in Seq(AllSteps) /\ Led(<<"select", w>>, <<w>>)
           /\ \A i \in 1 .. 2 : <<"select", w>>[i] \notin AuthWords
BY DEF Led, AllSteps, BodySteps, LeadSteps, AuthWords, FileSteps

(* A step taken leaves the rest led in.                                    *)
LEMMA LedTail ==
    ASSUME NEW s \in Seq(AllSteps), NEW b \in Seq(AllSteps), Len(s) > 1, Led(s, b)
    PROVE  Led(Tail(s), b)
<1>1. /\ Tail(s) \in Seq(AllSteps) /\ Len(Tail(s)) = Len(s) - 1
      /\ \A i \in 1 .. Len(s) - 1 : Tail(s)[i] = s[i + 1]
  BY TailFacts
<1> DEFINE r == Tail(s)
<1>2. Len(s) \in Nat /\ Len(b) \in Nat
  OBVIOUS
<1>3. \A i \in 1 .. Len(r) :
          IF i > Len(r) - Len(b) THEN r[i] = b[i - (Len(r) - Len(b))] ELSE r[i] \in LeadSteps
  <2> TAKE i \in 1 .. Len(r)
  <2>1. /\ i + 1 \in 1 .. Len(s) /\ r[i] = s[i + 1]
        /\ (i + 1 > Len(s) - Len(b)) <=> (i > Len(r) - Len(b))
        /\ (i + 1) - (Len(s) - Len(b)) = i - (Len(r) - Len(b))
    BY <1>1, <1>2
  <2> QED BY <2>1 DEF Led
<1>4. \A i \in 2 .. Len(r) : r[i] = "auth2" => r[i - 1] \in {"auth1", "lrp1"}
  <2> TAKE i \in 2 .. Len(r)
  <2>1. i + 1 \in 2 .. Len(s) /\ r[i] = s[i + 1] /\ r[i - 1] = s[(i + 1) - 1]
    BY <1>1, <1>2
  <2> QED BY <2>1 DEF Led
<1>5. \A i, j \in 1 .. Len(r) : r[i] \in {"enter", "old"} => r[j] \notin AuthWords
  BY <1>1, <1>2 DEF Led
<1> QED BY <1>1, <1>2, <1>3, <1>4, <1>5 DEF Led
-----------------------------------------------------------------------------
(* The bodies of the stages.                                               *)

(* A body is free of the steps that lead in.                               *)
LEMMA BodyFree ==
    ASSUME NEW b \in Seq(AllSteps), NEW kind \in Kinds, NEW want \in WantOf(kind), BodyOK(b, kind, want)
    PROVE  /\ Len(b) > 0 /\ \A i \in 1 .. Len(b) : b[i] \notin LeadSteps \ {"select"}
           /\ \A i \in 1 .. Len(b) : b[i] \notin AuthWords /\ b[i] # "uid"
           /\ b[1] \notin {"chunk1", "chunk2", "length"}
<1>1. \A x \in Ends(kind, want) \cup Middle(want) :
          x \notin (LeadSteps \ {"select"}) \cup AuthWords \cup {"uid"}
  BY DriverAssumption DEF WantOf, Ends, Middle, FileSteps, LeadSteps, AuthWords
<1>2. Len(b) \in Nat
  OBVIOUS
<1>3. \A i \in 1 .. Len(b) : b[i] \in Ends(kind, want) \cup Middle(want)
  <2> TAKE i \in 1 .. Len(b)
  <2>1. i = Len(b) \/ i \in 1 .. Len(b) - 1
    BY <1>2
  <2> QED BY <2>1 DEF BodyOK
<1> QED BY <1>1, <1>2, <1>3 DEF BodyOK

(* A body of one step, the last of its kind.                               *)
LEMMA OneStepBody ==
    ASSUME NEW kind, NEW want, NEW w \in Ends(kind, want) \cap BodySteps,
           w \notin {"chunk1", "chunk2", "length"}
    PROVE  /\ BodyOK(<<w>>, kind, want) /\ <<w>> \in Seq(AllSteps) /\ Len(<<w>>) = 1
           /\ <<w>>[1] = w
BY DEF BodyOK, AllSteps

LEMMA EndsForms ==
    ASSUME NEW kind
    PROVE  /\ "part" \in Ends(kind, "read") /\ "length" \in Ends(kind, "write")
           /\ "readCC" \in Ends(kind, "writable")
<1>1. "part" \in BodySteps /\ "length" \in BodySteps /\ "readCC" \in BodySteps
  BY DEF BodySteps, FileSteps
<1> QED BY <1>1 DEF Ends

(* The bodies the driver writes out.                                       *)
LEMMA WrittenBodies ==
    ASSUME NEW kind \in Kinds
    PROVE  /\ ReadAll \in Seq(AllSteps) /\ BodyOK(ReadAll, kind, "read")
           /\ WriteAll \in Seq(AllSteps) /\ BodyOK(WriteAll, kind, "write")
           /\ <<"select", "selCC", "readCC">> \in Seq(AllSteps)
           /\ BodyOK(<<"select", "selCC", "readCC">>, kind, "writable")
           /\ IsoOpen \o ReadAll \in Seq(AllSteps) /\ BodyOK(IsoOpen \o ReadAll, kind, "read")
           /\ (IsoOpen \o ReadAll)[Len(IsoOpen \o ReadAll)] = "part"
           /\ IsoOpen \o WriteAll \in Seq(AllSteps) /\ BodyOK(IsoOpen \o WriteAll, kind, "write")
<1>1. /\ ReadAll \in Seq(AllSteps) /\ Len(ReadAll) = 2 /\ ReadAll[1] = "nlen" /\ ReadAll[2] = "part"
  BY DEF ReadAll, AllSteps, BodySteps
<1>2. /\ WriteAll \in Seq(AllSteps) /\ Len(WriteAll) = 4 /\ WriteAll[1] = "clear"
      /\ WriteAll[2] = "chunk1" /\ WriteAll[3] = "chunk2" /\ WriteAll[4] = "length"
  BY DEF WriteAll, AllSteps, BodySteps, FileSteps
<1>3. /\ IsoOpen \in Seq(AllSteps) /\ Len(IsoOpen) = 4 /\ IsoOpen[1] = "select"
      /\ IsoOpen[2] = "selCC" /\ IsoOpen[3] = "readCC" /\ IsoOpen[4] = "selNdef"
  BY DEF IsoOpen, AllSteps, BodySteps
<1>4. BodyOK(ReadAll, kind, "read")
  <2>1. \A i \in 1 .. 1 : i = 1
    OBVIOUS
  <2>2. \A i \in 1 .. 1 : ReadAll[i] \in Middle("read") /\ Follows(ReadAll[i], ReadAll[i + 1])
    BY <1>1, <2>1 DEF Middle, Follows
  <2> QED BY <1>1, <2>2, EndsForms DEF BodyOK
<1>5. BodyOK(WriteAll, kind, "write")
  <2>1. \A i \in 1 .. 3 : i \in {1, 2, 3}
    OBVIOUS
  <2>2. \A i \in 1 .. 3 : WriteAll[i] \in Middle("write") /\ Follows(WriteAll[i], WriteAll[i + 1])
    BY <1>2, <2>1 DEF Middle, Follows, FileSteps
  <2> QED BY <1>2, <2>2, EndsForms DEF BodyOK
<1>6. /\ <<"select", "selCC", "readCC">> \in Seq(AllSteps)
      /\ BodyOK(<<"select", "selCC", "readCC">>, kind, "writable")
  <2> DEFINE s == <<"select", "selCC", "readCC">>
  <2>1. s \in Seq(AllSteps) /\ Len(s) = 3 /\ s[1] = "select" /\ s[2] = "selCC" /\ s[3] = "readCC"
    BY DEF AllSteps, BodySteps
  <2> HIDE DEF s
  <2>2. \A i \in 1 .. 2 : i \in {1, 2}
    OBVIOUS
  <2>3. \A i \in 1 .. 2 : s[i] \in Middle("writable") /\ Follows(s[i], s[i + 1])
    BY <2>1, <2>2 DEF Middle, Follows, FileSteps
  <2>4. BodyOK(s, kind, "writable")
    BY <2>1, <2>3, EndsForms DEF BodyOK
  <2> QED BY <2>1, <2>4 DEF s
<1>7. /\ IsoOpen \o ReadAll \in Seq(AllSteps) /\ BodyOK(IsoOpen \o ReadAll, kind, "read")
      /\ (IsoOpen \o ReadAll)[Len(IsoOpen \o ReadAll)] = "part"
  <2> DEFINE s == IsoOpen \o ReadAll
  <2>1. /\ s \in Seq(AllSteps) /\ Len(s) = 6
        /\ \A i \in 1 .. 4 : s[i] = IsoOpen[i]
        /\ s[5] = ReadAll[1] /\ s[6] = ReadAll[2]
    <3>1. Len(s) = Len(ReadAll) + 4 /\ \A i \in 5 .. Len(ReadAll) + 4 : s[i] = ReadAll[i - 4]
      BY <1>1, CatIso
    <3> QED BY <1>1, <3>1, CatIso
  <2> HIDE DEF s
  <2>2. s[1] = "select" /\ s[2] = "selCC" /\ s[3] = "readCC" /\ s[4] = "selNdef" /\ s[5] = "nlen" /\ s[6] = "part"
    BY <1>1, <1>3, <2>1
  <2>3. \A i \in 1 .. 5 : i \in {1, 2, 3, 4, 5}
    OBVIOUS
  <2>4. \A i \in 1 .. 5 : s[i] \in Middle("read") /\ Follows(s[i], s[i + 1])
    BY <2>2, <2>3 DEF Middle, Follows, FileSteps
  <2>5. BodyOK(s, kind, "read") /\ s[Len(s)] = "part"
    BY <2>1, <2>2, <2>4, EndsForms DEF BodyOK
  <2> QED BY <2>1, <2>5 DEF s
<1>8. IsoOpen \o WriteAll \in Seq(AllSteps) /\ BodyOK(IsoOpen \o WriteAll, kind, "write")
  <2> DEFINE s == IsoOpen \o WriteAll
  <2>1. /\ s \in Seq(AllSteps) /\ Len(s) = 8
        /\ \A i \in 1 .. 4 : s[i] = IsoOpen[i]
        /\ \A i \in 5 .. 8 : s[i] = WriteAll[i - 4]
    BY <1>2, CatIso
  <2> HIDE DEF s
  <2>2. /\ s[1] = "select" /\ s[2] = "selCC" /\ s[3] = "readCC" /\ s[4] = "selNdef"
        /\ s[5] = "clear" /\ s[6] = "chunk1" /\ s[7] = "chunk2" /\ s[8] = "length"
    BY <1>2, <1>3, <2>1
  <2>3. \A i \in 1 .. 7 : i \in {1, 2, 3, 4, 5, 6, 7}
    OBVIOUS
  <2>4. \A i \in 1 .. 7 : s[i] \in Middle("write") /\ Follows(s[i], s[i + 1])
    BY <2>2, <2>3 DEF Middle, Follows, FileSteps
  <2>5. BodyOK(s, kind, "write")
    BY <2>1, <2>2, <2>4, EndsForms DEF BodyOK
  <2> QED BY <2>1, <2>5 DEF s
<1> QED BY <1>1, <1>2, <1>4, <1>5, <1>6, <1>7, <1>8
-----------------------------------------------------------------------------
(* How a stage begins.                                                     *)

(* The bodies of the ISO path: those above, none of which is a last stage. *)
IsoBodies(want) ==
    {b \in {IsoOpen \o ReadAll, IsoOpen \o WriteAll, <<"select", "selCC", "readCC">>} :
        \/ want = "read" /\ b = IsoOpen \o ReadAll
        \/ want = "write" /\ b = IsoOpen \o WriteAll
        \/ want = "writable" /\ b = <<"select", "selCC", "readCC">>}

LEMMA IsoBodiesFine ==
    ASSUME NEW kind \in Kinds, NEW want, NEW b \in IsoBodies(want)
    PROVE  b \in Seq(AllSteps) /\ BodyOK(b, kind, want) /\ b[Len(b)] \notin {"verify", "told", "change"}
<1>1. CASE want = "read" /\ b = IsoOpen \o ReadAll
  BY <1>1, WrittenBodies
<1>2. CASE want = "write" /\ b = IsoOpen \o WriteAll
  <2>1. b \in Seq(AllSteps) /\ BodyOK(b, kind, "write")
    BY <1>2, WrittenBodies
  <2>2. \A x \in {"verify", "told", "change"} : x \notin Ends(kind, "write")
    BY DEF Ends
  <2> QED BY <1>2, <2>1, <2>2 DEF BodyOK
<1>3. CASE want = "writable" /\ b = <<"select", "selCC", "readCC">>
  <2>1. b \in Seq(AllSteps) /\ BodyOK(b, kind, "writable")
    BY <1>3, WrittenBodies
  <2>2. \A x \in {"verify", "told", "change"} : x \notin Ends(kind, "writable")
    BY DEF Ends
  <2> QED BY <1>3, <2>1, <2>2 DEF BodyOK
<1> QED BY <1>1, <1>2, <1>3 DEF IsoBodies

(* A stage in a session, plain, or by the ISO path begins anew.            *)
LEMMA KeyedAnew ==
    ASSUME NEW o \in Operations, o.want \in WantOf(o.kind), NEW n \in KeyNos,
           NEW b \in Seq(AllSteps), BodyOK(b, o.kind, o.want)
    PROVE  Anew(Keyed(o, n, b), o) /\ Keyed(o, n, b).stage = "keyed"
<1> DEFINE s == <<"enter">> \o b  p == Keyed(o, n, b)
<1>1. /\ Len(b) > 0 /\ \A i \in 1 .. Len(b) : b[i] \notin AuthWords
      /\ o.kind \in Kinds
  BY BodyFree DEF Operations
<1>2. /\ s \in Seq(AllSteps) /\ Led(s, b) /\ Len(s) = Len(b) + 1 /\ s[1] = "enter"
      /\ \A i \in 1 .. Len(s) : s[i] \notin AuthWords
  BY <1>1, LedEnter
<1>3. p = [o EXCEPT !.stage = "keyed", !.key = n, !.body = b, !.steps = s, !.again = TRUE]
  BY DEF Keyed
<1> HIDE DEF s, p
<1>4. /\ p \in Operations /\ Same(p, o) /\ p.sent = o.sent /\ p.stage = "keyed" /\ p.key = n
      /\ p.body = b /\ p.steps = s
  BY <1>2, <1>3 DEF Operations, Same, Stages
<1>5. FlowOK(p) /\ Quiet(p)
  BY <1>2, <1>4 DEF FlowOK, Quiet, Same
<1> QED BY <1>4, <1>5 DEF Anew, p

LEMMA OldAnew ==
    ASSUME NEW o \in Operations, o.want \in WantOf(o.kind), NEW n \in KeyNos,
           NEW b \in Seq(AllSteps), BodyOK(b, o.kind, o.want), NEW old \in BOOLEAN
    PROVE  Anew([Keyed(o, n, b) EXCEPT !.steps = (IF old THEN <<>> ELSE <<"old">>) \o @], o)
<1> DEFINE e == <<"enter">> \o b  s == <<"old">> \o e  k == Keyed(o, n, b)
           p == [k EXCEPT !.steps = (IF old THEN <<>> ELSE <<"old">>) \o @]
<1>1. /\ Len(b) > 0 /\ \A i \in 1 .. Len(b) : b[i] \notin AuthWords
      /\ o.kind \in Kinds
  BY BodyFree DEF Operations
<1>2. /\ s \in Seq(AllSteps) /\ Led(s, b) /\ s[1] = "old"
      /\ \A i \in 1 .. Len(s) : s[i] \notin AuthWords
  BY <1>1, LedOld
<1>3. Anew(k, o) /\ e \in Seq(AllSteps)
  BY <1>1, KeyedAnew, LedEnter
<1>4. k = [o EXCEPT !.stage = "keyed", !.key = n, !.body = b, !.steps = e, !.again = TRUE]
  BY DEF Keyed
<1>5. CASE old
  <2>1. k.steps = e /\ <<>> \o e = e
    BY <1>3, <1>4, ConcatEmptySeq DEF Operations
  <2>2. p = k
    BY <1>3, <1>5, <2>1 DEF Anew, Operations
  <2> QED BY <1>3, <2>2
<1>6. CASE ~old
  <2>1. p = [o EXCEPT !.stage = "keyed", !.key = n, !.body = b, !.steps = s, !.again = TRUE]
    BY <1>4, <1>6 DEF Operations
  <2> HIDE DEF s, p
  <2>2. /\ p \in Operations /\ Same(p, o) /\ p.sent = o.sent /\ p.stage = "keyed" /\ p.key = n
        /\ p.body = b /\ p.steps = s
    BY <1>2, <2>1 DEF Operations, Same, Stages
  <2>3. FlowOK(p) /\ Quiet(p)
    BY <1>2, <2>2 DEF FlowOK, Quiet, Same
  <2> QED BY <2>2, <2>3 DEF Anew, p
<1> QED BY <1>5, <1>6

LEMMA AskAnew ==
    ASSUME NEW o \in Operations, o.want \in WantOf(o.kind), NEW w \in Ends(o.kind, o.want),
           w \notin {"chunk1", "chunk2", "length", "change", "told", "verify"}, NEW session \in KeyNos \cup {NoKey}
    PROVE  Anew(Ask(o, w, session), o) /\ Ask(o, w, session).stage \in {"held", "plain"}
<1> DEFINE p == Ask(o, w, session)
<1>1. w \in BodySteps
  BY DEF Ends
<1>2. BodyOK(<<w>>, o.kind, o.want) /\ <<w>> \in Seq(AllSteps) /\ Len(<<w>>) = 1 /\ <<w>>[1] = w
  BY <1>1, OneStepBody
<1>3. /\ o.kind \in Kinds /\ \A i \in 1 .. 1 : <<w>>[i] \notin AuthWords
      /\ w \notin LocalSteps
  <2>1. /\ o.kind \in Kinds
        /\ \A i \in 1 .. 1 : <<w>>[i] \notin AuthWords \cup (LeadSteps \ {"select"})
    BY <1>2, BodyFree DEF Operations
  <2> QED BY <1>2, <2>1 DEF LocalSteps, LeadSteps
<1>4. Led(<<w>>, <<w>>)
  BY <1>2, <1>3 DEF Led
<1>5. CASE session # NoKey
  <2>1. p = [o EXCEPT !.stage = "held", !.key = session, !.body = <<w>>, !.steps = <<w>>]
    BY <1>5 DEF Ask
  <2> HIDE DEF p
  <2>2. /\ p \in Operations /\ Same(p, o) /\ p.sent = o.sent /\ p.stage = "held" /\ p.key = session
        /\ p.body = <<w>> /\ p.steps = <<w>>
    BY <1>2, <2>1 DEF Operations, Same, Stages
  <2>3. FlowOK(p)
    <3>1. \A i \in 1 .. Len(p.steps) : p.steps[i] \notin LocalSteps \cup {"change"}
      BY <1>2, <1>3, <2>2
    <3> QED BY <1>2, <1>4, <1>5, <2>2, <3>1 DEF FlowOK, Same
  <2>4. Quiet(p)
    BY <1>2, <1>3, <2>2 DEF Quiet
  <2> QED BY <2>2, <2>3, <2>4 DEF Anew, p
<1>6. CASE session = NoKey
  <2> DEFINE s == <<"select", w>>
  <2>1. p = [o EXCEPT !.stage = "plain", !.body = <<w>>, !.steps = s]
    BY <1>6 DEF Ask
  <2>2. s \in Seq(AllSteps) /\ Led(s, <<w>>) /\ s[1] = "select" /\ s[2] = w /\ Len(s) = 2
        /\ \A i \in 1 .. 2 : s[i] \notin AuthWords
    BY <1>1, <1>2, <1>3, LedSelect
  <2> HIDE DEF p, s
  <2>3. /\ p \in Operations /\ Same(p, o) /\ p.sent = o.sent /\ p.stage = "plain"
        /\ p.body = <<w>> /\ p.steps = s
    BY <1>2, <2>1, <2>2 DEF Operations, Same, Stages
  <2>0. \A i \in 1 .. Len(p.steps) : p.steps[i] \notin LocalSteps \cup {"change"}
    <3>1. \A i \in 1 .. 2 : i = 1 \/ i = 2
      OBVIOUS
    <3>2. w \notin LocalSteps
      BY <1>3
    <3>3. \A i \in 1 .. 2 : s[i] \notin LocalSteps \cup {"change"}
      BY <2>2, <3>1, <3>2 DEF LocalSteps
    <3> QED BY <2>2, <2>3, <3>3
  <2>4. FlowOK(p)
    BY <1>2, <2>0, <2>2, <2>3 DEF FlowOK, Same
  <2>5. Quiet(p)
    BY <2>2, <2>3 DEF Quiet
  <2> QED BY <2>3, <2>4, <2>5 DEF Anew, p
<1> QED BY <1>5, <1>6

LEMMA IsoAnew ==
    ASSUME NEW o \in Operations, o.want \in WantOf(o.kind),
           NEW b \in IsoBodies(o.want)
    PROVE  Anew(Iso(o, b), o) /\ Iso(o, b).stage = "iso"
<1> DEFINE p == Iso(o, b)
<1>0. /\ o.kind \in Kinds /\ b \in Seq(AllSteps) /\ BodyOK(b, o.kind, o.want)
      /\ b[Len(b)] \notin {"verify", "told", "change"}
  BY IsoBodiesFine DEF Operations
<1>1. /\ Len(b) > 0 /\ \A i \in 1 .. Len(b) : b[i] \notin AuthWords
      /\ b[1] \notin {"chunk1", "chunk2", "length"}
  BY <1>0, BodyFree
<1>2. Led(b, b)
  <2>1. \A i \in 1 .. Len(b) : b[i] \notin AuthWords
    BY <1>1
  <2> QED BY <1>0, <1>1, <2>1, LedSelf
<1>3. p = [o EXCEPT !.stage = "iso", !.steps = b, !.body = b]
  BY DEF Iso
<1> HIDE DEF p
<1>4. /\ p \in Operations /\ Same(p, o) /\ p.sent = o.sent /\ p.stage = "iso"
      /\ p.body = b /\ p.steps = b
  BY <1>0, <1>3 DEF Operations, Same, Stages
<1>5. \A i \in 1 .. Len(p.steps) : p.steps[i] \notin LocalSteps \cup {"change"}
  <2>1. /\ \A x \in {"verify", "told", "change"} : x \notin Middle(o.want)
        /\ \A i \in 1 .. Len(b) : b[i] \notin {"enter", "old"}
    <3>1. \A i \in 1 .. Len(b) : b[i] \notin LeadSteps \ {"select"}
      BY <1>0, BodyFree
    <3> QED BY <3>1 DEF Middle, FileSteps, LeadSteps
  <2>2. PICK n \in Nat : n = Len(b)
    BY <1>0, <1>1
  <2>3. \A i \in 1 .. n : i = n \/ i \in 1 .. n - 1
    BY <2>2
  <2> QED BY <1>0, <1>4, <2>1, <2>2, <2>3 DEF BodyOK, LocalSteps
<1>6. FlowOK(p)
  BY <1>0, <1>2, <1>4, <1>5 DEF FlowOK, Same
<1>7. Quiet(p)
  BY <1>1, <1>4 DEF Quiet
<1> QED BY <1>4, <1>6, <1>7 DEF Anew, p

(* The last stages of a driver's own: the tap read back, the UID told.     *)
LEMMA AloneAnew ==
    ASSUME NEW o \in Operations, o.want \in WantOf(o.kind), NEW w \in Ends(o.kind, o.want),
           w \in {"verify", "told"}
    PROVE  Anew([o EXCEPT !.stage = "keyed", !.body = <<w>>, !.steps = <<w>>], o)
<1> DEFINE p == [o EXCEPT !.stage = "keyed", !.body = <<w>>, !.steps = <<w>>]
<1>1. BodyOK(<<w>>, o.kind, o.want) /\ <<w>> \in Seq(AllSteps) /\ Len(<<w>>) = 1 /\ <<w>>[1] = w
  BY OneStepBody DEF Ends
<1>2. \A i \in 1 .. 1 : <<w>>[i] \notin AuthWords
  BY <1>1, BodyFree DEF Operations
<1>3. Led(<<w>>, <<w>>)
  BY <1>1, <1>2 DEF Led
<1> HIDE DEF p
<1>4. /\ p \in Operations /\ Same(p, o) /\ p.sent = o.sent /\ p.stage = "keyed"
      /\ p.body = <<w>> /\ p.steps = <<w>>
  BY <1>1 DEF Operations, Same, Stages, p
<1>5. FlowOK(p)
  BY <1>1, <1>3, <1>4 DEF FlowOK, Same
<1>6. Quiet(p)
  BY <1>1, <1>2, <1>4 DEF Quiet
<1> QED BY <1>4, <1>5, <1>6 DEF Anew, p
-----------------------------------------------------------------------------
(* The step an operation is at.                                            *)

(* The head of what is left, and the place a step has in its body.         *)
LEMMA HeadIs ==
    ASSUME NEW s \in Seq(AllSteps), Len(s) > 0
    PROVE  Head(s) = s[1]
OBVIOUS

LEMMA Placed ==
    ASSUME NEW s \in Seq(AllSteps), NEW b \in Seq(AllSteps), Led(s, b), Len(b) > 0
    PROVE  /\ Len(s) > 0
           /\ Len(s) > Len(b) => s[1] \in LeadSteps /\ (s[2] \in LeadSteps \/ s[2] = b[1])
           /\ Len(s) = 1 => s[1] = b[Len(b)]
           /\ Len(s) > 1 /\ Len(s) <= Len(b) =>
                 \E i \in 1 .. Len(b) - 1 : s[1] = b[i] /\ s[2] = b[i + 1]
<1>1. /\ Len(s) \in Nat \ {0} /\ Len(b) \in Nat \ {0}
      /\ \A i \in 1 .. Len(s) :
            IF i > Len(s) - Len(b) THEN s[i] = b[i - (Len(s) - Len(b))] ELSE s[i] \in LeadSteps
  BY DEF Led
<1>2. PICK ls \in Nat : ls = Len(s)
  BY <1>1
<1>3. PICK lb \in Nat : lb = Len(b)
  BY <1>1
<1>4. /\ ls > 0 /\ lb > 0
      /\ \A i \in 1 .. ls : IF i > ls - lb THEN s[i] = b[i - (ls - lb)] ELSE s[i] \in LeadSteps
  BY <1>1, <1>2, <1>3
<1>5. ls > lb => s[1] \in LeadSteps /\ (s[2] \in LeadSteps \/ s[2] = b[1])
  <2> SUFFICES ASSUME ls > lb PROVE s[1] \in LeadSteps /\ (s[2] \in LeadSteps \/ s[2] = b[1])
    OBVIOUS
  <2>1. 1 \in 1 .. ls /\ ~(1 > ls - lb) /\ 2 \in 1 .. ls
    BY <1>4
  <2>2. CASE ls - lb = 1
    <3>1. 2 - (ls - lb) = 1 /\ 2 > ls - lb
      BY <2>2
    <3> QED BY <1>4, <2>1, <3>1
  <2>3. CASE ls - lb # 1
    <3>1. ~(2 > ls - lb)
      BY <2>3
    <3> QED BY <1>4, <2>1, <3>1
  <2> QED BY <2>2, <2>3
<1>6. ls = 1 => s[1] = b[lb]
  <2> SUFFICES ASSUME ls = 1 PROVE s[1] = b[lb]
    OBVIOUS
  <2>1. 1 \in 1 .. ls /\ 1 > ls - lb /\ 1 - (ls - lb) = lb
    BY <1>4
  <2> QED BY <1>4, <2>1
<1>7. ls > 1 /\ ls <= lb => \E i \in 1 .. lb - 1 : s[1] = b[i] /\ s[2] = b[i + 1]
  <2> SUFFICES ASSUME ls > 1, ls <= lb
               PROVE  \E i \in 1 .. lb - 1 : s[1] = b[i] /\ s[2] = b[i + 1]
    OBVIOUS
  <2>1. /\ 1 \in 1 .. ls /\ 2 \in 1 .. ls /\ 1 > ls - lb /\ 2 > ls - lb
        /\ 1 - (ls - lb) \in 1 .. lb - 1 /\ 2 - (ls - lb) = (1 - (ls - lb)) + 1
    BY <1>4
  <2>2. s[1] = b[1 - (ls - lb)] /\ s[2] = b[(1 - (ls - lb)) + 1]
    BY <1>4, <2>1
  <2> QED BY <2>1, <2>2
<1> QED BY <1>2, <1>3, <1>4, <1>5, <1>6, <1>7

(* A step is the body's own, in its place, or leads in.                    *)
LEMMA DoingFacts ==
    ASSUME NEW o \in Operations, FlowOK(o)
    PROVE  /\ Len(o.steps) \in Nat \ {0} /\ Len(o.body) \in Nat \ {0}
           /\ Head(o.steps) = o.steps[1] /\ Head(o.body) = o.body[1]
           /\ Len(o.steps) > Len(o.body) => o.steps[1] \in LeadSteps
           /\ o.stage # "resolve" /\ Len(o.steps) = 1 => o.steps[1] \in Ends(o.kind, o.want)
           /\ o.stage # "resolve" /\ Len(o.steps) > 1 /\ Len(o.steps) <= Len(o.body) =>
                 o.steps[1] \in Middle(o.want)
           /\ o.stage = "resolve" /\ Len(o.steps) <= Len(o.body) =>
                 o.steps[1] = "uid" /\ Len(o.steps) = 1
           /\ Len(o.steps) > 1 /\ o.steps[2] \in {"chunk1", "chunk2", "length"} =>
                 Follows(o.steps[1], o.steps[2])
<1>1. /\ o.steps \in Seq(AllSteps) /\ o.body \in Seq(AllSteps) /\ Led(o.steps, o.body)
      /\ o.stage # "resolve" => BodyOK(o.body, o.kind, o.want)
      /\ o.stage = "resolve" => o.body = <<"uid">>
  BY DEF Operations, FlowOK
<1>2. PICK s \in Seq(AllSteps) : s = o.steps
  BY <1>1
<1>3. PICK b \in Seq(AllSteps) : b = o.body
  BY <1>1
<1>4. /\ Led(s, b) /\ Len(b) \in Nat \ {0} /\ Len(s) \in Nat
      /\ o.stage = "resolve" => b = <<"uid">> /\ Len(b) = 1 /\ b[1] = "uid"
  <2>0. Len(<<"uid">>) = 1 /\ <<"uid">>[1] = "uid"
    OBVIOUS
  <2>1. o.stage = "resolve" => b = <<"uid">> /\ Len(b) = 1 /\ b[1] = "uid"
    BY <1>1, <1>3, <2>0, Zenon
  <2>2. o.stage # "resolve" => Len(b) > 0
    BY <1>1, <1>3 DEF BodyOK
  <2> QED BY <1>1, <1>2, <1>3, <2>1, <2>2
<1>5. Len(b) > 0
  BY <1>4
<1>6. /\ Len(s) > 0
      /\ Len(s) > Len(b) => s[1] \in LeadSteps /\ (s[2] \in LeadSteps \/ s[2] = b[1])
      /\ Len(s) = 1 => s[1] = b[Len(b)]
      /\ Len(s) > 1 /\ Len(s) <= Len(b) =>
            \E i \in 1 .. Len(b) - 1 : s[1] = b[i] /\ s[2] = b[i + 1]
  BY <1>4, <1>5, Placed
<1>7. CASE o.stage # "resolve"
  <2>1. /\ b[1] \notin {"chunk1", "chunk2", "length"} /\ b[Len(b)] \in Ends(o.kind, o.want)
        /\ \A i \in 1 .. Len(b) - 1 : b[i] \in Middle(o.want) /\ Follows(b[i], b[i + 1])
    BY <1>1, <1>3, <1>7 DEF BodyOK
  <2>2. Len(s) > 1 /\ Len(s) <= Len(b) => s[1] \in Middle(o.want) /\ Follows(s[1], s[2])
    BY <1>6, <2>1
  <2>3. Len(s) > Len(b) => s[2] \notin {"chunk1", "chunk2", "length"}
    BY <1>6, <2>1 DEF LeadSteps, AuthWords
  <2> QED BY <1>2, <1>3, <1>4, <1>6, <1>7, <2>1, <2>2, <2>3, HeadIs
<1>8. CASE o.stage = "resolve"
  <2>1. Len(s) <= Len(b) => s[1] = "uid" /\ Len(s) = 1
    BY <1>4, <1>6, <1>8
  <2>2. Len(s) > Len(b) => s[2] \notin {"chunk1", "chunk2", "length"}
    BY <1>4, <1>6, <1>8 DEF LeadSteps, AuthWords
  <2> QED BY <1>2, <1>3, <1>4, <1>6, <1>8, <2>1, <2>2, HeadIs
<1> QED BY <1>7, <1>8

(* A body that reads the settings is that read alone.                      *)
LEMMA SettingsBody ==
    ASSUME NEW b \in Seq(AllSteps), NEW kind, NEW want, BodyOK(b, kind, want), Head(b) = "settings"
    PROVE  Len(b) = 1 /\ b[1] = "settings" /\ "settings" \in Ends(kind, want)
<1>1. PICK n \in Nat \ {0} : n = Len(b)
  BY DEF BodyOK
<1>2. /\ b[1] = "settings" /\ b[n] \in Ends(kind, want)
      /\ \A i \in 1 .. n - 1 : b[i] \in Middle(want)
  BY <1>1, HeadIs DEF BodyOK
<1>3. "settings" \notin Middle(want)
  BY DEF Middle, FileSteps
<1>4. n = 1
  <2>1. n # 1 => 1 \in 1 .. n - 1
    OBVIOUS
  <2> QED BY <1>2, <1>3, <2>1
<1> QED BY <1>1, <1>2, <1>4

(* Where the settings are what is read, nothing else is asked of the card. *)
LEMMA SettingsAlone ==
    ASSUME NEW o \in Operations, FlowOK(o),
           Head(IF o.stage = "resolve" THEN o.outer.body ELSE o.body) = "settings"
    PROVE  /\ o.steps[1] \in LeadSteps \cup {"settings", "uid"}
           /\ "settings" \in Ends(o.kind, o.want)
<1>1. CASE o.stage = "resolve"
  <2>1. "settings" \in Ends(o.kind, o.want)
    BY <1>1, SettingsBody DEF FlowOK, Operations
  <2> QED BY <1>1, <2>1, DoingFacts
<1>2. CASE o.stage # "resolve"
  <2>1. Len(o.body) = 1 /\ o.body[1] = "settings" /\ "settings" \in Ends(o.kind, o.want)
    BY <1>2, SettingsBody DEF FlowOK, Operations
  <2>2. PICK n \in Nat \ {0} : n = Len(o.steps)
    BY DoingFacts
  <2>3. CASE n > 1
    BY <2>1, <2>2, <2>3, DoingFacts
  <2>4. CASE n = 1
    <3>1. o.steps \in Seq(AllSteps) /\ o.body \in Seq(AllSteps) /\ Led(o.steps, o.body) /\ Len(o.body) > 0
      BY <2>1 DEF FlowOK, Operations
    <3>2. Len(o.steps) = 1 => o.steps[1] = o.body[Len(o.body)]
      BY <3>1, Placed
    <3> QED BY <2>1, <2>2, <2>4, <3>2
  <2> QED BY <2>1, <2>3, <2>4
<1> QED BY <1>1, <1>2

(* The step is done, and the next is taken.                                *)
LEMMA OnwardFlow ==
    ASSUME NEW o \in Operations, FlowOK(o), Len(o.steps) > 1, NEW sent \in BOOLEAN,
           NEW p, p = [o EXCEPT !.sent = sent, !.steps = Tail(o.steps)]
    PROVE  /\ p \in Operations /\ Same(p, o) /\ p.sent = sent /\ FlowOK(p)
           /\ p.stage = o.stage /\ p.key = o.key /\ p.body = o.body /\ p.steps = Tail(o.steps)
           /\ p.steps[1] = o.steps[2]
<1> DEFINE s == Tail(o.steps)
<1>1. /\ s \in Seq(AllSteps) /\ s[1] = o.steps[2] /\ Led(s, o.body)
  <2>1. o.steps \in Seq(AllSteps) /\ o.body \in Seq(AllSteps) /\ Led(o.steps, o.body)
    BY DEF Operations, FlowOK
  <2> QED BY <2>1, TailFacts, LedTail
<1> HIDE DEF s
<1>2. p = [o EXCEPT !.sent = sent, !.steps = s]
  BY DEF s
<1>3. /\ p \in Operations /\ Same(p, o) /\ p.sent = sent
      /\ p.stage = o.stage /\ p.key = o.key /\ p.body = o.body /\ p.steps = s /\ p.outer = o.outer
  BY <1>1, <1>2 DEF Operations, Same
<1>4. o.steps[1] \in {"told", "verify"} /\ o.stage \in {"held", "keyed", "resolve"} => o.key \in KeyNos
  <2>1. "told" \notin LeadSteps /\ "verify" \notin LeadSteps /\ "told" # "uid" /\ "verify" # "uid"
        /\ "told" \notin Middle(o.want) /\ "verify" \notin Middle(o.want)
    BY DEF LeadSteps, AuthWords, Middle, FileSteps
  <2>2. o.steps[1] \notin {"told", "verify"}
    <3>1. Len(o.steps) \in Nat /\ Len(o.body) \in Nat
      BY DEF Operations
    <3> QED BY <2>1, <3>1, DoingFacts
  <2> QED BY <2>2
<1>5. p.stage \in {"held", "keyed", "resolve"} => p.key \in KeyNos
  BY <1>3, <1>4 DEF FlowOK
<1>6. p.stage # "held"
  <2>1. o.stage = "held" => Len(o.steps) = 1
    BY DEF FlowOK
  <2> QED BY <1>3, <2>1
<1>7. p.stage \notin {"keyed", "resolve"} =>
          \A i \in 1 .. Len(p.steps) : p.steps[i] \notin LocalSteps \cup {"change"}
  <2>1. o.steps \in Seq(AllSteps)
    BY DEF Operations
  <2>2. /\ Len(s) = Len(o.steps) - 1 /\ Len(o.steps) \in Nat
        /\ \A i \in 1 .. Len(o.steps) - 1 : s[i] = o.steps[i + 1]
    BY <2>1, TailFacts DEF s
  <2> QED BY <1>3, <2>2 DEF FlowOK
<1>8. FlowOK(p)
  BY <1>1, <1>3, <1>5, <1>6, <1>7 DEF FlowOK, Same
<1> QED BY <1>1, <1>3, <1>8 DEF s
-----------------------------------------------------------------------------
(* What the operation owes the card.                                       *)

Is(f, m) == f = [nlen |-> 1, c1 |-> m, c2 |-> m]

(* A write is as far as its next step says.                                *)
FileOK(o, f) ==
    /\ o.steps[1] \in {"chunk1", "chunk2", "length"} => f.nlen = 0
    /\ o.steps[1] \in {"chunk2", "length"} => f.c1 = o.msg
    /\ o.steps[1] = "length" => f.c2 = o.msg

(* How far ConfigureSDM has come, and the settings a lock began with.      *)
TrueOK(o, f, fs) ==
    /\ o.kind = "lock" => o.was # NoWord /\ o.was.set = fs /\ (o.want = "change" => o.plan = Locked(fs))
    /\ o.kind = "sdm" =>
          /\ o.want = "write" => fs = o.was.set
          /\ o.want = "change" => Is(f, o.msg) /\ (~o.sent => fs = o.was.set)
          /\ o.want = "read" => Is(f, o.msg) /\ fs = o.plan

OpInv(o, f, fs) == o \in Operations /\ FlowOK(o) /\ FileOK(o, f) /\ TrueOK(o, f, fs)

(* What a failure says is so, with a write noted or not.                   *)
FailTrue(o, f, fs, sent) ==
    o.kind = "sdm" =>
        /\ o.want = "change" /\ ~sent => Is(f, o.msg) /\ fs = o.was.set
        /\ o.want = "read" => Is(f, o.msg) /\ fs = o.plan

Goes ==
    /\ op' = Idle \/ OpInv(op', card'.file, card'.set)
    /\ ReportIsTrue'

GoesAnew == Goes /\ (op' = Idle \/ (op'.stage # "resolve" /\ Quiet(op')))

(* An operation goes on, or ends in a report the card bears out.           *)
LEMMA IdleGoes ==
    ASSUME op' = Idle, ReportIsTrue'
    PROVE  GoesAnew
<1>1. Goes
  BY DEF Goes
<1>2. op' = Idle \/ (op'.stage # "resolve" /\ Quiet(op'))
  OBVIOUS
<1> QED BY <1>1, <1>2 DEF GoesAnew

LEMMA ContinueGoes ==
    ASSUME NEW o \in Operations, NEW p, Anew(p, o), Continue(p), TrueOK(o, card'.file, card'.set)
    PROVE  GoesAnew
<1>1. ReportIsTrue'
  BY DEF Continue, ReportIsTrue
<1>2. TrueOK(p, card'.file, card'.set)
  BY DEF Anew, Same, TrueOK
<1>3. FileOK(p, card'.file)
  BY DEF Anew, Quiet, FileOK
<1> QED BY <1>1, <1>2, <1>3 DEF GoesAnew, Goes, OpInv, Anew, Continue

LEMMA FailureGoes ==
    ASSUME op \in Operations, op.want \in WantOf(op.kind), Report(FALSE),
           FailTrue(op, card'.file, card'.set, Noted.sent)
    PROVE  GoesAnew
<1>1. op' = Idle /\ last'.ok = FALSE /\ last'.kind = op.kind /\ last'.msg = op.msg /\ last'.plan = op.plan
      /\ last'.was = op.was
      /\ last'.state = IF op.kind = "sdm" THEN SDMStateOf ELSE "none"
  BY DEF Report, Reported
<1> SUFFICES ReportIsTrue'
  BY <1>1, IdleGoes
<1>2. CASE op.kind # "sdm"
  BY <1>1, <1>2 DEF ReportIsTrue
<1>3. CASE op.kind = "sdm"
  <2>1. CASE op.want = "write"
    <3>1. SDMStateOf \in {"ndef indeterminate", "nothing written"}
      BY <2>1 DEF SDMStateOf
    <3> QED BY <1>1, <1>3, <3>1 DEF ReportIsTrue
  <2>2. CASE op.want = "change"
    <3>1. CASE Noted.sent
      <4>1. SDMStateOf = "settings indeterminate"
        BY <2>2, <3>1 DEF SDMStateOf
      <4> QED BY <1>1, <1>3, <4>1 DEF ReportIsTrue
    <3>2. CASE ~Noted.sent
      <4>1. SDMStateOf = "ndef written"
        BY <2>2, <3>2 DEF SDMStateOf
      <4> QED BY <1>1, <1>3, <2>2, <3>2, <4>1 DEF ReportIsTrue, FailTrue, Is, Whole
    <3> QED BY <3>1, <3>2
  <2>3. CASE op.want = "read"
    <3>1. SDMStateOf = "configured unverified"
      BY <2>3 DEF SDMStateOf
    <3> QED BY <1>1, <1>3, <2>3, <3>1 DEF ReportIsTrue, FailTrue, Is, Whole
  <2> QED BY <1>3, <2>1, <2>2, <2>3 DEF WantOf
<1> QED BY <1>2, <1>3
(* An error ends the operation, or has it go by key 0 or the ISO path.     *)
LEMMA FailGoes ==
    ASSUME op \in Operations, FlowOK(op), NEW e, Fail(e),
           FailTrue(op, card'.file, card'.set, Noted.sent),
           ForSettings => TrueOK(op, card'.file, card'.set)
    PROVE  GoesAnew
<1>1. op.want \in WantOf(op.kind) /\ op.kind \in Kinds /\ 0 \in KeyNos
  BY CardAssumption DEF FlowOK, Operations
<1>2. CASE ForSettings /\ op.want = "change" /\ e # "removed"
  <2>1. "change" \in Ends(op.kind, op.want)
    BY <1>2 DEF Ends, BodySteps
  <2>2. BodyOK(<<"change">>, op.kind, op.want) /\ <<"change">> \in Seq(AllSteps)
    BY <2>1, OneStepBody DEF Ends
  <2>3. Anew(Keyed(op, 0, <<"change">>), op)
    BY <1>1, <2>2, KeyedAnew
  <2>4. Continue(Keyed(op, 0, <<"change">>))
    BY <1>2 DEF Fail
  <2> QED BY <1>2, <2>3, <2>4, ContinueGoes
<1>3. CASE ForSettings /\ op.want \in {"read", "write", "writable"} /\ e = "other"
  <2>1. PICK b \in IsoBodies(op.want) : Continue(Iso(op, b))
    <3>1. CASE op.want = "read"
      <4>1. Continue(Iso(op, IsoOpen \o ReadAll))
        BY <1>3, <3>1 DEF Fail
      <4> QED BY <3>1, <4>1 DEF IsoBodies
    <3>2. CASE op.want = "write"
      <4>1. Continue(Iso(op, IsoOpen \o WriteAll))
        BY <1>3, <3>2 DEF Fail
      <4> QED BY <3>2, <4>1 DEF IsoBodies
    <3>3. CASE op.want = "writable"
      <4>1. Continue(Iso(op, <<"select", "selCC", "readCC">>))
        BY <1>3, <3>3 DEF Fail
      <4> QED BY <3>3, <4>1 DEF IsoBodies
    <3> QED BY <1>3, <3>1, <3>2, <3>3
  <2>2. Anew(Iso(op, b), op)
    BY <1>1, <2>1, IsoAnew
  <2> QED BY <1>3, <2>1, <2>2, ContinueGoes
<1>4. CASE /\ ~(ForSettings /\ op.want = "change" /\ e # "removed")
           /\ ~(ForSettings /\ op.want \in {"read", "write", "writable"} /\ e = "other")
  <2>1. Report(FALSE)
    BY <1>4, Zenon DEF Fail
  <2> QED BY <1>1, <2>1, FailureGoes
<1> QED BY <1>2, <1>3, <1>4

(* What the card has when it said yes, when it said no, and when nothing   *)
(* was heard of it.                                                        *)
Yes ==
    /\ card'.file = IF Doing \in FileSteps THEN Put(card.file, Doing, op.msg) ELSE card.file
    /\ Doing = "change" => card'.set = op.plan
    /\ Doing \notin {"change", "lrp"} => card'.set = card.set
    /\ Doing = "key" => card'.key[op.n] = "new"
    /\ Doing = "lrp" => card'.lrp

No == card'.file = card.file /\ card'.set = card.set

Unheard ==
    /\ Doing \notin FileSteps => card'.file = card.file
    /\ Doing \notin {"change", "lrp"} => card'.set = card.set

(* The next step of a stage finds the file as it should.                   *)
LEMMA OnwardGoes ==
    ASSUME OpInv(op, card.file, card.set), card.file \in File, Len(op.steps) > 1,
           Continue(Onward), Yes
    PROVE  Goes
<1> DEFINE sent == op.sent \/ (InSession /\ Doing \in Changes)
<1>1. op \in Operations /\ FlowOK(op) /\ sent \in BOOLEAN
  BY DEF OpInv, Operations
<1>2. Onward = [op EXCEPT !.sent = sent, !.steps = Tail(op.steps)]
  BY <1>1 DEF Onward, Noted, Operations
<1> HIDE DEF sent
<1>3. /\ Onward \in Operations /\ Same(Onward, op) /\ FlowOK(Onward)
      /\ Onward.sent = sent /\ Onward.steps[1] = op.steps[2]
  BY <1>1, <1>2, OnwardFlow
<1>4. Doing = op.steps[1] /\ Doing \in Middle(op.want) \cup LeadSteps
  <2>1. PICK n \in Nat \ {0} : n = Len(op.steps)
    BY <1>1, DoingFacts
  <2>2. PICK k \in Nat \ {0} : k = Len(op.body)
    BY <1>1, DoingFacts
  <2> QED BY <1>1, <2>1, <2>2, DoingFacts DEF Doing
<1>5. /\ Doing \notin {"change", "lrp"} /\ (op.want # "write" => Doing \notin FileSteps)
      /\ card'.set = card.set
  BY <1>4 DEF Yes, Middle, LeadSteps, AuthWords, FileSteps
<1>6. TrueOK(Onward, card'.file, card'.set)
  <2>1. op.want # "write" => card'.file = card.file
    BY <1>5 DEF Yes
  <2> QED BY <1>3, <1>5, <2>1 DEF OpInv, TrueOK, Same, sent
<1>7. FileOK(Onward, card'.file)
  <2>1. op.steps[2] \in {"chunk1", "chunk2", "length"} => Follows(Doing, op.steps[2])
    BY <1>1, <1>4, DoingFacts
  <2>2. CASE op.steps[2] = "chunk1"
    <3>1. Doing = "clear" /\ card'.file = [card.file EXCEPT !.nlen = 0]
      BY <2>1, <2>2 DEF Follows, Yes, Put, FileSteps
    <3> QED BY <1>3, <2>2, <3>1 DEF FileOK, File
  <2>3. CASE op.steps[2] = "chunk2"
    <3>1. Doing = "chunk1" /\ card'.file = [card.file EXCEPT !.c1 = op.msg] /\ card.file.nlen = 0
      BY <1>4, <2>1, <2>3 DEF Follows, Yes, Put, FileSteps, OpInv, FileOK
    <3> QED BY <1>3, <2>3, <3>1 DEF FileOK, File, Same
  <2>4. CASE op.steps[2] = "length"
    <3>1. Doing = "chunk2" /\ card'.file = [card.file EXCEPT !.c2 = op.msg]
          /\ card.file.nlen = 0 /\ card.file.c1 = op.msg
      BY <1>4, <2>1, <2>4 DEF Follows, Yes, Put, FileSteps, OpInv, FileOK
    <3> QED BY <1>3, <2>4, <3>1 DEF FileOK, File, Same
  <2> QED BY <1>3, <2>2, <2>3, <2>4 DEF FileOK
<1>8. ReportIsTrue'
  BY DEF Continue, ReportIsTrue
<1> QED BY <1>3, <1>6, <1>7, <1>8 DEF Goes, OpInv, Continue
(* Settings, keys and routes are of their types.                           *)
LEMMA LockedTyped ==
    ASSUME NEW fs \in Settings
    PROVE  Locked(fs) \in Settings
BY DEF Locked, Settings, Access

LEMMA LeastHeld ==
    ASSUME NEW S \in SUBSET KeyNos, S # {}
    PROVE  Least(S) \in S
<1>1. S \subseteq 0 .. 4
  BY CardAssumption
<1>2. \E n \in S : \A m \in S : n <= m
  <2>1. CASE 0 \in S
    BY <1>1, <2>1
  <2>2. CASE 0 \notin S /\ 1 \in S
    BY <1>1, <2>2
  <2>3. CASE 0 \notin S /\ 1 \notin S /\ 2 \in S
    BY <1>1, <2>3
  <2>4. CASE 0 \notin S /\ 1 \notin S /\ 2 \notin S /\ 3 \in S
    BY <1>1, <2>4
  <2>5. CASE 0 \notin S /\ 1 \notin S /\ 2 \notin S /\ 3 \notin S
    <3>1. ASSUME NEW m \in S PROVE m = 4
      <4>1. m \in 0 .. 4 /\ m # 0 /\ m # 1 /\ m # 2 /\ m # 3
        BY <1>1, <2>5
      <4> QED BY <4>1
    <3> QED BY <3>1
  <2> QED BY <2>1, <2>2, <2>3, <2>4, <2>5
<1> QED BY <1>2 DEF Least

(* A key that a right names, or any that is held, is one of the card's.    *)
LEMMA RouteIsKey ==
    ASSUME NEW fs \in Settings, NEW write \in BOOLEAN
    PROVE  /\ RouteKey(fs, write) \in KeyNos \cup {NoKey}
           /\ ChangeKeyFor(fs) \in KeyNos \cup {NoKey}
<1>1. AnyHeld \subseteq KeyNos /\ (AnyHeld # {} => Least(AnyHeld) \in KeyNos)
  <2>1. AnyHeld \subseteq KeyNos
    BY DEF AnyHeld
  <2> QED BY <2>1, LeastHeld
<1> QED BY <1>1 DEF RouteKey, ChangeKeyFor

(* A report of success that the card bears out.                            *)
LEMMA SuccessGoes ==
    ASSUME op \in Operations, NEW ok \in BOOLEAN, Report(ok),
           ok = FALSE => FailTrue(op, card'.file, card'.set, Noted.sent) /\ op.want \in WantOf(op.kind),
           op.kind = "write" => Is(card'.file, op.msg),
           op.kind \in {"change", "lock"} => card'.set = op.plan,
           op.kind = "lock" => /\ {card'.set.write, card'.set.rw} = {Never}
                               /\ Rights(op.was.set, FALSE) # {Never} => card'.set.read # Never,
           op.kind = "key" => card'.key[op.n] = "new",
           op.kind = "lrp" => card'.lrp,
           op.kind = "sdm" => Is(card'.file, op.msg) /\ card'.set = op.plan
    PROVE  GoesAnew
<1>1. CASE ok = FALSE
  BY <1>1, FailureGoes
<1>2. CASE ok = TRUE
  <2>1. /\ op' = Idle /\ last'.ok = TRUE /\ last'.kind = op.kind /\ last'.msg = op.msg
        /\ last'.plan = op.plan /\ last'.was = op.was /\ last'.n = op.n /\ last'.state = "none"
    BY <1>2 DEF Report, Reported
  <2> SUFFICES ReportIsTrue'
    BY <2>1, IdleGoes
  <2>2. CASE op.kind = "write"
    BY <2>1, <2>2 DEF ReportIsTrue, Is, Whole
  <2>3. CASE op.kind = "change"
    BY <2>1, <2>3 DEF ReportIsTrue
  <2>4. CASE op.kind = "lock"
    BY <2>1, <2>4 DEF ReportIsTrue
  <2>5. CASE op.kind = "key"
    BY <2>1, <2>5 DEF ReportIsTrue
  <2>6. CASE op.kind = "lrp"
    BY <2>1, <2>6 DEF ReportIsTrue
  <2>7. CASE op.kind = "sdm"
    BY <2>1, <2>7 DEF ReportIsTrue, Is, Whole
  <2>8. CASE op.kind \notin {"write", "change", "lock", "key", "lrp", "sdm"}
    BY <2>1, <2>8 DEF ReportIsTrue
  <2> QED BY <2>2, <2>3, <2>4, <2>5, <2>6, <2>7, <2>8
<1> QED BY <1>1, <1>2

(* The settings are read, and the card is as it was.                       *)
LEMMA SettledGoes ==
    ASSUME OpInv(op, card.file, card.set), card.set \in Settings, No, Settled,
           "settings" \in Ends(op.kind, op.want), t'.session \in KeyNos \cup {NoKey}
    PROVE  GoesAnew
<1> DEFINE fs == card.set
<1>1. /\ op \in Operations /\ FlowOK(op) /\ TrueOK(op, card'.file, card'.set)
      /\ op.want \in WantOf(op.kind) /\ op.kind \in Kinds
      /\ FailTrue(op, card'.file, card'.set, Noted.sent)
  <2>1. Noted.sent = FALSE => op.sent = FALSE
    BY DEF Noted, OpInv, Operations
  <2>2. op \in Operations /\ FlowOK(op) /\ TrueOK(op, card.file, card.set)
    BY DEF OpInv
  <2>3. op.want \in WantOf(op.kind) /\ op.kind \in Kinds
    BY <2>2 DEF FlowOK, Operations
  <2>4. TrueOK(op, card'.file, card'.set)
    BY <2>2 DEF No
  <2>5. FailTrue(op, card'.file, card'.set, Noted.sent)
    BY <2>1, <2>4 DEF TrueOK, FailTrue
  <2> QED BY <2>2, <2>3, <2>4, <2>5
<1>2. /\ RouteKey(fs, TRUE) \in KeyNos \cup {NoKey} /\ RouteKey(fs, FALSE) \in KeyNos \cup {NoKey}
      /\ ChangeKeyFor(fs) \in KeyNos \cup {NoKey}
  BY RouteIsKey
<1>3. CASE op.want = "none"
  <2>1. op.kind = "settings"
    BY <1>3 DEF Ends
  <2>2. Report(TRUE)
    BY <1>3 DEF Settled
  <2> QED BY <1>1, <2>1, <2>2, SuccessGoes
<1>4. CASE op.want = "writable"
  <2>1. op.kind = "writable"
    BY <1>1, <1>4 DEF WantOf
  <2>2. Report(IsoRoute(fs, TRUE) \/ RouteKey(fs, TRUE) # NoKey)
    BY <1>4 DEF Settled
  <2> QED BY <1>1, <2>1, <2>2, SuccessGoes DEF IsoRoute
<1>5. CASE op.want = "read"
  <2>1. CASE Report(FALSE)
    BY <1>1, <2>1, FailureGoes
  <2>2. CASE Continue(Iso(op, IsoOpen \o ReadAll))
    <3>1. Anew(Iso(op, IsoOpen \o ReadAll), op)
      <4>1. IsoOpen \o ReadAll \in IsoBodies(op.want)
        BY <1>5 DEF IsoBodies
      <4> QED BY <1>1, <4>1, IsoAnew
    <3> QED BY <1>1, <2>2, <3>1, ContinueGoes
  <2>3. CASE RouteKey(fs, FALSE) # NoKey /\ Continue(Keyed(op, RouteKey(fs, FALSE), ReadAll))
    <3>1. Anew(Keyed(op, RouteKey(fs, FALSE), ReadAll), op)
      BY <1>1, <1>2, <1>5, <2>3, WrittenBodies, KeyedAnew
    <3> QED BY <1>1, <2>3, <3>1, ContinueGoes
  <2> QED BY <1>5, <2>1, <2>2, <2>3 DEF Settled
<1>6. CASE op.want = "write"
  <2>1. CASE Report(FALSE)
    BY <1>1, <2>1, FailureGoes
  <2>2. CASE Continue(Iso([op EXCEPT !.sent = TRUE], IsoOpen \o WriteAll))
    <3> DEFINE o == [op EXCEPT !.sent = TRUE]
    <3>1. o \in Operations /\ Same(o, op) /\ o.sent = TRUE
      BY <1>1 DEF Operations, Same
    <3>2. TrueOK(o, card'.file, card'.set)
      BY <1>1, <1>6, <3>1 DEF TrueOK, Same
    <3> HIDE DEF o
    <3>3. Anew(Iso(o, IsoOpen \o WriteAll), o)
      BY <1>1, <1>6, <3>1, IsoAnew DEF Same, IsoBodies
    <3> QED BY <2>2, <3>1, <3>2, <3>3, ContinueGoes DEF o
  <2>3. CASE RouteKey(fs, TRUE) # NoKey /\ Continue(Keyed(op, RouteKey(fs, TRUE), WriteAll))
    <3>1. Anew(Keyed(op, RouteKey(fs, TRUE), WriteAll), op)
      BY <1>1, <1>2, <1>6, <2>3, WrittenBodies, KeyedAnew
    <3> QED BY <1>1, <2>3, <3>1, ContinueGoes
  <2> QED BY <1>6, <2>1, <2>2, <2>3 DEF Settled
<1>7. CASE op.want = "change"
  <2>1. CASE Report(FALSE)
    BY <1>1, <2>1, FailureGoes
  <2>2. CASE ChangeKeyFor(fs) # NoKey /\ Continue(Keyed(op, ChangeKeyFor(fs), <<"change">>))
    <3>1. BodyOK(<<"change">>, op.kind, op.want) /\ <<"change">> \in Seq(AllSteps)
      <4>1. "change" \in Ends(op.kind, op.want) /\ "change" \in BodySteps
        BY <1>7 DEF Ends, BodySteps
      <4> QED BY <4>1, OneStepBody
    <3>2. Anew(Keyed(op, ChangeKeyFor(fs), <<"change">>), op)
      BY <1>1, <1>2, <2>2, <3>1, KeyedAnew
    <3> QED BY <1>1, <2>2, <3>2, ContinueGoes
  <2> QED BY <1>7, <2>1, <2>2 DEF Settled
<1>8. CASE op.want = "lock"
  <2>1. CASE Report(FALSE)
    BY <1>1, <2>1, FailureGoes
  <2>2. CASE Continue(Ask([op EXCEPT !.want = "change", !.plan = Locked(fs)], "settings", t'.session))
    <3> DEFINE o == [op EXCEPT !.want = "change", !.plan = Locked(fs)]
    <3>1. op.kind = "lock"
      BY <1>1, <1>8 DEF WantOf
    <3>2. /\ o \in Operations /\ o.kind = op.kind /\ o.want = "change" /\ o.plan = Locked(fs)
          /\ o.was = op.was
      BY <1>1, LockedTyped DEF Operations, Wants
    <3>3. TrueOK(o, card'.file, card'.set)
      BY <1>1, <3>1, <3>2 DEF TrueOK, No
    <3> HIDE DEF o
    <3>4. o.want \in WantOf(o.kind) /\ "settings" \in Ends(o.kind, o.want)
      BY <3>1, <3>2 DEF WantOf, Wants, Ends, BodySteps
    <3>5. Anew(Ask(o, "settings", t'.session), o)
      BY <3>2, <3>4, AskAnew
    <3> QED BY <2>2, <3>2, <3>3, <3>5, ContinueGoes DEF o
  <2> QED BY <1>8, <2>1, <2>2 DEF Settled
<1> QED BY <1>1, <1>3, <1>4, <1>5, <1>6, <1>7, <1>8 DEF WantOf, Wants
(* A stage ends well: the next, or a report of what was done.              *)
LEMMA DoneGoes ==
    ASSUME OpInv(op, card.file, card.set), card.file \in File, card.set \in Settings, Yes, Done,
           Doing \in Ends(op.kind, op.want), Doing # "settings", Doing = op.steps[1],
           t'.session \in KeyNos \cup {NoKey}
    PROVE  GoesAnew
<1>1. /\ op \in Operations /\ FlowOK(op) /\ TrueOK(op, card.file, card.set)
      /\ FileOK(op, card.file) /\ op.want \in WantOf(op.kind) /\ op.kind \in Kinds
  BY DEF OpInv, FlowOK, Operations
<1>2. op.want = "write" => Doing = "length" /\ Is(card'.file, op.msg) /\ card'.set = card.set
  <2> SUFFICES ASSUME op.want = "write"
               PROVE  Doing = "length" /\ Is(card'.file, op.msg) /\ card'.set = card.set
    OBVIOUS
  <2>1. Doing = "length"
    BY DEF Ends
  <2>2. card'.file = [card.file EXCEPT !.nlen = 1] /\ card'.set = card.set
    BY <2>1 DEF Yes, FileSteps, Put
  <2>3. card.file.c1 = op.msg /\ card.file.c2 = op.msg
    BY <1>1, <2>1 DEF FileOK
  <2> QED BY <2>1, <2>2, <2>3 DEF Is, File
<1>3. op.want = "change" => Doing = "change" /\ card'.file = card.file /\ card'.set = op.plan
  BY DEF Ends, Yes, FileSteps
<1>4. op.want \in {"read", "writable", "none"} => card'.file = card.file
  BY <1>1 DEF Ends, Yes, FileSteps, WantOf, Wants
<1>5. op.want = "read" => card'.set = card.set
  BY DEF Ends, Yes
<1>6. \A w : w \in {"change", "read"} =>
          /\ [op EXCEPT !.want = w, !.sent = FALSE] \in Operations
          /\ [op EXCEPT !.want = w, !.sent = FALSE].kind = op.kind
          /\ [op EXCEPT !.want = w, !.sent = FALSE].want = w
          /\ [op EXCEPT !.want = w, !.sent = FALSE].msg = op.msg
          /\ [op EXCEPT !.want = w, !.sent = FALSE].plan = op.plan
          /\ [op EXCEPT !.want = w, !.sent = FALSE].was = op.was
  BY <1>1 DEF Operations, Wants
<1>7. CASE op.want = "write" /\ op.kind = "sdm"
  <2>1. CASE Continue(Ask([op EXCEPT !.want = "change", !.sent = FALSE], "settings", t'.session))
    <3> DEFINE o == [op EXCEPT !.want = "change", !.sent = FALSE]
    <3>1. o \in Operations /\ o.kind = "sdm" /\ o.want = "change" /\ o.msg = op.msg /\ o.was = op.was
      BY <1>6, <1>7
    <3> HIDE DEF o
    <3>2. TrueOK(o, card'.file, card'.set)
      BY <1>1, <1>2, <1>7, <3>1 DEF TrueOK
    <3>3. o.want \in WantOf(o.kind) /\ "settings" \in Ends(o.kind, o.want)
      BY <3>1 DEF WantOf, Wants, Ends, BodySteps
    <3>4. Anew(Ask(o, "settings", t'.session), o)
      BY <3>1, <3>3, AskAnew
    <3> QED BY <2>1, <3>1, <3>2, <3>4, ContinueGoes DEF o
  <2>2. CASE Reported(FALSE, "ndef written")
    <3>1. /\ op' = Idle /\ last'.ok = FALSE /\ last'.kind = "sdm" /\ last'.msg = op.msg
          /\ last'.state = "ndef written" /\ last'.was = op.was
      BY <1>7, <2>2 DEF Reported
    <3>2. card'.set = op.was.set
      BY <1>1, <1>2, <1>7 DEF TrueOK
    <3>3. ReportIsTrue'
      BY <1>2, <1>7, <3>1, <3>2 DEF ReportIsTrue, Is, Whole
    <3> QED BY <3>1, <3>3, IdleGoes
  <2> QED BY <1>7, <2>1, <2>2 DEF Done
<1>8. CASE op.want = "change" /\ op.kind = "sdm"
  <2>1. Continue(Ask([op EXCEPT !.want = "read", !.sent = FALSE], "settings", t'.session))
    BY <1>8 DEF Done
  <2> DEFINE o == [op EXCEPT !.want = "read", !.sent = FALSE]
  <2>2. /\ o \in Operations /\ o.kind = "sdm" /\ o.want = "read" /\ o.msg = op.msg /\ o.was = op.was
        /\ o.plan = op.plan
    BY <1>6, <1>8
  <2> HIDE DEF o
  <2>3. TrueOK(o, card'.file, card'.set)
    BY <1>1, <1>3, <1>8, <2>2 DEF TrueOK
  <2>4. o.want \in WantOf(o.kind) /\ "settings" \in Ends(o.kind, o.want)
    BY <2>2 DEF WantOf, Wants, Ends, BodySteps
  <2>5. Anew(Ask(o, "settings", t'.session), o)
    BY <2>2, <2>4, AskAnew
  <2> QED BY <2>1, <2>2, <2>3, <2>5, ContinueGoes DEF o
<1>9. CASE op.want = "read" /\ op.kind = "sdm"
  <2>1. Continue([op EXCEPT !.stage = "keyed", !.body = <<"verify">>, !.steps = <<"verify">>])
    BY <1>9 DEF Done
  <2>2. "verify" \in Ends(op.kind, op.want)
    BY <1>9 DEF Ends, BodySteps
  <2>3. Anew([op EXCEPT !.stage = "keyed", !.body = <<"verify">>, !.steps = <<"verify">>], op)
    BY <1>1, <2>2, AloneAnew
  <2>4. TrueOK(op, card'.file, card'.set)
    BY <1>1, <1>4, <1>5, <1>9 DEF TrueOK
  <2> QED BY <1>1, <2>1, <2>3, <2>4, ContinueGoes
<1>10. CASE op.kind # "sdm"
  <2>1. Report(TRUE)
    BY <1>10 DEF Done
  <2>2. op.kind = "write" => Is(card'.file, op.msg)
    BY <1>1, <1>2 DEF WantOf
  <2>3. op.kind \in {"change", "lock"} => op.want = "change" /\ card'.set = op.plan
    BY <1>1, <1>3 DEF WantOf, Ends
  <2>4. op.kind = "lock" =>
            /\ {card'.set.write, card'.set.rw} = {Never}
            /\ Rights(op.was.set, FALSE) # {Never} => card'.set.read # Never
    <3> SUFFICES ASSUME op.kind = "lock"
                 PROVE  /\ card'.set.write = Never /\ card'.set.rw = Never
                        /\ Rights(op.was.set, FALSE) # {Never} => card'.set.read # Never
      OBVIOUS
    <3>1. op.was.set = card.set /\ card'.set = Locked(card.set)
      BY <1>1, <2>3 DEF TrueOK
    <3>2. /\ Locked(card.set).write = Never /\ Locked(card.set).rw = Never
          /\ Locked(card.set).read = IF card.set.read = Never THEN card.set.rw ELSE card.set.read
      BY DEF Locked, Settings
    <3>3. Rights(card.set, FALSE) # {Never} => card.set.read # Never \/ card.set.rw # Never
      BY DEF Rights
    <3> QED BY <3>1, <3>2, <3>3
  <2>5. op.kind = "key" => card'.key[op.n] = "new"
    BY <1>1 DEF WantOf, Ends, Yes
  <2>6. op.kind = "lrp" => card'.lrp
    BY <1>1 DEF WantOf, Ends, Yes
  <2> QED BY <1>1, <1>10, <2>1, <2>2, <2>3, <2>4, <2>5, <2>6, SuccessGoes
<1> QED BY <1>1, <1>7, <1>8, <1>9, <1>10 DEF WantOf
-----------------------------------------------------------------------------
(* What is asked of the card.                                              *)

Answers == {"ok", "sw", "AD", "lrp", "af", "1C", "AE", "1E", "9D", "7E"}

(* The card as it is typed, with its count free.                           *)
CardTypes ==
    [key : [KeyNos -> KeyValues], file : File, set : Settings,
     sess : KeyNos \cup {NoKey}, ours : BOOLEAN, pend : KeyNos \cup {NoKey},
     app : BOOLEAN, sel : {"none", "cc", "ndef"},
     fails : Nat, lrp : BOOLEAN, random : BOOLEAN]

(* What no command of these does: the file, the settings, the keys.        *)
Untouched(c, r) ==
    /\ r.card \in CardTypes /\ r.ans \in Answers
    /\ r.card.file = c.file /\ r.card.set = c.set /\ r.card.key = c.key
    /\ r.card.random = c.random /\ r.card.lrp = c.lrp

(* Each command of the card, and what it leaves as it was.                 *)
LEMMA IsoCommands ==
    ASSUME NEW c \in CardTypes, NEW what \in {"app", "cc", "ndef"}
    PROVE  /\ Untouched(c, IsoSelect(c, what)) /\ IsoSelect(c, what).card.fails = c.fails
           /\ IsoSelect(c, what).card.pend = NoKey
           /\ Untouched(c, IsoRead(c)) /\ IsoRead(c).card = c
<1>1. PICK d : d = ClearSelection(c)
  OBVIOUS
<1>2. /\ d \in CardTypes /\ d.file = c.file /\ d.set = c.set /\ d.key = c.key /\ d.random = c.random
      /\ d.lrp = c.lrp /\ d.fails = c.fails /\ d.pend = NoKey
  <2>1. d = [c EXCEPT !.sess = NoKey, !.ours = FALSE, !.pend = NoKey, !.sel = "none"]
    BY <1>1 DEF ClearSelection, DropSession
  <2> QED BY <2>1 DEF CardTypes
<1>3. PICK a \in {"ok", "sw"},
           e \in {d, [d EXCEPT !.app = TRUE], [d EXCEPT !.sel = "cc"], [d EXCEPT !.sel = "ndef"]} :
         IsoSelect(c, what) = [card |-> e, ans |-> a]
  <2>1. CASE what = "app"
    BY <1>1, <2>1 DEF IsoSelect, Answer
  <2>2. CASE what # "app" /\ IsoSelect(c, what) = [card |-> d, ans |-> "sw"]
    BY <2>2
  <2>3. CASE what # "app" /\ IsoSelect(c, what) = [card |-> [d EXCEPT !.sel = what], ans |-> "ok"]
    BY <2>3
  <2> QED BY <1>1, <2>1, <2>2, <2>3 DEF IsoSelect, Answer
<1>4. /\ e \in CardTypes /\ e.file = d.file /\ e.set = d.set /\ e.key = d.key /\ e.random = d.random
      /\ e.lrp = d.lrp /\ e.fails = d.fails /\ e.pend = d.pend
  BY <1>2, <1>3 DEF CardTypes
<1>5. /\ Untouched(c, IsoSelect(c, what)) /\ IsoSelect(c, what).card.fails = c.fails
      /\ IsoSelect(c, what).card.pend = NoKey
  BY <1>2, <1>3, <1>4 DEF Untouched, Answers
<1>6. Untouched(c, IsoRead(c)) /\ IsoRead(c).card = c
  BY DEF Untouched, IsoRead, Answer, Answers
<1> QED BY <1>5, <1>6

LEMMA AuthFirstCommand ==
    ASSUME NEW c \in CardTypes, NEW n \in KeyNos \cup {NoKey}
    PROVE  /\ Untouched(c, AuthFirst(c, n)) /\ AuthFirst(c, n).card.fails = c.fails
           /\ AuthFirst(c, n).ans \in {"AD", "lrp", "af"}
           /\ AuthFirst(c, n).ans = "AD" => AuthFirst(c, n).card.pend = NoKey
           /\ AuthFirst(c, n).ans # "AD" => AuthFirst(c, n).card.pend = n /\ c.fails < FailLimit
BY CardAssumption DEF Untouched, AuthFirst, Answer, CardTypes, Answers

LEMMA AuthSecondCommand ==
    ASSUME NEW c \in CardTypes, NEW v
    PROVE  LET r == AuthSecond(c, v) IN
           /\ Untouched(c, r) /\ r.card.pend = NoKey
           /\ \/ r.card.fails = c.fails /\ c.pend = NoKey /\ r.ans = "1C"
              \/ r.card.fails = 0 /\ c.pend # NoKey /\ r.ans = "ok"
              \/ /\ r.card.fails = c.fails + 1 /\ r.ans = "AE"
                 /\ c.pend # NoKey /\ c.key[c.pend] # v
<1> DEFINE r == AuthSecond(c, v)
           Second == /\ Untouched(c, r) /\ r.card.pend = NoKey
                     /\ \/ r.card.fails = c.fails /\ c.pend = NoKey /\ r.ans = "1C"
                        \/ r.card.fails = 0 /\ c.pend # NoKey /\ r.ans = "ok"
                        \/ /\ r.card.fails = c.fails + 1 /\ r.ans = "AE"
                           /\ c.pend # NoKey /\ c.key[c.pend] # v
<1>2. ASSUME c.pend = NoKey PROVE Second
  <2>1. r.card = c /\ r.ans = "1C"
    BY <1>2 DEF AuthSecond, Answer
  <2> HIDE DEF r
  <2> QED BY <1>2, <2>1 DEF Untouched, Answers
<1>3. ASSUME c.pend # NoKey, c.key[c.pend] = v PROVE Second
  <2> DEFINE d == [c EXCEPT !.sess = c.pend, !.ours = TRUE, !.pend = NoKey, !.fails = 0]
  <2>1. r.card = d /\ r.ans = "ok"
    BY <1>3 DEF AuthSecond, Answer
  <2>2. /\ d \in CardTypes /\ d.file = c.file /\ d.set = c.set /\ d.key = c.key /\ d.random = c.random
        /\ d.lrp = c.lrp /\ d.fails = 0 /\ d.pend = NoKey
    BY DEF CardTypes
  <2> HIDE DEF d, r
  <2> QED BY <1>3, <2>1, <2>2 DEF Untouched, Answers
<1>4. ASSUME c.pend # NoKey, c.key[c.pend] # v PROVE Second
  <2> DEFINE e == DropSession(c)  d == [e EXCEPT !.fails = e.fails + 1]
  <2>1. r.card = d /\ r.ans = "AE"
    BY <1>4 DEF AuthSecond, Answer
  <2>2. /\ e \in CardTypes /\ e.file = c.file /\ e.set = c.set /\ e.key = c.key /\ e.random = c.random
        /\ e.lrp = c.lrp /\ e.fails = c.fails /\ e.pend = NoKey
    BY DEF CardTypes, DropSession
  <2> HIDE DEF e
  <2>3. /\ d \in CardTypes /\ d.file = c.file /\ d.set = c.set /\ d.key = c.key /\ d.random = c.random
        /\ d.lrp = c.lrp /\ d.fails = c.fails + 1 /\ d.pend = NoKey
    BY <2>2 DEF CardTypes
  <2> HIDE DEF d, r
  <2> QED BY <1>4, <2>1, <2>3 DEF Untouched, Answers
<1> QED BY <1>2, <1>3, <1>4

(* The reads of settings, version, file, UID and signature.                *)
LEMMA ReadCommands ==
    ASSUME NEW c \in CardTypes, NEW inSession \in BOOLEAN, NEW open \in BOOLEAN
    PROVE  /\ Untouched(c, Plainly(c, inSession, open)) /\ Untouched(c, ReadData(c)) /\ Untouched(c, Tell(c))
           /\ \A r \in {Plainly(c, inSession, open), ReadData(c), Tell(c)} :
                 r.card.fails = c.fails /\ r.card.pend \in {c.pend, NoKey}
<1>1. LET r == Plainly(c, inSession, open) IN
      Untouched(c, r) /\ r.card.fails = c.fails /\ r.card.pend \in {c.pend, NoKey}
  BY DEF Untouched, Plainly, Answer, CardTypes, Answers, DropSession
<1>2. LET r == ReadData(c) IN
      Untouched(c, r) /\ r.card.fails = c.fails /\ r.card.pend \in {c.pend, NoKey}
  BY DEF Untouched, ReadData, Native, Refusal, Answer, CardTypes, Answers, DropSession
<1>3. LET r == Tell(c) IN
      Untouched(c, r) /\ r.card.fails = c.fails /\ r.card.pend \in {c.pend, NoKey}
  BY DEF Untouched, Tell, Secure, Answer, CardTypes, Answers, DropSession
<1> QED BY <1>1, <1>2, <1>3

(* A command that changes the card does so, or leaves it as it was.        *)
Other(c, r) ==
    /\ r.card \in CardTypes /\ r.ans \in Answers
    /\ r.card.random = c.random /\ r.card.fails = c.fails /\ r.card.pend \in {c.pend, NoKey}
    /\ r.ans # "ok" => Untouched(c, r)

LEMMA PutTyped ==
    ASSUME NEW f \in File, NEW part \in FileSteps, NEW m \in Msgs
    PROVE  Put(f, part, m) \in File
BY DEF Put, File, FileSteps

Wrote(c, r, f) ==
    /\ Other(c, r) /\ r.card.set = c.set
    /\ r.ans = "ok" => r.card.file = f

(* A write puts its part, or leaves the card as it was.                    *)
LEMMA WriteCommands ==
    ASSUME NEW c \in CardTypes, NEW part \in FileSteps, NEW m \in Msgs
    PROVE  /\ ~IntoCC(c, part) => Wrote(c, IsoUpdate(c, part, m), Put(c.file, part, m))
           /\ Wrote(c, WriteData(c, part, m), Put(c.file, part, m))
<1>1. PICK f \in File : f = Put(c.file, part, m)
  BY PutTyped DEF CardTypes
<1>2. ASSUME NEW d \in {c, [c EXCEPT !.pend = NoKey], DropSession(c)}, NEW a \in Answers \ {"ok"}
      PROVE  Wrote(c, Answer(d, a), f)
  <2>1. /\ d \in CardTypes /\ d.file = c.file /\ d.set = c.set /\ d.key = c.key /\ d.random = c.random
        /\ d.lrp = c.lrp /\ d.fails = c.fails /\ d.pend \in {c.pend, NoKey}
    <3>1. CASE d = c
      BY <3>1 DEF CardTypes
    <3>2. CASE d = [c EXCEPT !.pend = NoKey]
      BY <3>2 DEF CardTypes
    <3>3. CASE d = [c EXCEPT !.sess = NoKey, !.ours = FALSE, !.pend = NoKey]
      BY <3>3 DEF CardTypes
    <3> QED BY <3>1, <3>2, <3>3 DEF DropSession
  <2>2. Answer(d, a).card = d /\ Answer(d, a).ans = a
    BY DEF Answer
  <2> QED BY <2>1, <2>2 DEF Wrote, Other, Untouched
<1>3. ASSUME NEW d \in {[c EXCEPT !.file = f], [c EXCEPT !.pend = NoKey, !.file = f]}
      PROVE  Wrote(c, Answer(d, "ok"), f)
  BY <1>1 DEF Wrote, Answer, Other, Untouched, CardTypes, Answers
<1>4. ASSUME ~IntoCC(c, part) PROVE Wrote(c, IsoUpdate(c, part, m), f)
  <2>1. \/ IsoUpdate(c, part, m) = Answer([c EXCEPT !.file = f], "ok")
        \/ IsoUpdate(c, part, m) = Answer(c, "sw")
    BY <1>1, <1>4 DEF IsoUpdate, CardTypes
  <2> QED BY <1>2, <1>3, <2>1 DEF Answers
<1>5. Wrote(c, WriteData(c, part, m), f)
  <2>1. \/ WriteData(c, part, m) = Answer(DropSession(c), "1E")
        \/ WriteData(c, part, m) = Answer([c EXCEPT !.pend = NoKey], Refusal(c, TRUE))
        \/ WriteData(c, part, m) = Answer([c EXCEPT !.pend = NoKey], "7E")
        \/ WriteData(c, part, m) = Answer([c EXCEPT !.pend = NoKey, !.file = f], "ok")
    BY <1>1 DEF WriteData, Native, CardTypes
  <2>2. {"1E", "7E", "sw", Refusal(c, TRUE)} \subseteq Answers \ {"ok"}
    BY DEF Refusal, Answers
  <2> QED BY <1>2, <1>3, <2>1, <2>2
<1> QED BY <1>1, <1>4, <1>5

(* So do the changes of settings, key and configuration.                   *)
LEMMA ChangeCommands ==
    ASSUME NEW c \in CardTypes, NEW fs \in Settings, NEW n \in KeyNos, NEW old
    PROVE  /\ Other(c, ChangeFileSettings(c, fs)) /\ ChangeFileSettings(c, fs).card.file = c.file
           /\ ChangeFileSettings(c, fs).ans = "ok" => ChangeFileSettings(c, fs).card.set = fs
           /\ LET r == ChangeKey(c, n, old, "new") IN
              /\ Other(c, r) /\ r.card.file = c.file /\ r.card.set = c.set
              /\ r.ans = "ok" => r.card.key[n] = "new"
           /\ LET r == SetLRP(c) IN
              Other(c, r) /\ r.card.file = c.file /\ (r.ans = "ok" => r.card.lrp)
<1> USE DEF Secure, Answer, DropSession, Other, Untouched, CardTypes, Answers
<1>1. /\ Other(c, ChangeFileSettings(c, fs)) /\ ChangeFileSettings(c, fs).card.file = c.file
      /\ ChangeFileSettings(c, fs).ans = "ok" => ChangeFileSettings(c, fs).card.set = fs
  BY DEF ChangeFileSettings
<1>2. LET r == ChangeKey(c, n, old, "new") IN
      /\ Other(c, r) /\ r.card.file = c.file /\ r.card.set = c.set
      /\ r.ans = "ok" => r.card.key[n] = "new"
  BY DEF ChangeKey, KeyValues
<1>3. LET r == SetLRP(c) IN
      Other(c, r) /\ r.card.file = c.file /\ (r.ans = "ok" => r.card.lrp)
  BY DEF SetLRP, Settings
<1> QED BY <1>1, <1>2, <1>3

(* What an answer to the step may be, and what it says of the card.        *)
Counted(r) ==
    /\ Doing \in {"auth1", "lrp1"} =>
          /\ r.card.fails = card.fails
          /\ r.ans = "AD" => r.card.pend = NoKey
          /\ r.ans # "AD" => r.card.pend = op.key /\ card.fails < FailLimit
    /\ Doing = "auth2" =>
          /\ r.card.pend = NoKey
          /\ \/ r.card.fails = card.fails
             \/ r.card.fails = 0
             \/ /\ r.card.fails = card.fails + 1 /\ r.ans = "AE"
                /\ card.pend # NoKey /\ card.key[card.pend] # KeyFor(op.key)
    /\ Doing \notin AuthWords => r.card.fails = card.fails /\ r.card.pend \in {card.pend, NoKey}

Outcome(r) ==
    /\ r.card \in CardTypes /\ r.ans \in Answers /\ r.card.random = card.random
    /\ Doing \notin FileSteps => r.card.file = card.file
    /\ Doing \notin {"change", "lrp"} => r.card.set = card.set
    /\ r.ans = "ok" =>
          /\ Doing \in FileSteps => r.card.file = Put(card.file, Doing, op.msg)
          /\ Doing = "change" => r.card.set = op.plan
          /\ Doing = "key" => r.card.key[op.n] = "new"
          /\ Doing = "lrp" => r.card.lrp
    /\ r.ans # "ok" => r.card.file = card.file /\ r.card.set = card.set
    /\ Counted(r)

(* The steps that leave the file, the settings and the keys alone.         *)
LEMMA UntouchedOutcome ==
    ASSUME NEW r, Untouched(card, r), Doing \notin AuthWords \cup FileSteps \cup {"change", "key", "lrp"},
           r.card.fails = card.fails, r.card.pend \in {card.pend, NoKey}
    PROVE  Outcome(r)
BY DEF Outcome, Counted, Untouched, AuthWords

(* What is asked has one of these outcomes.                                *)
LEMMA AskedOutcome ==
    ASSUME op \in Operations, card \in CardTypes, Doing \in AllSteps \ {"enter", "old", "verify", "told"},
           ~Diverted
    PROVE  Outcome(Asked)
<1>1. /\ op.msg \in Msgs /\ op.plan \in Settings /\ op.n \in KeyNos /\ op.key \in KeyNos \cup {NoKey}
      /\ InSession \in BOOLEAN /\ SettingsOpen(card.set) \in BOOLEAN
  BY DEF Operations, InSession, SettingsOpen
<1>2. CASE Doing \in {"select", "selCC", "selNdef", "readCC"}
  <2>1. PICK what \in {"app", "cc", "ndef"} : Asked \in {IsoSelect(card, what), IsoRead(card)}
    BY <1>2 DEF Asked
  <2>2. /\ Untouched(card, IsoSelect(card, what)) /\ IsoSelect(card, what).card.fails = card.fails
        /\ IsoSelect(card, what).card.pend = NoKey
        /\ Untouched(card, IsoRead(card)) /\ IsoRead(card).card = card
    BY IsoCommands
  <2>3. Untouched(card, Asked) /\ Asked.card.fails = card.fails /\ Asked.card.pend \in {card.pend, NoKey}
    BY <2>1, <2>2
  <2> QED BY <1>2, <2>3, UntouchedOutcome DEF AuthWords, FileSteps
<1>3. CASE Doing \in {"settings", "version", "uid", "sig", "nlen", "part"}
  <2>1. PICK open \in BOOLEAN :
            Asked \in {Plainly(card, InSession, open), ReadData(card), Tell(card), IsoRead(card)}
    BY <1>1, <1>3 DEF Asked
  <2>2. /\ Untouched(card, Plainly(card, InSession, open)) /\ Untouched(card, ReadData(card))
        /\ Untouched(card, Tell(card))
        /\ \A r \in {Plainly(card, InSession, open), ReadData(card), Tell(card)} :
              r.card.fails = card.fails /\ r.card.pend \in {card.pend, NoKey}
    BY <1>1, ReadCommands
  <2>3. Untouched(card, IsoRead(card)) /\ IsoRead(card).card = card
    BY IsoCommands
  <2>4. Untouched(card, Asked) /\ Asked.card.fails = card.fails /\ Asked.card.pend \in {card.pend, NoKey}
    BY <2>1, <2>2, <2>3
  <2> QED BY <1>3, <2>4, UntouchedOutcome DEF AuthWords, FileSteps
<1>4. CASE Doing \in {"auth1", "lrp1"}
  <2>1. Asked = AuthFirst(card, op.key)
    BY <1>4 DEF Asked
  <2> DEFINE r == AuthFirst(card, op.key)
  <2>2. /\ Untouched(card, r) /\ r.card.fails = card.fails /\ r.ans \in {"AD", "lrp", "af"}
        /\ r.ans = "AD" => r.card.pend = NoKey
        /\ r.ans # "AD" => r.card.pend = op.key /\ card.fails < FailLimit
    BY <1>1, AuthFirstCommand
  <2> HIDE DEF r
  <2>3. Counted(r)
    BY <1>4, <2>2 DEF Counted, AuthWords
  <2>4. Outcome(r)
    BY <1>4, <2>2, <2>3 DEF Outcome, Untouched, FileSteps
  <2> QED BY <2>1, <2>4 DEF r
<1>5. CASE Doing = "auth2"
  <2>1. Asked = AuthSecond(card, KeyFor(op.key))
    BY <1>5 DEF Asked
  <2> DEFINE r == AuthSecond(card, KeyFor(op.key))
  <2>2. /\ Untouched(card, r) /\ r.card.pend = NoKey
        /\ \/ r.card.fails = card.fails /\ card.pend = NoKey /\ r.ans = "1C"
           \/ r.card.fails = 0 /\ card.pend # NoKey /\ r.ans = "ok"
           \/ /\ r.card.fails = card.fails + 1 /\ r.ans = "AE"
              /\ card.pend # NoKey /\ card.key[card.pend] # KeyFor(op.key)
    BY AuthSecondCommand
  <2> HIDE DEF r
  <2>3. Counted(r)
    BY <1>5, <2>2 DEF Counted, AuthWords
  <2>4. Outcome(r)
    BY <1>5, <2>2, <2>3 DEF Outcome, Untouched, FileSteps
  <2> QED BY <2>1, <2>4 DEF r
<1>6. CASE Doing \in FileSteps
  <2> DEFINE f == Put(card.file, Doing, op.msg)
  <2>1. /\ ~InSession => Wrote(card, IsoUpdate(card, Doing, op.msg), f)
        /\ Wrote(card, WriteData(card, Doing, op.msg), f)
    <3>1. ~InSession => ~IntoCC(card, Doing)
      BY DEF Diverted, IntoCC
    <3> QED BY <1>1, <1>6, <3>1, WriteCommands
  <2>2. Asked = IF InSession THEN WriteData(card, Doing, op.msg) ELSE IsoUpdate(card, Doing, op.msg)
    BY <1>6 DEF Asked, FileSteps
  <2> HIDE DEF f
  <2>3. PICK r : r = Asked /\ Wrote(card, r, f)
    BY <2>1, <2>2
  <2>4. Counted(r)
    BY <1>6, <2>3 DEF Counted, AuthWords, FileSteps, Wrote, Other
  <2>5. Outcome(r)
    BY <1>6, <2>3, <2>4 DEF Outcome, Wrote, Other, Untouched, f, FileSteps
  <2> QED BY <2>3, <2>5
<1>7. CASE Doing = "change"
  <2>1. PICK r : r = Asked /\ r = ChangeFileSettings(card, op.plan)
    BY <1>7 DEF Asked
  <2>2. Other(card, r) /\ r.card.file = card.file /\ (r.ans = "ok" => r.card.set = op.plan)
    BY <1>1, <2>1, ChangeCommands
  <2>3. Counted(r)
    BY <1>7, <2>2 DEF Counted, AuthWords, Other
  <2>4. Outcome(r)
    BY <1>7, <2>2, <2>3 DEF Outcome, Other, Untouched, FileSteps
  <2> QED BY <2>1, <2>4
<1>8. CASE Doing = "key"
  <2>1. PICK r : r = Asked /\ r = ChangeKey(card, op.n, KeyFor(op.n), "new")
    BY <1>8 DEF Asked
  <2>2. /\ Other(card, r) /\ r.card.file = card.file /\ r.card.set = card.set
        /\ r.ans = "ok" => r.card.key[op.n] = "new"
    BY <1>1, <2>1, ChangeCommands
  <2>3. Counted(r)
    BY <1>8, <2>2 DEF Counted, AuthWords, Other
  <2>4. Outcome(r)
    BY <1>8, <2>2, <2>3 DEF Outcome, Other, Untouched, FileSteps
  <2> QED BY <2>1, <2>4
<1>9. CASE Doing = "lrp"
  <2>1. PICK r : r = Asked /\ r = SetLRP(card)
    BY <1>9 DEF Asked
  <2>2. Other(card, r) /\ r.card.file = card.file /\ (r.ans = "ok" => r.card.lrp)
    BY <1>1, <2>1, ChangeCommands
  <2>3. Counted(r)
    BY <1>9, <2>2 DEF Counted, AuthWords, Other
  <2>4. Outcome(r)
    BY <1>9, <2>2, <2>3 DEF Outcome, Other, Untouched, FileSteps
  <2> QED BY <2>1, <2>4
<1> QED BY <1>2, <1>3, <1>4, <1>5, <1>6, <1>7, <1>8, <1>9 DEF AllSteps, BodySteps, LeadSteps, AuthWords

(* What the card's answer, or the want of one, leaves true of the card.    *)
Happened(a) ==
    /\ card' \in CardTypes /\ card'.random = card.random
    /\ a = "ok" => Yes
    /\ a \notin {"ok", "fault"} => No
    /\ Unheard
    /\ Doing \in {"auth1", "lrp1"} /\ a \notin {"AD", "fault", "removed"} => card'.pend = op.key

(* An answer heard, one lost, and a card taken away.                       *)
LEMMA HeardHappened ==
    ASSUME Outcome(Asked), card' = Asked.card
    PROVE  Happened(Asked.ans) /\ Asked.ans \in Answers
<1>1. Asked.ans = "ok" => Yes
  BY DEF Outcome, Yes
<1>2. (Asked.ans # "ok" => No) /\ Unheard
  BY DEF Outcome, No, Unheard
<1> QED BY <1>1, <1>2 DEF Happened, Outcome, Counted

LEMMA LostHappened ==
    ASSUME Outcome(Asked), card \in CardTypes, card' \in {card, [Asked.card EXCEPT !.ours = FALSE]}
    PROVE  Happened("fault")
<1>1. CASE card' = card
  BY <1>1 DEF Happened, Unheard
<1>2. CASE card' = [Asked.card EXCEPT !.ours = FALSE]
  <2>1. PICK c : c = Asked.card
    OBVIOUS
  <2>2. /\ c \in CardTypes /\ c.random = card.random
        /\ Doing \notin FileSteps => c.file = card.file
        /\ Doing \notin {"change", "lrp"} => c.set = card.set
    BY <2>1 DEF Outcome
  <2>3. card' \in CardTypes /\ card'.random = c.random /\ card'.file = c.file /\ card'.set = c.set
    BY <1>2, <2>1, <2>2 DEF CardTypes
  <2> QED BY <2>2, <2>3 DEF Happened, Unheard
<1> QED BY <1>1, <1>2

LEMMA GoneHappened ==
    ASSUME card \in CardTypes, card' = NewPresentation(card)
    PROVE  Happened("removed")
<1>1. card' \in CardTypes /\ card'.random = card.random /\ card'.file = card.file /\ card'.set = card.set
  BY DEF NewPresentation, ClearSelection, DropSession, CardTypes
<1> QED BY <1>1 DEF Happened, Unheard, No

(* The step an operation is at, by its place.                              *)
LEMMA DoingIn ==
    ASSUME op \in Operations, FlowOK(op)
    PROVE  /\ Doing = op.steps[1]
           /\ Doing \in LeadSteps \cup Middle(op.want) \cup Ends(op.kind, op.want) \cup {"uid"}
           /\ Doing = "uid" <=> (op.stage = "resolve" /\ Len(op.steps) = 1)
           /\ Len(op.steps) = 1 /\ op.stage # "resolve" => Doing \in Ends(op.kind, op.want)
           /\ op.want \in WantOf(op.kind) /\ op.kind \in Kinds
<1>1. PICK n \in Nat \ {0} : n = Len(op.steps)
  BY DoingFacts
<1>2. PICK k \in Nat \ {0} : k = Len(op.body)
  BY DoingFacts
<1>3. op.want \in WantOf(op.kind) /\ op.kind \in Kinds
  BY DEF FlowOK, Operations
<1>4. "uid" \notin LeadSteps \cup Middle(op.want) \cup Ends(op.kind, op.want)
  BY <1>3 DEF LeadSteps, AuthWords, Middle, FileSteps, Ends, WantOf
<1>5. op.stage = "resolve" => k = 1
  <2>1. Len(<<"uid">>) = 1
    OBVIOUS
  <2> QED BY <1>2, <2>1 DEF FlowOK
<1>6. Doing = op.steps[1]
  BY DoingFacts DEF Doing
<1>7. /\ n > k => Doing \in LeadSteps
      /\ op.stage # "resolve" /\ n = 1 => Doing \in Ends(op.kind, op.want)
      /\ op.stage # "resolve" /\ n > 1 /\ n <= k => Doing \in Middle(op.want)
      /\ op.stage = "resolve" /\ n <= k => Doing = "uid" /\ n = 1
  BY <1>1, <1>2, <1>6, DoingFacts
<1>8. n = 1 \/ n > 1
  OBVIOUS
<1>9. n <= k \/ n > k
  OBVIOUS
<1>10. Doing \in LeadSteps \cup Middle(op.want) \cup Ends(op.kind, op.want) \cup {"uid"}
  BY <1>7, <1>8, <1>9
<1>11. Doing = "uid" <=> (op.stage = "resolve" /\ n = 1)
  <2>1. ASSUME Doing = "uid" PROVE op.stage = "resolve" /\ n = 1
    <3>1. ~(n > k) /\ op.stage = "resolve"
      BY <1>4, <1>7, <1>8, <1>9, <2>1
    <3> QED BY <1>7, <1>9, <3>1
  <2>2. ASSUME op.stage = "resolve", n = 1 PROVE Doing = "uid"
    BY <1>5, <1>7, <2>2
  <2> QED BY <2>1, <2>2
<1> QED BY <1>1, <1>3, <1>6, <1>7, <1>10, <1>11

(* An error tells the truth, whatever was or was not heard.                *)
LEMMA FailureFair ==
    ASSUME OpInv(op, card.file, card.set), Unheard
    PROVE  /\ FailTrue(op, card'.file, card'.set, Noted.sent)
           /\ ForSettings => TrueOK(op, card'.file, card'.set)
<1>1. /\ op \in Operations /\ FlowOK(op) /\ TrueOK(op, card.file, card.set)
      /\ Noted.sent = (op.sent \/ (InSession /\ Doing \in Changes)) /\ op.sent \in BOOLEAN
  BY DEF OpInv, Noted, Operations
<1>2. /\ Doing = op.steps[1] /\ op.want \in WantOf(op.kind) /\ op.kind \in Kinds
      /\ Doing \in LeadSteps \cup Middle(op.want) \cup Ends(op.kind, op.want) \cup {"uid"}
  BY <1>1, DoingIn
<1>3. FailTrue(op, card'.file, card'.set, Noted.sent)
  <2> SUFFICES ASSUME op.kind = "sdm", op.want \in {"change", "read"}
               PROVE  FailTrue(op, card'.file, card'.set, Noted.sent)
    BY DEF FailTrue
  <2>1. Doing \notin FileSteps /\ Doing # "lrp" /\ card'.file = card.file
    BY <1>2 DEF LeadSteps, AuthWords, Middle, Ends, FileSteps, Unheard
  <2>2. CASE Doing # "change"
    <3>1. card'.set = card.set
      BY <2>1, <2>2 DEF Unheard
    <3> QED BY <1>1, <2>1, <3>1 DEF FailTrue, TrueOK
  <2>3. CASE Doing = "change"
    <3>1. op.want = "change"
      BY <1>2, <2>3 DEF LeadSteps, AuthWords, Middle, Ends, FileSteps
    <3>2. op.stage \in {"keyed", "resolve"}
      <4>1. 1 \in 1 .. Len(op.steps)
        BY <1>1, DoingFacts
      <4> QED BY <1>1, <1>2, <2>3, <4>1 DEF FlowOK
    <3>3. Noted.sent
      BY <1>1, <2>3, <3>2 DEF InSession, Changes
    <3> QED BY <3>1, <3>3 DEF FailTrue
  <2> QED BY <2>2, <2>3
<1>4. ForSettings => TrueOK(op, card'.file, card'.set)
  <2> SUFFICES ASSUME ForSettings PROVE TrueOK(op, card'.file, card'.set)
    OBVIOUS
  <2>1. Doing \in LeadSteps \cup {"settings", "uid"}
    BY <1>1, <1>2, SettingsAlone DEF ForSettings
  <2>2. card'.file = card.file /\ card'.set = card.set
    BY <2>1 DEF Unheard, LeadSteps, AuthWords, FileSteps
  <2> QED BY <1>1, <2>2
<1> QED BY <1>3, <1>4

-----------------------------------------------------------------------------
(* What authenticates, and under which key.                                *)

AuthOK ==
    op # Idle =>
        /\ (\E i \in 1 .. Len(op.steps) : op.steps[i] \in AuthWords) =>
              /\ op.stage \in {"keyed", "resolve"} /\ op.key \in KeyNos
              /\ t.failed[op.key] = "no" /\ ~NeedsReal(op.key)
        /\ op.stage = "resolve" =>
              /\ ~Derived(op.key) /\ \A i \in 1 .. Len(op.steps) : op.steps[i] # "old"
              /\ \A i \in 1 .. Len(op.outer.steps) : op.outer.steps[i] \notin AuthWords

(* On a reader the card has the key the driver means.                      *)
PendOK == ~phone /\ op # Idle /\ op.steps[1] = "auth2" => card.pend = op.key

Stands == Goes /\ AuthOK' /\ PendOK'

(* A stage begun anew authenticates with nothing yet.                      *)
LEMMA AnewStands ==
    ASSUME GoesAnew
    PROVE  Stands
<1>1. CASE op' = Idle
  BY <1>1 DEF GoesAnew, Stands, AuthOK, PendOK
<1>2. CASE op' # Idle
  <2>1. op'.stage # "resolve" /\ Quiet(op') /\ OpInv(op', card'.file, card'.set)
    BY <1>2 DEF GoesAnew, Goes
  <2>2. 1 \in 1 .. Len(op'.steps)
    BY <2>1, DoingFacts DEF OpInv
  <2>3. AuthOK' /\ PendOK'
    BY <2>1, <2>2 DEF AuthOK, PendOK, Quiet, AuthWords
  <2> QED BY <2>3 DEF Stands, GoesAnew
<1> QED BY <1>1, <1>2

(* An error leaves the operation standing.                                 *)
LEMMA FailStands ==
    ASSUME OpInv(op, card.file, card.set), Unheard, NEW e, Fail(e)
    PROVE  Stands
BY FailureFair, FailGoes, AnewStands DEF OpInv

(* The driver as it is typed.                                              *)
Drivers == [keys : KeySets, session : KeyNos \cup {NoKey}, real : BOOLEAN,
            resolved : {"no"} \cup Errors, failed : [KeyNos -> {"no"} \cup Errors],
            delayed : BOOLEAN, lrp : BOOLEAN]

(* A step done, no key being refused and no UID forgotten.                 *)
Kept ==
    /\ t'.failed = t.failed /\ t'.keys = t.keys /\ t.real \in BOOLEAN /\ t'.real \in {t.real, TRUE}
    /\ card'.random = card.random /\ phone' = phone

LEMMA KeptReal ==
    ASSUME Kept, NEW n, ~NeedsReal(n)
    PROVE  ~NeedsReal(n)' /\ (Derived(n)' <=> Derived(n))
BY DEF Kept, NeedsReal, Derived

(* So does a step taken, and it stays with the key it was for.             *)
LEMMA OnwardStands ==
    ASSUME OpInv(op, card.file, card.set), AuthOK, card.file \in File, Len(op.steps) > 1, op # Idle,
           Continue(Onward), Yes, Kept,
           ~phone /\ op.steps[2] = "auth2" => card'.pend = op.key
    PROVE  Stands
<1>1. Goes
  BY OnwardGoes
<1>2. op \in Operations /\ op.steps \in Seq(AllSteps) /\ op' = Onward
  BY DEF OpInv, Operations, Continue
<1>3. /\ op'.steps = Tail(op.steps) /\ op'.stage = op.stage /\ op'.key = op.key /\ op'.outer = op.outer
  BY <1>2 DEF Onward, Noted, Operations
<1>4. /\ Len(op'.steps) = Len(op.steps) - 1 /\ Len(op.steps) \in Nat
      /\ \A i \in 1 .. Len(op.steps) - 1 : op'.steps[i] = op.steps[i + 1]
  BY <1>2, <1>3, TailFacts
<1>5. PICK n \in Nat : n = Len(op.steps) /\ n > 1
  BY <1>4
<1>6. \A i \in 1 .. Len(op'.steps) : i + 1 \in 1 .. Len(op.steps) /\ op'.steps[i] = op.steps[i + 1]
  BY <1>4, <1>5
<1>7. AuthOK'
  <2>1. ASSUME NEW i \in 1 .. Len(op'.steps), op'.steps[i] \in AuthWords
        PROVE  /\ op'.stage \in {"keyed", "resolve"} /\ op'.key \in KeyNos
               /\ t'.failed[op'.key] = "no" /\ ~NeedsReal(op.key)'
    <3>1. /\ op.stage \in {"keyed", "resolve"} /\ op.key \in KeyNos
          /\ t.failed[op.key] = "no" /\ ~NeedsReal(op.key)
      BY <1>6, <2>1 DEF AuthOK
    <3> QED BY <1>3, <3>1, KeptReal DEF Kept, NeedsReal, Derived
  <2>2. ASSUME op'.stage = "resolve"
        PROVE  /\ ~Derived(op.key)' /\ \A i \in 1 .. Len(op'.steps) : op'.steps[i] # "old"
               /\ \A i \in 1 .. Len(op'.outer.steps) : op'.outer.steps[i] \notin AuthWords
    <3>1. /\ ~Derived(op.key) /\ \A i \in 1 .. Len(op.steps) : op.steps[i] # "old"
          /\ \A i \in 1 .. Len(op.outer.steps) : op.outer.steps[i] \notin AuthWords
      BY <1>3, <2>2 DEF AuthOK
    <3>2. ~Derived(op.key)'
      BY <1>3, <3>1 DEF Derived, Kept
    <3> QED BY <1>3, <1>6, <3>1, <3>2
  <2> QED BY <2>1, <2>2 DEF AuthOK
<1>8. PendOK'
  <2>1. op'.steps[1] = op.steps[2]
    BY <1>4, <1>5
  <2> QED BY <1>3, <2>1 DEF PendOK, Kept
<1> QED BY <1>1, <1>7, <1>8 DEF Stands

(* The real UID is known, and what needed it is taken up again.            *)
LEMMA BackStands ==
    ASSUME OpInv(op, card.file, card.set), AuthOK, op # Idle, op.stage = "resolve", No,
           Continue([op EXCEPT !.stage = "keyed", !.key = op.outer.key,
                               !.body = op.outer.body, !.steps = op.outer.steps])
    PROVE  Stands
<1> DEFINE p == [op EXCEPT !.stage = "keyed", !.key = op.outer.key,
                           !.body = op.outer.body, !.steps = op.outer.steps]
<1>1. op \in Operations /\ FlowOK(op) /\ TrueOK(op, card.file, card.set)
  BY DEF OpInv
<1>2. /\ p \in Operations /\ Same(p, op) /\ p.sent = op.sent /\ p.stage = "keyed" /\ p.key = op.outer.key
      /\ p.body = op.outer.body /\ p.steps = op.outer.steps
  BY <1>1 DEF Operations, Same, Stages
<1>3. op' = p /\ last' = NoWord
  BY DEF Continue
<1> HIDE DEF p
<1>4. /\ BodyOK(p.body, op.kind, op.want) /\ Led(p.steps, p.body)
      /\ p.steps[1] \in {"enter", "old", "verify", "told"} /\ op.want \in WantOf(op.kind)
      /\ p.key \in KeyNos \/ p.steps[1] \in {"told", "verify"}
  BY <1>1, <1>2 DEF FlowOK
<1>5. FlowOK(p)
  BY <1>2, <1>4 DEF FlowOK, Same
<1>6. FileOK(p, card'.file)
  BY <1>4 DEF FileOK
<1>7. TrueOK(p, card'.file, card'.set)
  BY <1>1, <1>2 DEF TrueOK, Same, No
<1>8. Goes
  BY <1>2, <1>3, <1>5, <1>6, <1>7 DEF Goes, OpInv, ReportIsTrue
<1>9. \A i \in 1 .. Len(p.steps) : p.steps[i] \notin AuthWords
  BY <1>2 DEF AuthOK
<1>10. AuthOK' /\ PendOK'
  <2>1. p.steps[1] # "auth2"
    BY <1>4
  <2> QED BY <1>2, <1>3, <1>9, <2>1 DEF AuthOK, PendOK
<1> QED BY <1>8, <1>10 DEF Stands

(* What the last answer of a stage leads to.                               *)
LEMMA AfterStands ==
    ASSUME OpInv(op, card.file, card.set), AuthOK, op # Idle, card \in CardTypes, t \in Drivers,
           Len(op.steps) = 1, Doing \notin AuthWords, Yes, After
    PROVE  Stands /\ t'.failed = t.failed
<1>1. op \in Operations /\ FlowOK(op) /\ card.file \in File /\ card.set \in Settings
  BY DEF OpInv, CardTypes
<1>2. /\ Doing = op.steps[1]
      /\ Doing = "uid" <=> op.stage = "resolve"
      /\ op.stage # "resolve" => Doing \in Ends(op.kind, op.want)
  BY <1>1, DoingIn
<1>3. /\ t.session \in KeyNos \cup {NoKey} /\ DOMAIN t = DOMAIN t
  BY DEF Drivers
<1>4. CASE Doing = "settings"
  <2>1. t' = t /\ Settled
    BY <1>4 DEF After
  <2>2. No /\ "settings" \in Ends(op.kind, op.want)
    BY <1>2, <1>4 DEF Yes, No, FileSteps
  <2> QED BY <1>1, <1>3, <2>1, <2>2, SettledGoes, AnewStands
<1>5. CASE Doing = "uid"
  <2>1. /\ t' = [t EXCEPT !.real = TRUE]
        /\ Continue([op EXCEPT !.stage = "keyed", !.key = op.outer.key,
                               !.body = op.outer.body, !.steps = op.outer.steps])
    BY <1>5 DEF After
  <2>2. t'.failed = t.failed
    BY <2>1 DEF Drivers
  <2>3. No
    BY <1>5 DEF Yes, No, FileSteps
  <2> QED BY <1>2, <1>5, <2>1, <2>2, <2>3, BackStands
<1>6. CASE Doing \notin {"settings", "uid"}
  <2>1. /\ Done
        /\ t' \in {t, [t EXCEPT !.session = NoKey], [t EXCEPT !.session = NoKey, !.lrp = TRUE]}
    BY <1>6 DEF After
  <2>2. t'.session \in KeyNos \cup {NoKey} /\ t'.failed = t.failed
    BY <1>3, <2>1 DEF Drivers
  <2>3. GoesAnew
    BY <1>1, <1>2, <1>6, <2>1, <2>2, DoneGoes
  <2> QED BY <2>2, <2>3, AnewStands
<1> QED BY <1>4, <1>5, <1>6

(* The body begun again in a new session.                                  *)
LEMMA RetryStands ==
    ASSUME OpInv(op, card.file, card.set), No, op.stage = "keyed", Doing \notin LocalSteps,
           Continue([Noted EXCEPT !.again = FALSE, !.steps = <<"enter">> \o op.body])
    PROVE  Stands
<1> DEFINE s == <<"enter">> \o op.body  p == [Noted EXCEPT !.again = FALSE, !.steps = s]
<1>1. op \in Operations /\ FlowOK(op) /\ TrueOK(op, card.file, card.set) /\ Doing = op.steps[1]
  BY DoingIn DEF OpInv
<1>2. /\ op.want \in WantOf(op.kind) /\ op.kind \in Kinds /\ BodyOK(op.body, op.kind, op.want)
      /\ op.body \in Seq(AllSteps) /\ op.key \in KeyNos
  BY <1>1 DEF FlowOK, Operations, LocalSteps
<1>3. Len(op.body) > 0 /\ \A i \in 1 .. Len(op.body) : op.body[i] \notin AuthWords
  BY <1>2, BodyFree
<1>4. /\ s \in Seq(AllSteps) /\ Led(s, op.body) /\ Len(s) = Len(op.body) + 1 /\ s[1] = "enter"
      /\ \A i \in 1 .. Len(op.body) + 1 : s[i] \notin AuthWords
  BY <1>2, <1>3, LedEnter
<1> HIDE DEF s
<1>5. /\ p \in Operations /\ Same(p, op) /\ p.sent = Noted.sent /\ p.stage = "keyed" /\ p.key = op.key
      /\ p.body = op.body /\ p.steps = s
  BY <1>1, <1>4 DEF Operations, Same, Noted
<1>6. op' = p /\ last' = NoWord
  BY DEF Continue, s
<1> HIDE DEF p
<1>7. FlowOK(p)
  BY <1>2, <1>4, <1>5 DEF FlowOK, Same
<1>8. FileOK(p, card'.file)
  BY <1>4, <1>5 DEF FileOK
<1>9. TrueOK(p, card'.file, card'.set)
  <2>1. ~Noted.sent => ~op.sent
    BY <1>1 DEF Noted, Operations
  <2> QED BY <1>1, <1>5, <2>1 DEF TrueOK, Same, No
<1>10. GoesAnew
  <2>1. ReportIsTrue'
    BY <1>6 DEF ReportIsTrue
  <2>2. Quiet(p)
    BY <1>4, <1>5 DEF Quiet
  <2>3. OpInv(p, card'.file, card'.set) /\ p.stage # "resolve"
    BY <1>5, <1>7, <1>8, <1>9 DEF OpInv
  <2>4. Goes
    BY <1>6, <2>1, <2>3 DEF Goes
  <2> QED BY <1>6, <2>2, <2>3, <2>4 DEF GoesAnew
<1> QED BY <1>10, AnewStands

(* An error in the body: begun again, asked outside the session, or over.  *)
LEMMA FailedStands ==
    ASSUME OpInv(op, card.file, card.set), NEW a, a # "ok", Happened(a), Failed(a),
           Doing \notin LocalSteps \cup AuthWords
    PROVE  Stands
<1>1. /\ op \in Operations /\ FlowOK(op) /\ TrueOK(op, card.file, card.set) /\ Doing = op.steps[1]
      /\ op.want \in WantOf(op.kind) /\ op.kind \in Kinds
  BY DoingIn DEF OpInv
<1>2. Unheard /\ (a \in Lost => No)
  BY DEF Happened, Lost
<1>3. CASE op.stage = "keyed" /\ op.again /\ a \in Lost
  <2>1. Continue([Noted EXCEPT !.again = FALSE, !.steps = <<"enter">> \o op.body])
    BY <1>3 DEF Failed
  <2> QED BY <1>2, <1>3, <2>1, RetryStands
<1>4. CASE op.stage = "held" /\ a \in Lost
  <2>1. Continue(Ask(op, Doing, NoKey))
    BY <1>4 DEF Failed
  <2>2. Doing \in Ends(op.kind, op.want)
    BY <1>1, <1>4, DoingIn DEF FlowOK
  <2>3. Doing \notin {"chunk1", "chunk2", "length"}
    <3>1. op.steps[1] = op.body[1]
      <4>1. Len(op.steps) = 1 /\ Len(op.body) = 1 /\ Led(op.steps, op.body)
        BY <1>1, <1>4 DEF FlowOK
      <4>2. 1 \in 1 .. 1 /\ 1 > 1 - 1 /\ 1 - (1 - 1) = 1
        OBVIOUS
      <4> QED BY <4>1, <4>2 DEF Led
    <3> QED BY <1>1, <1>4, <3>1 DEF FlowOK, BodyOK
  <2>4. Doing \notin {"change", "told", "verify"}
    <3>1. 1 \in 1 .. Len(op.steps)
      BY <1>1, DoingFacts
    <3> QED BY <1>1, <1>4, <3>1 DEF FlowOK, LocalSteps
  <2>5. Anew(Ask(op, Doing, NoKey), op)
    BY <1>1, <2>2, <2>3, <2>4, AskAnew
  <2>6. TrueOK(op, card'.file, card'.set)
    BY <1>1, <1>2, <1>4 DEF No
  <2> QED BY <1>1, <2>1, <2>5, <2>6, ContinueGoes, AnewStands
<1>5. CASE op.stage = "plain" /\ Doing = "settings" /\ a = "AE" /\ Holds(0)
  <2>1. Continue(Keyed(op, 0, <<"settings">>))
    BY <1>5 DEF Failed, Lost
  <2>2. "settings" \in Ends(op.kind, op.want)
    BY <1>1, <1>5, DoingIn DEF LeadSteps, AuthWords, Middle, FileSteps
  <2>3. BodyOK(<<"settings">>, op.kind, op.want) /\ <<"settings">> \in Seq(AllSteps)
    <3>1. "settings" \in BodySteps
      BY DEF BodySteps
    <3> QED BY <2>2, <3>1, OneStepBody
  <2>4. Anew(Keyed(op, 0, <<"settings">>), op)
    BY <1>1, <2>3, KeyedAnew, CardAssumption
  <2>5. TrueOK(op, card'.file, card'.set)
    BY <1>1, <1>2, <1>5 DEF No, Lost
  <2> QED BY <1>1, <2>1, <2>4, <2>5, ContinueGoes, AnewStands
<1>6. CASE Fail(Class(a))
  BY <1>2, <1>6, FailStands
<1> QED BY <1>3, <1>4, <1>5, <1>6 DEF Failed

(* The card asks for LRP, and the next word is in it.                      *)
LEMMA LedSwap ==
    ASSUME NEW s \in Seq(AllSteps), NEW b \in Seq(AllSteps), Led(s, b), Len(s) > Len(b), s[1] = "auth1"
    PROVE  LET r == <<"lrp1">> \o Tail(s) IN
           /\ r \in Seq(AllSteps) /\ Led(r, b) /\ Len(r) = Len(s) /\ r[1] = "lrp1"
           /\ \A i \in 2 .. Len(s) : r[i] = s[i]
<1> DEFINE r == <<"lrp1">> \o Tail(s)
<1>1. PICK n \in Nat : n = Len(s)
  OBVIOUS
<1>2. PICK k \in Nat : k = Len(b)
  OBVIOUS
<1>3. n > 0 /\ n > k
  BY <1>1, <1>2 DEF Led
<1>4. s # <<>> /\ Tail(s) \in Seq(AllSteps) /\ Len(Tail(s)) = n - 1 /\ \A i \in 1 .. n - 1 : Tail(s)[i] = s[i + 1]
  BY <1>1, <1>3, HeadTailProperties
<1>5. /\ r \in Seq(AllSteps) /\ Len(r) = (n - 1) + 1 /\ r[1] = "lrp1"
      /\ \A i \in 2 .. (n - 1) + 1 : r[i] = Tail(s)[i - 1]
  BY <1>4, CatOne DEF AllSteps, LeadSteps, AuthWords
<1> HIDE DEF r
<1>6. \A i \in 2 .. n : r[i] = s[i]
  <2> TAKE i \in 2 .. n
  <2>1. i - 1 \in 1 .. n - 1 /\ (i - 1) + 1 = i /\ i \in 2 .. (n - 1) + 1
    OBVIOUS
  <2> QED BY <1>4, <1>5, <2>1
<1>7. Len(r) = n /\ n \in Nat \ {0}
  BY <1>3, <1>5
<1>8. \A i \in 1 .. n : IF i > n - k THEN r[i] = b[i - (n - k)] ELSE r[i] \in LeadSteps
  <2> TAKE i \in 1 .. n
  <2>1. CASE i = 1
    BY <1>3, <1>5, <2>1 DEF LeadSteps, AuthWords
  <2>2. CASE i \in 2 .. n
    BY <1>1, <1>2, <1>6, <2>2 DEF Led
  <2> QED BY <2>1, <2>2
<1>9. \A i \in 2 .. n : r[i] = "auth2" => r[i - 1] \in {"auth1", "lrp1"}
  <2> TAKE i \in 2 .. n
  <2>1. CASE i = 2
    BY <1>5, <2>1
  <2>2. CASE i \in 3 .. n
    <3>1. i - 1 \in 2 .. n /\ r[i] = s[i] /\ r[i - 1] = s[i - 1]
      BY <1>6, <2>2
    <3> QED BY <1>1, <3>1 DEF Led
  <2> QED BY <2>1, <2>2
<1>10. \A i, j \in 1 .. n : r[i] \in {"enter", "old"} => r[j] \notin AuthWords
  <2>1. \A i \in 1 .. n : r[i] \notin {"enter", "old"}
    <3> TAKE i \in 1 .. n
    <3>1. s[i] \notin {"enter", "old"}
      BY <1>1, <1>3 DEF Led, AuthWords
    <3>2. i = 1 \/ i \in 2 .. n
      OBVIOUS
    <3> QED BY <1>5, <1>6, <3>1, <3>2
  <2> QED BY <2>1
<1>11. Led(r, b)
  BY <1>2, <1>7, <1>8, <1>9, <1>10 DEF Led
<1> QED BY <1>1, <1>5, <1>6, <1>7, <1>11 DEF r

(* The LRP card met by a driver that did not know it.                      *)
LEMMA SwapStands ==
    ASSUME OpInv(op, card.file, card.set), AuthOK, op # Idle, No, Kept, InAuth, Doing = "auth1",
           Continue([op EXCEPT !.steps = <<"lrp1">> \o Tail(@)])
    PROVE  Stands
<1> DEFINE s == <<"lrp1">> \o Tail(op.steps)  p == [op EXCEPT !.steps = s]
<1>1. op \in Operations /\ FlowOK(op) /\ TrueOK(op, card.file, card.set) /\ Doing = op.steps[1]
  BY DoingIn DEF OpInv
<1>2. /\ op.steps \in Seq(AllSteps) /\ op.body \in Seq(AllSteps) /\ Led(op.steps, op.body)
      /\ Len(op.steps) > Len(op.body) /\ op.stage \in {"keyed", "resolve"} /\ op.steps[1] = "auth1"
  BY <1>1 DEF FlowOK, Operations, InAuth
<1>3. /\ s \in Seq(AllSteps) /\ Led(s, op.body) /\ Len(s) = Len(op.steps) /\ s[1] = "lrp1"
      /\ \A i \in 2 .. Len(op.steps) : s[i] = op.steps[i]
  BY <1>2, LedSwap
<1>4. op' = p /\ last' = NoWord
  BY <1>1 DEF Continue, Operations
<1> HIDE DEF s
<1>5. /\ p \in Operations /\ Same(p, op) /\ p.sent = op.sent /\ p.stage = op.stage /\ p.key = op.key
      /\ p.body = op.body /\ p.steps = s /\ p.outer = op.outer
  BY <1>1, <1>3 DEF Operations, Same
<1> HIDE DEF p
<1>6. PICK n \in Nat : n = Len(op.steps) /\ n > 0
  BY <1>2 DEF Led
<1>8. /\ op.key \in KeyNos /\ t.failed[op.key] = "no" /\ ~NeedsReal(op.key)
  <2>1. 1 \in 1 .. Len(op.steps) /\ op.steps[1] \in AuthWords
    BY <1>2, <1>6 DEF AuthWords
  <2> QED BY <2>1 DEF AuthOK
<1>9. FlowOK(p)
  BY <1>1, <1>2, <1>3, <1>5, <1>8 DEF FlowOK, Same
<1>10. FileOK(p, card'.file)
  BY <1>3, <1>5 DEF FileOK
<1>11. TrueOK(p, card'.file, card'.set)
  BY <1>1, <1>5 DEF TrueOK, Same, No
<1>12. Goes
  BY <1>4, <1>5, <1>9, <1>10, <1>11 DEF Goes, OpInv, ReportIsTrue
<1>13. AuthOK'
  <2>1. /\ op'.key = op.key /\ t'.failed[op.key] = "no" /\ ~NeedsReal(op.key)' /\ op'.stage = op.stage
    BY <1>4, <1>5, <1>8 DEF Kept, NeedsReal, Derived
  <2>2. ASSUME op.stage = "resolve"
        PROVE  /\ ~Derived(op.key)' /\ \A i \in 1 .. Len(s) : s[i] # "old"
               /\ \A i \in 1 .. Len(op.outer.steps) : op.outer.steps[i] \notin AuthWords
    <3>1. /\ ~Derived(op.key) /\ \A i \in 1 .. Len(op.steps) : op.steps[i] # "old"
          /\ \A i \in 1 .. Len(op.outer.steps) : op.outer.steps[i] \notin AuthWords
      BY <2>2 DEF AuthOK
    <3>2. ~Derived(op.key)'
      BY <1>4, <1>5, <3>1 DEF Derived, Kept
    <3>3. \A i \in 1 .. n : i = 1 \/ i \in 2 .. n
      OBVIOUS
    <3> QED BY <1>3, <1>6, <3>1, <3>2, <3>3
  <2> QED BY <1>2, <1>4, <1>5, <1>8, <2>1, <2>2 DEF AuthOK
<1>14. PendOK'
  BY <1>3, <1>4, <1>5 DEF PendOK
<1> QED BY <1>12, <1>13, <1>14 DEF Stands

(* An answer to a step of authenticate.                                    *)
LEMMA AuthenticatedStands ==
    ASSUME OpInv(op, card.file, card.set), AuthOK, op # Idle, card \in CardTypes, t \in Drivers, InAuth,
           Doing \notin LocalSteps, phone' = phone,
           NEW a, Happened(a), Authenticated(a)
    PROVE  Stands
<1>1. /\ op \in Operations /\ FlowOK(op) /\ Doing = op.steps[1] /\ card.file \in File
  BY DoingIn DEF OpInv, CardTypes
<1>2. /\ Doing \in LeadSteps \ {"enter", "old"} /\ Unheard
      /\ Len(op.steps) > 1
  <2>1. PICK n \in Nat \ {0} : n = Len(op.steps)
    BY <1>1, DoingFacts
  <2>2. PICK k \in Nat \ {0} : k = Len(op.body)
    BY <1>1, DoingFacts
  <2>3. n > k
    BY <2>1, <2>2 DEF InAuth
  <2> QED BY <1>1, <2>1, <2>2, <2>3, DoingFacts DEF Happened, LocalSteps
<1>3. No /\ Yes
  BY <1>2 DEF Unheard, No, Yes, LeadSteps, AuthWords, FileSteps
<1>4. CASE \E e : Fail(e)
  BY <1>2, <1>4, FailStands
<1>5. CASE /\ a \in {"ok", "af"} \/ (a = "lrp" /\ Doing = "lrp1")
           /\ Continue(Onward)
           /\ t' = IF Doing = "auth2" THEN [t EXCEPT !.session = op.key] ELSE t
  <2>1. Kept
    BY <1>5 DEF Kept, Drivers, Happened
  <2>2. op.steps[2] = "auth2" => Doing \in {"auth1", "lrp1"}
    <3>1. Led(op.steps, op.body) /\ Len(op.steps) \in Nat
      BY <1>1 DEF FlowOK, Operations
    <3>2. 2 \in 2 .. Len(op.steps) /\ 2 - 1 = 1
      BY <1>2, <3>1
    <3> QED BY <1>1, <3>1, <3>2 DEF Led
  <2>3. op.steps[2] = "auth2" => card'.pend = op.key
    BY <1>5, <2>2 DEF Happened
  <2> QED BY <1>1, <1>2, <1>3, <1>5, <2>1, <2>3, OnwardStands
<1>6. CASE /\ Doing = "auth1"
           /\ Continue([op EXCEPT !.steps = <<"lrp1">> \o Tail(@)])
           /\ t' = [t EXCEPT !.lrp = TRUE]
  <2>1. Kept
    BY <1>6 DEF Kept, Drivers, Happened
  <2> QED BY <1>3, <1>6, <2>1, SwapStands
<1> QED BY <1>4, <1>5, <1>6 DEF Authenticated

LEMMA NoAuthInBody ==
    ASSUME NEW kind \in Kinds, NEW want \in WantOf(kind)
    PROVE  \A x \in AuthWords : x \notin Middle(want) \cup Ends(kind, want) \cup {"uid"}
BY DriverAssumption DEF AuthWords, Middle, FileSteps, Ends, WantOf

(* What authenticates comes before the body.                               *)
LEMMA NotAuth ==
    ASSUME OpInv(op, card.file, card.set), AuthOK, op # Idle, ~InAuth
    PROVE  Doing \notin AuthWords
<1>1. /\ op \in Operations /\ FlowOK(op) /\ Doing = op.steps[1] /\ op.want \in WantOf(op.kind)
  BY DoingIn DEF OpInv
<1>2. PICK n \in Nat \ {0} : n = Len(op.steps)
  BY <1>1, DoingFacts
<1>3. Doing \notin AuthWords
  <2> SUFFICES ASSUME Doing \in AuthWords PROVE FALSE
    OBVIOUS
  <2>1. 1 \in 1 .. Len(op.steps)
    BY <1>2
  <2>2. op.stage \in {"keyed", "resolve"}
    BY <1>1, <2>1 DEF AuthOK
  <2>3. PICK k \in Nat \ {0} : k = Len(op.body)
    BY <1>1, DoingFacts
  <2>4. n <= k
    BY <1>2, <2>2, <2>3 DEF InAuth
  <2>5. \A x \in AuthWords : x \notin Middle(op.want) \cup Ends(op.kind, op.want) \cup {"uid"}
    <3>1. op.kind \in Kinds /\ op.want \in WantOf(op.kind)
      BY <1>1 DEF Operations
    <3> QED BY <3>1, NoAuthInBody
  <2>6. /\ op.stage # "resolve" /\ n = 1 => Doing \in Ends(op.kind, op.want)
        /\ op.stage # "resolve" /\ n > 1 => Doing \in Middle(op.want)
        /\ op.stage = "resolve" => Doing = "uid"
    BY <1>1, <1>2, <2>3, <2>4, DoingFacts
  <2>7. n = 1 \/ n > 1
    OBVIOUS
  <2> QED BY <2>5, <2>6, <2>7
<1> QED BY <1>3

(* An answer to a step of the body.                                        *)
LEMMA AnsweredStands ==
    ASSUME OpInv(op, card.file, card.set), AuthOK, op # Idle, card \in CardTypes, t \in Drivers, ~InAuth,
           Doing \notin LocalSteps, phone' = phone, NEW a, Happened(a), Answered(a)
    PROVE  Stands
<1>1. /\ op \in Operations /\ FlowOK(op) /\ Doing = op.steps[1] /\ card.file \in File
      /\ op.want \in WantOf(op.kind) /\ Unheard
  BY DoingIn DEF OpInv, CardTypes, Happened
<1>2. PICK n \in Nat \ {0} : n = Len(op.steps)
  BY <1>1, DoingFacts
<1>3. Doing \notin AuthWords
  BY NotAuth
<1>4. CASE a # "ok"
  <2>1. Failed(a)
    BY <1>4 DEF Answered
  <2> QED BY <1>3, <1>4, <2>1, FailedStands
<1>5. CASE Report(FALSE)
  <2>1. FailTrue(op, card'.file, card'.set, Noted.sent)
    BY <1>1, FailureFair
  <2> QED BY <1>1, <1>5, <2>1, FailureGoes, AnewStands
<1>6. CASE a = "ok" /\ Len(op.steps) > 1 /\ Continue(Onward) /\ UNCHANGED t
  <2>1. Kept /\ Yes
    BY <1>6 DEF Kept, Drivers, Happened
  <2>2. op.steps[2] # "auth2"
    <3>1. Led(op.steps, op.body)
      BY <1>1 DEF FlowOK
    <3>2. 2 \in 2 .. Len(op.steps) /\ 2 - 1 = 1
      BY <1>2, <1>6
    <3> QED BY <1>1, <1>3, <3>1, <3>2 DEF Led, AuthWords
  <2> QED BY <1>1, <1>6, <2>1, <2>2, OnwardStands
<1>7. CASE a = "ok" /\ ~(Len(op.steps) > 1) /\ After
  <2>0. ~(n > 1) => n = 1
    OBVIOUS
  <2>1. Len(op.steps) = 1
    BY <1>2, <1>7, <2>0
  <2>2. Yes
    BY <1>7 DEF Happened
  <2> QED BY <1>3, <1>7, <2>1, <2>2, AfterStands
<1> QED BY <1>4, <1>5, <1>6, <1>7 DEF Answered

(* What the driver remembers: refusals stay, and a key the card refuses is *)
(* remembered with it.                                                     *)
Learns ==
    /\ t' \in Drivers /\ t'.keys = t.keys
    /\ \A n \in KeyNos : t.failed[n] # "no" => t'.failed[n] # "no"

(* What is remembered is an error, and of its type.                        *)
LEMMA ClassIsError ==
    ASSUME NEW a
    PROVE  Class(a) \in Errors
BY DEF Class, Errors

LEMMA RememberTyped ==
    ASSUME NEW d \in Drivers, NEW e \in Errors, op \in Operations
    PROVE  /\ Remember(d, e) \in Drivers /\ Remember(d, e).keys = d.keys
           /\ Remember(d, e).failed = d.failed
BY DEF Remember, Drivers

LEMMA RefusedTyped ==
    ASSUME t \in Drivers, op \in Operations, op.key \in KeyNos, NEW a
    PROVE  /\ AuthRefused(a) \in Drivers /\ AuthRefused(a).keys = t.keys
           /\ \A n \in KeyNos : t.failed[n] # "no" => AuthRefused(a).failed[n] # "no"
           /\ a # "AD" => AuthRefused(a).failed[op.key] # "no"
<1>1. Class(a) \in Errors /\ "no" \notin Errors
  BY ClassIsError DEF Errors
<1>2. CASE a = "AD"
  BY <1>2 DEF AuthRefused, Drivers
<1>3. CASE a # "AD"
  <2> DEFINE f == [t.failed EXCEPT ![op.key] = Class(a)]
  <2>1. AuthRefused(a) = [t EXCEPT !.failed = f]
    BY <1>3 DEF AuthRefused, Drivers
  <2>2. /\ f \in [KeyNos -> {"no"} \cup Errors] /\ f[op.key] = Class(a)
        /\ \A n \in KeyNos : n # op.key => f[n] = t.failed[n]
    BY <1>1 DEF Drivers
  <2> HIDE DEF f
  <2>3. AuthRefused(a) \in Drivers /\ AuthRefused(a).keys = t.keys /\ AuthRefused(a).failed = f
    BY <2>1, <2>2 DEF Drivers
  <2> QED BY <1>1, <1>3, <2>2, <2>3
<1> QED BY <1>2, <1>3

(* Every answer is learned from, a refusal above all.                      *)
LEMMA HandleLearns ==
    ASSUME op \in Operations, t \in Drivers, op.key \in KeyNos \/ ~InAuth, NEW a, Handle(a)
    PROVE  /\ Learns
           /\ InAuth /\ Doing = "auth2" /\ a = "AE" => t'.failed[op.key] # "no"
<1>1. Class(a) \in Errors /\ "other" \in Errors
  BY ClassIsError DEF Errors
<1>2. CASE InAuth
  <2>1. op.key \in KeyNos /\ Authenticated(a)
    BY <1>2 DEF Handle
  <2>2. CASE t' = Remember(t, Class(a)) /\ a \in {"fault", "removed"}
    BY <1>1, <2>2, RememberTyped DEF Learns
  <2>3. CASE /\ t' = IF Doing = "auth2" THEN [t EXCEPT !.session = op.key] ELSE t
             /\ a \in {"ok", "af"} \/ (a = "lrp" /\ Doing = "lrp1")
    BY <2>1, <2>3 DEF Learns, Drivers
  <2>4. CASE a = "lrp" /\ t' \in {[t EXCEPT !.lrp = TRUE], Remember([t EXCEPT !.lrp = TRUE], "other")}
    <3> DEFINE d == [t EXCEPT !.lrp = TRUE]
    <3>1. d \in Drivers /\ d.keys = t.keys /\ d.failed = t.failed
      BY DEF Drivers
    <3> HIDE DEF d
    <3>2. t' \in {d, Remember(d, "other")}
      BY <2>4 DEF d
    <3>3. t' \in Drivers /\ t'.keys = t.keys /\ t'.failed = t.failed
      BY <1>1, <3>1, <3>2, RememberTyped
    <3> QED BY <2>4, <3>3 DEF Learns
  <2>5. CASE t' = Remember(AuthRefused(a), Class(a))
    <3> DEFINE d == AuthRefused(a)
    <3>1. /\ d \in Drivers /\ d.keys = t.keys
          /\ \A n \in KeyNos : t.failed[n] # "no" => d.failed[n] # "no"
          /\ a # "AD" => d.failed[op.key] # "no"
      BY <2>1, RefusedTyped
    <3> HIDE DEF d
    <3>2. t' \in Drivers /\ t'.keys = d.keys /\ t'.failed = d.failed
      BY <1>1, <2>5, <3>1, RememberTyped DEF d
    <3> QED BY <3>1, <3>2 DEF Learns
  <2> QED BY <2>1, <2>2, <2>3, <2>4, <2>5 DEF Authenticated
<1>3. CASE ~InAuth
  <2>1. Answered(a)
    BY <1>3 DEF Handle
  <2>2. CASE t' = t
    BY <1>3, <2>2 DEF Learns
  <2>3. CASE Failed(a)
    <3> DEFINE d == [t EXCEPT !.session = NoKey]
    <3>1. d \in Drivers /\ d.keys = t.keys /\ d.failed = t.failed /\ t' = Remember(d, Class(a))
      BY <2>3 DEF Drivers, Failed
    <3> HIDE DEF d
    <3>2. t' \in Drivers /\ t'.keys = t.keys /\ t'.failed = t.failed
      BY <1>1, <3>1, RememberTyped
    <3> QED BY <1>3, <3>2 DEF Learns
  <2>4. CASE After
    <3>1. t' \in {t, [t EXCEPT !.real = TRUE], [t EXCEPT !.session = NoKey],
                  [t EXCEPT !.session = NoKey, !.lrp = TRUE]}
      BY <2>4 DEF After
    <3>2. t' \in Drivers /\ t'.keys = t.keys /\ t'.failed = t.failed
      BY <3>1 DEF Drivers
    <3> QED BY <1>3, <3>2 DEF Learns
  <2> QED BY <2>1, <2>2, <2>3, <2>4 DEF Answered
<1> QED BY <1>2, <1>3

-----------------------------------------------------------------------------
(* The card's count, and the driver's account of it.                       *)

CardLimit == card.pend # NoKey => card.fails < FailLimit

Accounted ==
    /\ refused \subseteq (1 .. sets) \X KeyNos /\ unheard <= faults
    /\ ~phone => \A n \in KeyNos : <<sets, n>> \in refused => t.failed[n] # "no"
    /\ LockoutBounded

(* The card counts one up for a key that is not its own, and for nothing   *)
(* else.                                                                   *)
LEMMA CountKept ==
    ASSUME Outcome(Asked), card \in Cards, CardLimit
    PROVE  /\ Asked.card \in Cards /\ (Asked.card.pend # NoKey => Asked.card.fails < FailLimit)
           /\ Asked.card.fails \in {0, card.fails, card.fails + 1}
           /\ Asked.card.fails > card.fails =>
                 /\ Doing = "auth2" /\ Asked.ans = "AE" /\ Asked.card.fails = card.fails + 1
                 /\ card.pend # NoKey /\ card.key[card.pend] # KeyFor(op.key)
<1>1. PICK c : c = Asked.card
  OBVIOUS
<1>2. PICK k \in 0 .. FailLimit : k = card.fails
  BY DEF Cards
<1>3. c \in CardTypes
  BY <1>1 DEF Outcome
<1>4. FailLimit \in Nat \ {0}
  BY CardAssumption
<1>5. CASE Doing \in {"auth1", "lrp1"}
  <2>1. c.fails = k /\ (c.pend # NoKey => k < FailLimit)
    BY <1>1, <1>2, <1>5 DEF Outcome, Counted
  <2>2. c \in Cards
    BY <1>3, <2>1 DEF CardTypes, Cards
  <2> QED BY <1>1, <1>2, <2>1, <2>2
<1>6. CASE Doing = "auth2"
  <2>1. /\ c.pend = NoKey
        /\ \/ c.fails = k
           \/ c.fails = 0
           \/ /\ c.fails = k + 1 /\ Asked.ans = "AE"
              /\ card.pend # NoKey /\ card.key[card.pend] # KeyFor(op.key)
    BY <1>1, <1>2, <1>6 DEF Outcome, Counted
  <2>2. c.fails \in 0 .. FailLimit
    BY <1>2, <1>4, <2>1 DEF CardLimit
  <2>3. c \in Cards
    BY <1>3, <2>2 DEF CardTypes, Cards
  <2> QED BY <1>1, <1>2, <1>6, <2>1, <2>3
<1>7. CASE Doing \notin AuthWords
  <2>1. c.fails = k /\ c.pend \in {card.pend, NoKey}
    BY <1>1, <1>2, <1>7 DEF Outcome, Counted
  <2>2. c \in Cards
    BY <1>3, <2>1 DEF CardTypes, Cards
  <2> QED BY <1>1, <1>2, <2>1, <2>2 DEF CardLimit
<1> QED BY <1>5, <1>6, <1>7 DEF AuthWords

DriverInv ==
    /\ TypeOK /\ CardLimit /\ Accounted /\ NeverMixed /\ ReportIsTrue
    /\ op # Idle => OpInv(op, card.file, card.set)
    /\ AuthOK /\ PendOK

(* The refusals are finitely many, and one more is one more.               *)
LEMMA RefusedCount ==
    ASSUME refused \subseteq (1 .. sets) \X KeyNos, sets \in Nat
    PROVE  /\ IsFiniteSet(refused) /\ Cardinality(refused) \in Nat
           /\ \A x : x \notin refused => Cardinality(refused \cup {x}) = Cardinality(refused) + 1
<1>1. IsFiniteSet(KeyNos)
  <2>1. PICK n \in Int : n = 4
    OBVIOUS
  <2>2. IsFiniteSet(0 .. n)
    BY FS_Interval
  <2>3. KeyNos \in SUBSET (0 .. n)
    BY <2>1, CardAssumption
  <2> QED BY <2>2, <2>3, FS_Subset
<1>2. IsFiniteSet(1 .. sets)
  BY FS_Interval
<1>3. IsFiniteSet((1 .. sets) \X KeyNos)
  BY <1>1, <1>2, FS_Product
<1>4. IsFiniteSet(refused)
  BY <1>3, FS_Subset
<1> QED BY <1>4, FS_CardinalityType, FS_AddElement

(* What a step can do to the file.                                         *)
LEMMA FileKept ==
    ASSUME OpInv(op, card.file, card.set), card.file \in File, NeverMixed, Outcome(Asked)
    PROVE  Asked.card.file.nlen = 1 => Asked.card.file.c1 = Asked.card.file.c2
<1>1. Doing = op.steps[1] /\ FileOK(op, card.file)
  BY DoingIn DEF OpInv
<1>2. CASE Asked.card.file = card.file
  BY <1>2 DEF NeverMixed
<1>3. CASE Doing \in FileSteps /\ Asked.card.file = Put(card.file, Doing, op.msg)
  <2>1. CASE Doing = "clear"
    BY <1>3, <2>1 DEF Put, File
  <2>2. CASE Doing = "chunk1"
    BY <1>1, <1>3, <2>2 DEF Put, File, FileOK
  <2>3. CASE Doing = "chunk2"
    BY <1>1, <1>3, <2>3 DEF Put, File, FileOK
  <2>4. CASE Doing = "length"
    BY <1>1, <1>3, <2>4 DEF Put, File, FileOK
  <2> QED BY <1>3, <2>1, <2>2, <2>3, <2>4 DEF FileSteps
<1> QED BY <1>2, <1>3 DEF Outcome

(* A refusal on a reader is of a key wrong for the card, and the first of  *)
(* it in this memory.                                                      *)
LEMMA RefusalIsNew ==
    ASSUME DriverInv, op # Idle, Outcome(Asked), Asked.card.fails > card.fails
    PROVE  /\ op.key \in KeyNos /\ InAuth /\ Doing = "auth2" /\ Asked.ans = "AE"
           /\ Asked.card.fails = card.fails + 1
           /\ ~phone => Refuses /\ <<sets, op.key>> \notin refused
<1>1. /\ OpInv(op, card.file, card.set) /\ AuthOK /\ PendOK /\ Accounted /\ card \in Cards /\ CardLimit
  BY DEF DriverInv, TypeOK
<1>2. /\ op \in Operations /\ FlowOK(op) /\ Doing = op.steps[1]
  BY <1>1, DoingIn DEF OpInv
<1>3. /\ Doing = "auth2" /\ Asked.ans = "AE" /\ Asked.card.fails = card.fails + 1
      /\ card.pend # NoKey /\ card.key[card.pend] # KeyFor(op.key)
  BY <1>1, CountKept
<1>4. op.key \in KeyNos /\ t.failed[op.key] = "no" /\ ~NeedsReal(op.key)
  <2>1. 1 \in 1 .. Len(op.steps) /\ op.steps[1] \in AuthWords
    BY <1>2, <1>3, DoingFacts DEF AuthWords
  <2> QED BY <1>1, <2>1 DEF AuthOK
<1>5. InAuth
  BY <1>1, <1>3, NotAuth DEF AuthWords
<1>6. ASSUME ~phone PROVE Refuses /\ <<sets, op.key>> \notin refused
  <2>1. card.pend = op.key
    BY <1>1, <1>2, <1>3, <1>6 DEF PendOK
  <2>2. KeyFor(op.key) = IF Derived(op.key) THEN "real" ELSE t.keys.of[op.key]
    BY <1>4 DEF KeyFor, NeedsReal
  <2>3. Wrongly(op.key)
    BY <1>3, <2>1, <2>2 DEF Wrongly
  <2> QED BY <1>1, <1>4, <1>6, <2>3 DEF Refuses, Accounted
<1> QED BY <1>3, <1>4, <1>5, <1>6

(* An answer handled leaves the operation standing.                        *)
LEMMA HandleStands ==
    ASSUME DriverInv, op # Idle, Doing \notin LocalSteps, phone' = phone, NEW a, Happened(a), Handle(a)
    PROVE  /\ Stands /\ Learns
           /\ InAuth /\ Doing = "auth2" /\ a = "AE" => t'.failed[op.key] # "no"
<1>1. /\ OpInv(op, card.file, card.set) /\ AuthOK /\ card \in CardTypes /\ t \in Drivers
  <2>1. card \in CardTypes
    BY CardAssumption DEF DriverInv, TypeOK, Cards, CardTypes
  <2> QED BY <2>1 DEF DriverInv, TypeOK, Drivers
<1>2. op \in Operations /\ FlowOK(op) /\ Doing = op.steps[1]
  BY <1>1, DoingIn DEF OpInv
<1>3. op.key \in KeyNos \/ ~InAuth
  BY <1>2 DEF FlowOK, InAuth, LocalSteps
<1>4. /\ Learns
      /\ InAuth /\ Doing = "auth2" /\ a = "AE" => t'.failed[op.key] # "no"
  BY <1>1, <1>2, <1>3, HandleLearns
<1>5. CASE InAuth
  <2>1. Authenticated(a)
    BY <1>5 DEF Handle
  <2> QED BY <1>1, <1>4, <1>5, <2>1, AuthenticatedStands
<1>6. CASE ~InAuth
  <2>1. Answered(a)
    BY <1>6 DEF Handle
  <2> QED BY <1>1, <1>4, <1>6, <2>1, AnsweredStands
<1> QED BY <1>5, <1>6

LEMMA AskedIs ==
    ASSUME DriverInv, op # Idle, Doing \notin LocalSteps, ~Diverted
    PROVE  Outcome(Asked) /\ op \in Operations /\ card \in CardTypes /\ card \in Cards
<1>1. op \in Operations /\ FlowOK(op) /\ Doing = op.steps[1] /\ card \in Cards
  BY DoingIn DEF DriverInv, TypeOK, OpInv
<1>2. card \in CardTypes
  BY <1>1, CardAssumption DEF Cards, CardTypes
<1>3. Doing \in AllSteps
  <2>1. op.steps \in Seq(AllSteps) /\ 1 \in 1 .. Len(op.steps)
    BY <1>1, DoingFacts DEF Operations
  <2> QED BY <1>1, <2>1
<1> QED BY <1>1, <1>2, <1>3, AskedOutcome DEF LocalSteps

(* The parts make the invariant.                                           *)
LEMMA Assembled ==
    ASSUME Stands, t' \in Drivers, card' \in Cards, CardLimit', NeverMixed', Accounted',
           phone' \in BOOLEAN, faults' \in 0 .. MaxFaults, foreign' \in 0 .. MaxForeign,
           sets' \in 1 .. MaxSets, ops' \in 0 .. MaxOps, unheard' \in Nat
    PROVE  DriverInv'
<1>1. op' # Idle => OpInv(op, card.file, card.set)'
  BY DEF Stands, Goes
<1>2. op' = Idle \/ op'.stage \in {"held", "plain", "keyed", "resolve", "iso"}
  BY <1>1 DEF OpInv, Operations, Stages
<1>3. refused' \subseteq (1 .. MaxSets) \X KeyNos /\ unheard' \in 0 .. MaxFaults
  BY DriverAssumption DEF Accounted
<1>4. TypeOK'
  BY <1>2, <1>3 DEF TypeOK, Drivers
<1> QED BY <1>1, <1>4 DEF DriverInv, Stands, Goes

LEMMA Bounds ==
    ASSUME DriverInv
    PROVE  /\ sets \in 1 .. MaxSets /\ foreign \in 0 .. MaxForeign /\ ops \in 0 .. MaxOps
           /\ faults \in 0 .. MaxFaults /\ unheard \in Nat /\ phone \in BOOLEAN
           /\ sets \in Nat /\ faults \in Nat /\ card \in Cards /\ t \in Drivers
BY DriverAssumption DEF DriverInv, TypeOK, Drivers

(* A refusal heard is accounted for, and so is one lost.                   *)
LEMMA HeardAccounted ==
    ASSUME DriverInv, op # Idle, Outcome(Asked), card' = Asked.card, Learns,
           InAuth /\ Doing = "auth2" /\ Asked.ans = "AE" => t'.failed[op.key] # "no",
           refused' = IF Refuses THEN refused \cup {<<sets, op.key>>} ELSE refused,
           UNCHANGED <<phone, sets, faults, unheard>>
    PROVE  Accounted'
<1>1. /\ refused \subseteq (1 .. sets) \X KeyNos /\ unheard <= faults
      /\ ~phone => \A n \in KeyNos : <<sets, n>> \in refused => t.failed[n] # "no"
      /\ ~phone => card.fails <= Cardinality(refused) + unheard
      /\ card \in Cards /\ CardLimit
  BY DEF DriverInv, TypeOK, Accounted, LockoutBounded
<1>2. sets \in 1 .. sets /\ unheard \in Nat /\ sets \in Nat
  BY Bounds, DriverAssumption
<1>3. PICK k \in Nat : k = card.fails
  BY <1>1, CardAssumption DEF Cards
<1>4. /\ Asked.card.fails \in {0, k, k + 1}
      /\ Asked.card.fails > k =>
            /\ op.key \in KeyNos /\ InAuth /\ Doing = "auth2" /\ Asked.ans = "AE"
            /\ ~phone => Refuses /\ <<sets, op.key>> \notin refused
  BY <1>1, <1>3, CountKept, RefusalIsNew
<1>5. Refuses => Asked.card.fails > k
  BY <1>3 DEF Refuses
<1>6. refused' \subseteq (1 .. sets) \X KeyNos
  BY <1>1, <1>2, <1>4, <1>5
<1>7. ASSUME ~phone, NEW n \in KeyNos, <<sets, n>> \in refused' PROVE t'.failed[n] # "no"
  <2>1. CASE <<sets, n>> \in refused
    BY <1>1, <1>7, <2>1 DEF Learns
  <2>2. CASE <<sets, n>> \notin refused
    <3>1. Refuses /\ n = op.key
      BY <1>7, <2>2
    <3> QED BY <1>4, <1>5, <3>1
  <2> QED BY <2>1, <2>2
<1>8. ASSUME ~phone PROVE Asked.card.fails <= Cardinality(refused') + unheard
  <2>1. PICK c \in Nat : c = Cardinality(refused) /\ k <= c + unheard
    BY <1>1, <1>2, <1>3, <1>8, RefusedCount
  <2>2. CASE Refuses
    <3>1. Cardinality(refused') = c + 1
      BY <1>1, <1>2, <1>4, <1>5, <1>8, <2>1, <2>2, RefusedCount
    <3> QED BY <1>2, <1>3, <1>4, <2>1, <3>1
  <2>3. CASE ~Refuses
    <3>1. Asked.card.fails \in {0, k}
      BY <1>3, <1>4, <1>8, <2>3
    <3> QED BY <1>2, <1>3, <2>1, <2>3, <3>1
  <2> QED BY <2>2, <2>3
<1> QED BY <1>1, <1>6, <1>7, <1>8 DEF Accounted, LockoutBounded

LEMMA LostAccounted ==
    ASSUME DriverInv, op # Idle, Outcome(Asked), Learns, UNCHANGED <<phone, sets, refused>>,
           faults' = faults + 1,
           \/ card'.fails = card.fails /\ unheard' = unheard
           \/ /\ card'.fails = Asked.card.fails
              /\ unheard' = IF Refuses THEN unheard + 1 ELSE unheard
    PROVE  Accounted' /\ unheard' \in Nat
<1>1. /\ refused \subseteq (1 .. sets) \X KeyNos /\ unheard <= faults
      /\ ~phone => \A n \in KeyNos : <<sets, n>> \in refused => t.failed[n] # "no"
      /\ ~phone => card.fails <= Cardinality(refused) + unheard
      /\ card \in Cards /\ CardLimit
  BY DEF DriverInv, TypeOK, Accounted, LockoutBounded
<1>2. unheard \in Nat /\ sets \in Nat /\ faults \in Nat
  BY Bounds
<1>3. PICK k \in Nat : k = card.fails
  BY <1>1, CardAssumption DEF Cards
<1>4. /\ Asked.card.fails \in {0, k, k + 1}
      /\ Asked.card.fails > k /\ ~phone => Refuses
  BY <1>1, <1>3, CountKept, RefusalIsNew
<1>5. PICK c \in Nat : c = Cardinality(refused)
  BY <1>1, <1>2, RefusedCount
<1>6. ~phone => card'.fails <= c + unheard'
  BY <1>1, <1>2, <1>3, <1>4, <1>5
<1>7. unheard' \in Nat /\ unheard' <= faults'
  BY <1>1, <1>2
<1>8. ~phone => \A n \in KeyNos : <<sets, n>> \in refused => t'.failed[n] # "no"
  BY <1>1 DEF Learns
<1> QED BY <1>1, <1>5, <1>6, <1>7, <1>8 DEF Accounted, LockoutBounded

(* One exchange, in each of its four outcomes.                             *)
LEMMA ExchangeKeeps ==
    ASSUME DriverInv, Exchange
    PROVE  DriverInv'
<1>1. op # Idle /\ Doing \notin LocalSteps /\ ~Diverted /\ UNCHANGED <<phone, foreign, sets, ops>>
  BY DEF Exchange, LocalSteps
<1>2. Outcome(Asked) /\ card \in CardTypes /\ card \in Cards
  BY <1>1, AskedIs
<1>3. OpInv(op, card.file, card.set) /\ card.file \in File /\ NeverMixed /\ CardLimit
  BY <1>1, <1>2 DEF DriverInv, CardTypes
<1>4. /\ Asked.card \in Cards /\ (Asked.card.pend # NoKey => Asked.card.fails < FailLimit)
      /\ Asked.card.file.nlen = 1 => Asked.card.file.c1 = Asked.card.file.c2
  BY <1>2, <1>3, CountKept, FileKept
<1>5. CASE /\ card' = Asked.card /\ Handle(Asked.ans)
           /\ refused' = IF Refuses THEN refused \cup {<<sets, op.key>>} ELSE refused
           /\ UNCHANGED <<faults, unheard>>
  <2>1. Happened(Asked.ans)
    BY <1>2, <1>5, HeardHappened
  <2>2. /\ Stands /\ Learns
        /\ InAuth /\ Doing = "auth2" /\ Asked.ans = "AE" => t'.failed[op.key] # "no"
    BY <1>1, <1>5, <2>1, HandleStands
  <2>3. Accounted'
    BY <1>1, <1>2, <1>5, <2>2, HeardAccounted
  <2>4. CardLimit' /\ NeverMixed' /\ card' \in Cards
    BY <1>4, <1>5 DEF CardLimit, NeverMixed
  <2> QED BY <1>1, <1>5, <2>2, <2>3, <2>4, Bounds, Assembled DEF Learns
<1>6. CASE /\ faults < MaxFaults /\ faults' = faults + 1 /\ UNCHANGED refused
           /\ card' = card /\ Handle("fault") /\ UNCHANGED unheard
  <2>1. Happened("fault")
    BY <1>2, <1>6, LostHappened
  <2>2. Stands /\ Learns
    BY <1>1, <1>6, <2>1, HandleStands
  <2>3. Accounted' /\ unheard' \in Nat
    BY <1>1, <1>2, <1>6, <2>2, LostAccounted
  <2>4. CardLimit' /\ NeverMixed' /\ card' \in Cards
    BY <1>2, <1>3, <1>6 DEF CardLimit, NeverMixed
  <2>5. faults' \in 0 .. MaxFaults
    BY <1>6, Bounds, DriverAssumption
  <2> QED BY <1>1, <1>6, <2>2, <2>3, <2>4, <2>5, Bounds, Assembled DEF Learns
<1>7. CASE /\ faults < MaxFaults /\ faults' = faults + 1 /\ UNCHANGED refused
           /\ card' = [Asked.card EXCEPT !.ours = FALSE] /\ Handle("fault")
           /\ unheard' = IF Refuses THEN unheard + 1 ELSE unheard
  <2>1. Happened("fault")
    BY <1>2, <1>7, LostHappened
  <2>2. Stands /\ Learns
    BY <1>1, <1>7, <2>1, HandleStands
  <2>3. /\ card' \in Cards /\ card'.fails = Asked.card.fails /\ card'.pend = Asked.card.pend
        /\ card'.file = Asked.card.file
    BY <1>4, <1>7 DEF Cards
  <2>4. Accounted' /\ unheard' \in Nat
    BY <1>1, <1>2, <1>7, <2>2, <2>3, LostAccounted
  <2>5. CardLimit' /\ NeverMixed'
    BY <1>4, <2>3 DEF CardLimit, NeverMixed
  <2>6. faults' \in 0 .. MaxFaults
    BY <1>7, Bounds, DriverAssumption
  <2> QED BY <1>1, <1>7, <2>2, <2>3, <2>4, <2>5, <2>6, Bounds, Assembled DEF Learns
<1>8. CASE /\ faults < MaxFaults /\ faults' = faults + 1 /\ UNCHANGED refused
           /\ card' = NewPresentation(card) /\ Handle("removed") /\ UNCHANGED unheard
  <2>1. Happened("removed")
    BY <1>2, <1>8, GoneHappened
  <2>2. Stands /\ Learns
    BY <1>1, <1>8, <2>1, HandleStands
  <2>3. /\ card' \in Cards /\ card'.fails = card.fails /\ card'.pend = NoKey /\ card'.file = card.file
    BY <1>2, <1>8 DEF Cards, NewPresentation, ClearSelection, DropSession
  <2>4. Accounted' /\ unheard' \in Nat
    BY <1>1, <1>2, <1>8, <2>2, <2>3, LostAccounted
  <2>5. CardLimit' /\ NeverMixed'
    BY <1>3, <2>3 DEF CardLimit, NeverMixed
  <2>6. faults' \in 0 .. MaxFaults
    BY <1>8, Bounds, DriverAssumption
  <2> QED BY <1>1, <1>8, <2>2, <2>3, <2>4, <2>5, <2>6, Bounds, Assembled DEF Learns
<1> QED BY <1>5, <1>6, <1>7, <1>8 DEF Exchange

(* A body, the UID's too, is of the steps that lead nowhere.               *)
LEMMA BodyPlain ==
    ASSUME op \in Operations, FlowOK(op)
    PROVE  /\ Len(op.body) > 0 /\ op.body \in Seq(AllSteps) /\ op.body[1] \notin {"chunk1", "chunk2", "length"}
           /\ \A i \in 1 .. Len(op.body) :
                 op.body[i] \notin AuthWords /\ op.body[i] \notin LeadSteps \ {"select"}
<1>1. op.body \in Seq(AllSteps) /\ op.kind \in Kinds /\ op.want \in WantOf(op.kind)
  BY DEF Operations, FlowOK
<1>2. CASE op.stage # "resolve"
  <2>1. BodyOK(op.body, op.kind, op.want)
    BY <1>2 DEF FlowOK
  <2> QED BY <1>1, <2>1, BodyFree
<1>3. CASE op.stage = "resolve"
  <2>1. op.body = <<"uid">>
    BY <1>3 DEF FlowOK
  <2>2. PICK b \in Seq(AllSteps) : b = op.body
    BY <1>1
  <2>3. Len(b) = 1 /\ b[1] = "uid"
    BY <2>1, <2>2
  <2>4. \A i \in 1 .. Len(b) : b[i] = "uid"
    BY <2>3
  <2> QED BY <2>2, <2>3, <2>4 DEF AuthWords, LeadSteps
<1> QED BY <1>2, <1>3

(* The steps left where one of the driver's own comes first.               *)
LEMMA LocalFirst ==
    ASSUME op \in Operations, FlowOK(op), Doing \in LocalSteps
    PROVE  /\ Doing = op.steps[1] /\ op.stage \in {"keyed", "resolve"}
           /\ \A i \in 1 .. Len(op.steps) : op.steps[i] \notin AuthWords
           /\ op.key \in KeyNos \/ op.steps[1] \in {"told", "verify"}
           /\ Doing \in {"told", "verify"} => op.stage # "resolve" /\ Doing \in Ends(op.kind, op.want)
           /\ Doing \in {"enter", "old"} => Len(op.steps) > Len(op.body)
<1>1. /\ Doing = op.steps[1] /\ op.want \in WantOf(op.kind) /\ op.kind \in Kinds
      /\ Doing \in LeadSteps \cup Middle(op.want) \cup Ends(op.kind, op.want) \cup {"uid"}
  BY DoingIn
<1>2. PICK s \in Seq(AllSteps) : s = op.steps
  BY DEF Operations
<1>3. PICK b \in Seq(AllSteps) : b = op.body
  BY DEF Operations
<1>4. PICK n \in Nat \ {0} : n = Len(s)
  BY <1>2, DoingFacts
<1>5. PICK k \in Nat \ {0} : k = Len(b)
  BY <1>3, DoingFacts
<1>6. /\ \A i \in 1 .. n : IF i > n - k THEN s[i] = b[i - (n - k)] ELSE s[i] \in LeadSteps
      /\ \A i, j \in 1 .. n : s[i] \in {"enter", "old"} => s[j] \notin AuthWords
  <2>1. Led(s, b)
    BY <1>2, <1>3 DEF FlowOK
  <2> QED BY <1>4, <1>5, <2>1 DEF Led
<1>7. \A i \in 1 .. k : b[i] \notin AuthWords /\ b[i] \notin LeadSteps \ {"select"}
  BY <1>3, <1>5, BodyPlain
<1>8. 1 \in 1 .. n /\ op.stage \in {"keyed", "resolve"}
  <2>1. 1 \in 1 .. n /\ 1 \in 1 .. Len(op.steps)
    BY <1>2, <1>4
  <2>2. op.steps[1] \in LocalSteps
    BY <1>1
  <2> QED BY <2>1, <2>2 DEF FlowOK
<1>9. CASE Doing \in {"enter", "old"}
  <2>1. \A i \in 1 .. n : s[i] \notin AuthWords
    BY <1>1, <1>2, <1>6, <1>8, <1>9
  <2>2. n > k
    <3> SUFFICES ASSUME n <= k PROVE FALSE
      OBVIOUS
    <3>1. 1 > n - k /\ 1 - (n - k) \in 1 .. k
      OBVIOUS
    <3> QED BY <1>1, <1>2, <1>6, <1>7, <1>8, <1>9, <3>1 DEF LeadSteps
  <2> QED BY <1>1, <1>2, <1>3, <1>4, <1>5, <1>8, <1>9, <2>1, <2>2 DEF FlowOK
<1>10. CASE Doing \in {"told", "verify"}
  <2>1. Doing \notin LeadSteps /\ Doing \notin Middle(op.want) /\ Doing # "uid"
    BY <1>10 DEF LeadSteps, AuthWords, Middle, FileSteps
  <2>2. n <= k
    <3> SUFFICES ASSUME n > k PROVE FALSE
      OBVIOUS
    <3>1. ~(1 > n - k)
      OBVIOUS
    <3> QED BY <1>1, <1>2, <1>6, <1>8, <2>1, <3>1
  <2>3. \A i \in 1 .. n : s[i] \notin AuthWords
    <3> TAKE i \in 1 .. n
    <3>1. i > n - k /\ i - (n - k) \in 1 .. k
      BY <2>2
    <3> QED BY <1>6, <1>7, <3>1
  <2>4. op.stage # "resolve"
    BY <1>1, <1>2, <1>3, <1>4, <1>5, <2>1, <2>2, DoingFacts
  <2> QED BY <1>1, <1>2, <1>4, <1>8, <1>10, <2>1, <2>3, <2>4
<1> QED BY <1>9, <1>10 DEF LocalSteps

(* The UID is asked for, and what needed it waits.                         *)
LEMMA ResolveStands ==
    ASSUME OpInv(op, card.file, card.set), AuthOK, op # Idle, t \in Drivers, card' = card, phone' = phone,
           Doing \in LocalSteps, op.stage # "resolve", Resolve
    PROVE  Stands /\ Learns
<1>1. op \in Operations /\ FlowOK(op) /\ TrueOK(op, card.file, card.set) /\ Unheard
  BY DEF OpInv, Unheard
<1>2. /\ Doing = op.steps[1] /\ op.stage = "keyed"
      /\ \A i \in 1 .. Len(op.steps) : op.steps[i] \notin AuthWords
      /\ op.key \in KeyNos \/ op.steps[1] \in {"told", "verify"}
  BY <1>1, LocalFirst
<1>3. CASE t.resolved # "no"
  <2>1. Fail(t.resolved) /\ t' = t
    BY <1>3 DEF Resolve
  <2> QED BY <1>1, <2>1, FailStands DEF Learns
<1>4. CASE Fail("other") /\ t' = [t EXCEPT !.resolved = "other"]
  BY <1>1, <1>4, FailStands DEF Learns, Drivers, Errors
<1>5. CASE /\ Resolvers # {} /\ t' = t
           /\ Continue([op EXCEPT !.stage = "resolve", !.key = Least(Resolvers),
                                  !.body = <<"uid">>, !.steps = <<"enter", "uid">>,
                                  !.outer = [key |-> op.key, body |-> op.body, steps |-> op.steps]])
  <2> DEFINE k == Least(Resolvers)  b == <<"uid">>  s == <<"enter", "uid">>
             o == [key |-> op.key, body |-> op.body, steps |-> op.steps]
             p == [op EXCEPT !.stage = "resolve", !.key = k, !.body = b, !.steps = s, !.outer = o]
  <2>1. k \in KeyNos /\ ~Derived(k)
    <3>1. Resolvers \in SUBSET KeyNos
      BY DEF Resolvers
    <3>2. Least(Resolvers) \in Resolvers
      BY <1>5, <3>1, LeastHeld
    <3> QED BY <3>1, <3>2 DEF Resolvers
  <2>2. /\ b \in Seq(AllSteps) /\ s \in Seq(AllSteps) /\ Len(s) = 2 /\ s[1] = "enter" /\ s[2] = "uid"
        /\ Len(b) = 1 /\ b[1] = "uid"
    BY DEF AllSteps, BodySteps, LeadSteps
  <2>3. op' = p /\ last' = NoWord
    BY <1>5 DEF Continue
  <2>4. o \in [key : KeyNos \cup {NoKey}, body : Seq(AllSteps), steps : Seq(AllSteps)]
        /\ o.key = op.key /\ o.body = op.body /\ o.steps = op.steps
    BY <1>1 DEF Operations
  <2>9. b = <<"uid">>
    OBVIOUS
  <2> HIDE DEF k, b, s, o
  <2>5. /\ p \in Operations /\ Same(p, op) /\ p.sent = op.sent /\ p.stage = "resolve" /\ p.key = k
        /\ p.body = b /\ p.steps = s /\ p.outer = o
    BY <1>1, <2>1, <2>2, <2>4 DEF Operations, Same, Stages
  <2> HIDE DEF p
  <2>0. \A i \in 1 .. 2 : i = 1 \/ i = 2
    OBVIOUS
  <2>6. \A i \in 1 .. Len(s) : s[i] \notin AuthWords /\ s[i] # "old"
    BY <2>0, <2>2 DEF AuthWords
  <2>7. Led(s, b)
    <3>1. \A i \in 1 .. 2 : IF i > 2 - 1 THEN s[i] = b[i - (2 - 1)] ELSE s[i] \in LeadSteps
      BY <2>0, <2>2 DEF LeadSteps
    <3> QED BY <2>2, <2>6, <3>1 DEF Led, AuthWords
  <2>8. FlowOK(p)
    <3>1. /\ op.want \in WantOf(op.kind) /\ BodyOK(op.body, op.kind, op.want) /\ Led(op.steps, op.body)
      BY <1>1, <1>2 DEF FlowOK
    <3> QED BY <1>2, <2>1, <2>4, <2>5, <2>7, <2>9, <3>1 DEF FlowOK, Same, LocalSteps
  <2>10. FileOK(p, card'.file) /\ TrueOK(p, card'.file, card'.set)
    BY <1>1, <2>2, <2>5 DEF FileOK, TrueOK, Same
  <2>11. Goes
    BY <2>3, <2>5, <2>8, <2>10 DEF Goes, OpInv, ReportIsTrue
  <2>12. AuthOK' /\ PendOK'
    BY <1>2, <1>5, <2>1, <2>2, <2>3, <2>4, <2>5, <2>6 DEF AuthOK, PendOK, Derived
  <2> QED BY <1>5, <2>11, <2>12 DEF Stands, Learns
<1> QED BY <1>3, <1>4, <1>5 DEF Resolve

(* The body of a stage begun, in the session there is or in a new one.     *)
LEMMA BodyStands ==
    ASSUME OpInv(op, card.file, card.set), AuthOK, op # Idle, Doing = "enter", card' = card, phone' = phone,
           NEW s \in Seq(AllSteps), Led(s, op.body), s[1] \notin {"chunk1", "chunk2", "length", "auth2"},
           \A i \in 1 .. Len(s) : s[i] # "old",
           Continue([op EXCEPT !.steps = s]),
           t'.failed = t.failed, t'.real = t.real, t'.keys = t.keys,
           \/ \A i \in 1 .. Len(s) : s[i] \notin AuthWords
           \/ t.failed[op.key] = "no" /\ ~NeedsReal(op.key)
    PROVE  Stands
<1> DEFINE p == [op EXCEPT !.steps = s]
<1>1. op \in Operations /\ FlowOK(op) /\ TrueOK(op, card.file, card.set)
  BY DEF OpInv
<1>2. op.stage \in {"keyed", "resolve"} /\ op.key \in KeyNos
  BY <1>1, LocalFirst DEF LocalSteps
<1>3. op' = p /\ last' = NoWord
  BY DEF Continue
<1>4. /\ p \in Operations /\ Same(p, op) /\ p.sent = op.sent /\ p.stage = op.stage /\ p.key = op.key
      /\ p.body = op.body /\ p.steps = s /\ p.outer = op.outer
  BY <1>1 DEF Operations, Same
<1> HIDE DEF p
<1>5. FlowOK(p)
  BY <1>1, <1>2, <1>4 DEF FlowOK, Same
<1>6. FileOK(p, card'.file) /\ TrueOK(p, card'.file, card'.set)
  BY <1>1, <1>4 DEF FileOK, TrueOK, Same
<1>7. Goes
  BY <1>3, <1>4, <1>5, <1>6 DEF Goes, OpInv, ReportIsTrue
<1>8. ASSUME op.stage = "resolve"
      PROVE  /\ ~Derived(op.key)
             /\ \A i \in 1 .. Len(op.outer.steps) : op.outer.steps[i] \notin AuthWords
  BY <1>8 DEF AuthOK
<1>9. AuthOK' /\ PendOK'
  BY <1>2, <1>3, <1>4, <1>8 DEF AuthOK, PendOK, NeedsReal, Derived
<1> QED BY <1>7, <1>9 DEF Stands

(* authenticate, up to what it sends.                                      *)
LEMMA EnterStands ==
    ASSUME OpInv(op, card.file, card.set), AuthOK, op # Idle, t \in Drivers, card' = card, phone' = phone,
           Doing = "enter", Enter
    PROVE  Stands /\ Learns
<1>1. op \in Operations /\ FlowOK(op) /\ Unheard /\ "other" \in Errors
  BY DEF OpInv, Unheard, Errors
<1>2. op.key \in KeyNos /\ op.steps[1] = "enter" /\ Len(op.steps) > 0
  BY <1>1, LocalFirst, DoingFacts DEF LocalSteps
<1>3. /\ Len(op.body) > 0 /\ op.body \in Seq(AllSteps)
      /\ op.body[1] \notin {"chunk1", "chunk2", "length"}
      /\ \A i \in 1 .. Len(op.body) :
            op.body[i] \notin AuthWords /\ op.body[i] \notin LeadSteps \ {"select"}
  BY <1>1, BodyPlain
<1>4. ASSUME NEW e \in Errors, Fail(e), t' = Remember(t, e) PROVE Stands /\ Learns
  <2>1. Stands
    BY <1>1, <1>4, FailStands
  <2>2. t' \in Drivers /\ t'.keys = t.keys /\ t'.failed = t.failed
    BY <1>1, <1>4, RememberTyped
  <2> QED BY <2>1, <2>2 DEF Learns
<1>5. CASE t.session = op.key
  <2>1. Continue([op EXCEPT !.steps = op.body]) /\ t' = t
    BY <1>5 DEF Enter
  <2>2. Led(op.body, op.body)
    BY <1>3, LedSelf
  <2>3. 1 \in 1 .. Len(op.body)
    BY <1>3
  <2>4. /\ op.body[1] \notin {"chunk1", "chunk2", "length", "auth2"}
        /\ \A i \in 1 .. Len(op.body) : op.body[i] # "old" /\ op.body[i] \notin AuthWords
    BY <1>3, <2>3 DEF AuthWords, LeadSteps
  <2>5. Stands
    BY <1>3, <2>1, <2>2, <2>4, BodyStands
  <2> QED BY <2>1, <2>5 DEF Learns
<1>6. CASE t.session # op.key /\ Refused(op.key) # "no"
  <2>1. Refused(op.key) \in Errors
    BY <1>1, <1>2, <1>6 DEF Refused, Drivers
  <2>2. Fail(Refused(op.key)) /\ t' = Remember(t, Refused(op.key))
    BY <1>6 DEF Enter
  <2> QED BY <1>4, <2>1, <2>2
<1>7. CASE t.session # op.key /\ Refused(op.key) = "no" /\ NeedsReal(op.key)
  <2>1. Resolve
    BY <1>7 DEF Enter
  <2>2. op.stage # "resolve"
    BY <1>7 DEF AuthOK, NeedsReal
  <2> QED BY <2>1, <2>2, ResolveStands DEF LocalSteps
<1>8. CASE t.session # op.key /\ Refused(op.key) = "no" /\ ~NeedsReal(op.key) /\ ~Holds(op.key)
  <2>1. Fail("other") /\ t' = Remember(t, "other")
    BY <1>8 DEF Enter
  <2> QED BY <1>1, <1>4, <2>1
<1>9. CASE t.session # op.key /\ Refused(op.key) = "no" /\ ~NeedsReal(op.key) /\ Holds(op.key)
  <2>1. Continue([op EXCEPT !.steps = AuthSteps \o op.body]) /\ t' = [t EXCEPT !.session = NoKey]
    BY <1>9 DEF Enter
  <2>2. t.failed[op.key] = "no"
    BY <1>9 DEF Refused
  <2>3. PICK w \in {"auth1", "lrp1"} : AuthSteps = <<"select", w, "auth2">>
    BY DEF AuthSteps
  <2>4. PICK s : s = <<"select", w, "auth2">> \o op.body
    OBVIOUS
  <2>5. s \in Seq(AllSteps) /\ Led(s, op.body) /\ s[1] = "select" /\ Len(s) = Len(op.body) + 3
    BY <1>3, <2>4, LedAuth
  <2>6. \A i \in 1 .. Len(s) : s[i] # "old"
    <3> SUFFICES ASSUME NEW i \in 1 .. Len(s), s[i] = "old" PROVE FALSE
      OBVIOUS
    <3>1. s[2] = w /\ 2 \in 1 .. Len(s)
      BY <1>3, <2>4, <2>5, CatThree DEF AllSteps, LeadSteps, AuthWords
    <3> QED BY <2>5, <3>1 DEF Led, AuthWords
  <2>7. t' \in Drivers /\ t'.failed = t.failed /\ t'.real = t.real /\ t'.keys = t.keys
    BY <2>1 DEF Drivers
  <2>8. Stands
    BY <1>9, <2>1, <2>2, <2>3, <2>4, <2>5, <2>6, <2>7, BodyStands
  <2> QED BY <2>7, <2>8 DEF Learns
<1> QED BY <1>5, <1>6, <1>7, <1>8, <1>9

(* A key changed outside key 0's place is read first.                      *)
LEMMA OldStands ==
    ASSUME OpInv(op, card.file, card.set), AuthOK, op # Idle, card' = card, phone' = phone,
           Doing = "old", Continue([op EXCEPT !.steps = Tail(@)])
    PROVE  Stands
<1>1. op \in Operations /\ FlowOK(op) /\ TrueOK(op, card.file, card.set) /\ op.sent \in BOOLEAN
  BY DEF OpInv, Operations
<1>2. /\ Doing = op.steps[1] /\ op.stage \in {"keyed", "resolve"} /\ Len(op.steps) > Len(op.body)
      /\ \A i \in 1 .. Len(op.steps) : op.steps[i] \notin AuthWords
  BY <1>1, LocalFirst DEF LocalSteps
<1>3. PICK n \in Nat : n = Len(op.steps) /\ n > 1
  <2>1. PICK n \in Nat \ {0} : n = Len(op.steps)
    BY <1>1, DoingFacts
  <2>2. PICK k \in Nat \ {0} : k = Len(op.body)
    BY <1>1, DoingFacts
  <2> QED BY <1>2, <2>1, <2>2
<1>4. op.stage # "resolve"
  BY <1>2, <1>3 DEF AuthOK
<1> DEFINE p == [op EXCEPT !.sent = op.sent, !.steps = Tail(op.steps)]
<1>5. op.sent \in BOOLEAN /\ Len(op.steps) > 1 /\ p = [op EXCEPT !.sent = op.sent, !.steps = Tail(op.steps)]
  BY <1>1, <1>3
<1>7. op' = p /\ last' = NoWord
  BY <1>1 DEF Continue, Operations
<1> HIDE DEF p
<1>6. /\ p \in Operations /\ Same(p, op) /\ p.sent = op.sent /\ FlowOK(p)
      /\ p.stage = op.stage /\ p.steps = Tail(op.steps) /\ p.steps[1] = op.steps[2]
  <2>1. p \in Operations /\ Same(p, op) /\ FlowOK(p) /\ p.steps[1] = op.steps[2]
    BY <1>1, <1>5, OnwardFlow
  <2> QED BY <1>1, <1>5, <2>1 DEF Operations
<1>8. op.steps \in Seq(AllSteps)
  BY <1>1 DEF Operations
<1>9. \A i \in 1 .. Len(p.steps) : p.steps[i] \notin AuthWords
  <2>1. Len(p.steps) = n - 1 /\ \A i \in 1 .. n - 1 : p.steps[i] = op.steps[i + 1]
    BY <1>3, <1>6, <1>8, TailFacts
  <2>2. \A i \in 1 .. n - 1 : i + 1 \in 1 .. n
    BY <1>3
  <2> QED BY <1>2, <1>3, <2>1, <2>2
<1>10. p.steps[1] \notin {"chunk1", "chunk2", "length"}
  <2>1. op.steps[2] \in {"chunk1", "chunk2", "length"} => Follows(op.steps[1], op.steps[2])
    BY <1>1, <1>3, DoingFacts
  <2>2. op.steps[1] = "old"
    BY <1>2
  <2> QED BY <1>6, <2>1, <2>2 DEF Follows
<1>11. FileOK(p, card'.file) /\ TrueOK(p, card'.file, card'.set)
  BY <1>1, <1>6, <1>10 DEF FileOK, TrueOK, Same
<1>12. Goes
  BY <1>6, <1>7, <1>11 DEF Goes, OpInv, ReportIsTrue
<1>13. GoesAnew
  BY <1>4, <1>6, <1>7, <1>9, <1>10, <1>12 DEF GoesAnew, Quiet
<1> QED BY <1>13, AnewStands

(* A step of the driver's own.                                             *)
LEMMA LocalStands ==
    ASSUME DriverInv, Local
    PROVE  Stands /\ Learns
<1>1. /\ OpInv(op, card.file, card.set) /\ AuthOK /\ op # Idle /\ t \in Drivers /\ card' = card
      /\ phone' = phone /\ Unheard
  BY Bounds DEF DriverInv, Local, bounds, Unheard
<1>2. op \in Operations /\ FlowOK(op) /\ TrueOK(op, card.file, card.set)
  BY <1>1 DEF OpInv
<1>3. CASE Doing = "enter" /\ Enter
  BY <1>1, <1>3, EnterStands
<1>4. CASE Doing = "old" /\ IF NeedsReal(op.n) THEN Resolve
                            ELSE Continue([op EXCEPT !.steps = Tail(@)]) /\ UNCHANGED t
  <2>1. op.stage # "resolve"
    <3>1. op.steps[1] = "old" /\ 1 \in 1 .. Len(op.steps)
      BY <1>2, <1>4, LocalFirst, DoingFacts DEF LocalSteps
    <3> QED BY <1>1, <3>1 DEF AuthOK
  <2>2. CASE Resolve
    BY <1>1, <1>4, <2>1, <2>2, ResolveStands DEF LocalSteps
  <2>3. CASE Continue([op EXCEPT !.steps = Tail(@)]) /\ UNCHANGED t
    BY <1>1, <1>4, <2>3, OldStands DEF Learns
  <2> QED BY <1>4, <2>2, <2>3
<1>5. CASE Doing \in {"verify", "told"}
  <2>1. Doing \in Ends(op.kind, op.want) /\ op.stage # "resolve" /\ op.want \in WantOf(op.kind)
    BY <1>2, <1>5, LocalFirst DEF LocalSteps, FlowOK
  <2>2. CASE Resolve
    BY <1>1, <1>5, <2>1, <2>2, ResolveStands DEF LocalSteps
  <2>3. CASE Doing = "verify" /\ Report(TapVerifies) /\ UNCHANGED t
    <3>1. op.want = "read"
      BY <2>1, <2>3, <1>2, DriverAssumption DEF Ends, Operations
    <3>2. op.kind \in {"read", "sdm"}
      BY <2>1, <3>1 DEF WantOf
    <3>3. TapVerifies \in BOOLEAN
      BY DEF TapVerifies
    <3>4. op.kind = "sdm" => Is(card'.file, op.msg) /\ card'.set = op.plan
      BY <1>1, <1>2, <3>1 DEF TrueOK
    <3>5. FailTrue(op, card'.file, card'.set, Noted.sent)
      BY <1>1, FailureFair
    <3>6. GoesAnew
      BY <1>2, <2>1, <2>3, <3>2, <3>3, <3>4, <3>5, SuccessGoes
    <3> QED BY <1>1, <2>3, <3>6, AnewStands DEF Learns
  <2>4. CASE Doing = "told" /\ Report(TRUE) /\ UNCHANGED t
    <3>1. op.kind = "uid"
      BY <2>1, <2>4, <1>2, DriverAssumption DEF Ends, Operations
    <3>2. GoesAnew
      BY <1>2, <2>4, <3>1, SuccessGoes
    <3> QED BY <1>1, <2>4, <3>2, AnewStands DEF Learns
  <2> QED BY <1>5, <2>2, <2>3, <2>4 DEF Local
<1> QED BY <1>3, <1>4, <1>5 DEF Local

LEMMA LocalKeeps ==
    ASSUME DriverInv, Local
    PROVE  DriverInv'
<1>1. Stands /\ Learns /\ UNCHANGED <<card, phone, faults, foreign, sets, ops, refused, unheard>>
  BY LocalStands DEF Local, bounds, history
<1>2. CardLimit' /\ NeverMixed'
  BY <1>1 DEF DriverInv, CardLimit, NeverMixed
<1>3. Accounted'
  BY <1>1 DEF DriverInv, Accounted, LockoutBounded, Learns
<1> QED BY <1>1, <1>2, <1>3, Bounds, Assembled DEF Learns

LEMMA FreshTyped ==
    ASSUME t \in Drivers
    PROVE  Fresh(t.keys) \in Drivers
BY DEF Fresh, Drivers

(* An operation as it is begun.                                            *)
LEMMA NewTyped ==
    ASSUME card \in CardTypes, NEW kind \in Kinds, NEW m \in Msgs, NEW p \in Settings, NEW n \in KeyNos,
           NEW want \in WantOf(kind), kind = "sdm" => want = "write", kind = "lock" => want = "lock"
    PROVE  /\ New(kind, want, m, p, n) \in Operations /\ New(kind, want, m, p, n).n = n
           /\ New(kind, want, m, p, n).kind = kind /\ New(kind, want, m, p, n).want = want
           /\ New(kind, want, m, p, n).stage = "keyed"
           /\ TrueOK(New(kind, want, m, p, n), card.file, card.set)
<1> DEFINE was == IF kind \in {"sdm", "lock"} THEN [file |-> card.file, set |-> card.set] ELSE NoWord
           o == New(kind, want, m, p, n)
<1>1. /\ was \in {NoWord} \cup [file : File, set : Settings]
      /\ kind \in {"sdm", "lock"} => was # NoWord /\ was.set = card.set
  BY DEF NoWord, CardTypes
<1>2. <<>> \in Seq(AllSteps) /\ want \in Wants
  BY DEF WantOf
<1>3. o = [kind |-> kind, want |-> want, msg |-> m, plan |-> p, n |-> n, sent |-> FALSE,
           was |-> was, stage |-> "keyed", key |-> NoKey, body |-> <<>>, steps |-> <<>>, again |-> FALSE,
           outer |-> [key |-> NoKey, body |-> <<>>, steps |-> <<>>]]
  BY DEF New
<1> HIDE DEF was, o
<1>4. o \in Operations
  BY <1>1, <1>2, <1>3 DEF Operations, Stages
<1>5. TrueOK(o, card.file, card.set)
  BY <1>1, <1>3 DEF TrueOK
<1> QED BY <1>3, <1>4, <1>5 DEF o

(* What an operation asks for at first.                                    *)
LEMMA FirstWanted ==
    ASSUME NEW kind \in Kinds
    PROVE  /\ FirstWant(kind) \in WantOf(kind)
           /\ kind = "sdm" => FirstWant(kind) = "write"
           /\ kind = "lock" => FirstWant(kind) = "lock"
           /\ (kind \in {"key", "lrp", "sig", "version", "uid", "settings"}) <=> (FirstWant(kind) = "none")
<1>1. CASE kind = "sdm"
  BY <1>1 DEF FirstWant, WantOf, Wants
<1>2. CASE kind \in {"read", "write", "writable", "change", "lock"}
  <2>1. FirstWant(kind) = kind
    BY <1>2 DEF FirstWant
  <2> QED BY <1>2, <2>1 DEF WantOf, Wants
<1>3. CASE kind \in {"key", "lrp", "sig", "version", "uid", "settings"}
  <2>1. FirstWant(kind) = "none"
    BY <1>3 DEF FirstWant
  <2> QED BY <1>3, <2>1 DEF WantOf, Wants
<1> QED BY <1>1, <1>2, <1>3, DriverAssumption

(* An operation begins with the driver as it is, a phone's with its own.   *)
LEMMA BeginStands ==
    ASSUME DriverInv, Begin
    PROVE  Stands /\ t' \in Drivers /\ (~phone => t' = t)
<1>1. card \in CardTypes /\ t \in Drivers /\ t' \in Drivers /\ (~phone => t' = t) /\ card' = card
  <2>1. card \in CardTypes
    BY Bounds, CardAssumption DEF Cards, CardTypes
  <2> QED BY <2>1, Bounds, FreshTyped DEF Begin
<1>2. PICK kind \in Kinds, m \in Msgs \ {Old}, p \in Plans, n \in KeyNos :
         /\ kind = "sig" => t'.session # NoKey \/ AnyHeld # {}
         /\ op' = Opening(New(kind, FirstWant(kind), m, p, n), t'.session)
  BY DEF Begin
<1> DEFINE want == FirstWant(kind)
           o == New(kind, want, m, p, n)
<1>3. /\ want \in WantOf(kind) /\ (kind = "sdm" => want = "write") /\ (kind = "lock" => want = "lock")
      /\ (kind \in {"key", "lrp", "sig", "version", "uid", "settings"}) <=> (want = "none")
  BY FirstWanted
<1> HIDE DEF want
<1>4. o \in Operations /\ o.kind = kind /\ o.n = n /\ o.want = want /\ o.stage = "keyed" /\ TrueOK(o, card.file, card.set)
  BY <1>1, <1>3, DriverAssumption, NewTyped
<1>5. op' = Opening(o, t'.session)
  BY <1>2 DEF want
<1> HIDE DEF o
<1>6. ASSUME NEW w \in BodySteps, w \notin FileSteps, w \in Ends(o.kind, o.want)
      PROVE  BodyOK(<<w>>, o.kind, o.want) /\ <<w>> \in Seq(AllSteps)
  BY <1>6, OneStepBody DEF FileSteps
<1>7. o.want \in WantOf(o.kind) /\ 0 \in KeyNos /\ t'.session \in KeyNos \cup {NoKey}
  BY <1>1, <1>3, <1>4, CardAssumption DEF Drivers
<1>8. Anew(op', o)
  <2>1. CASE kind = "version"
    <3>1. op' = Ask(o, "version", t'.session)
      BY <1>4, <1>5, <2>1 DEF Opening
    <3>2. "version" \in Ends(o.kind, o.want)
      BY <1>3, <1>4, <2>1 DEF Ends, BodySteps
    <3> QED BY <1>4, <1>7, <3>1, <3>2, AskAnew
  <2>2. CASE kind = "key"
    <3>1. PICK old \in BOOLEAN : old = (n = 0)
      OBVIOUS
    <3>2. op' = [Keyed(o, 0, <<"key">>) EXCEPT !.steps = (IF old THEN <<>> ELSE <<"old">>) \o @]
      BY <1>4, <1>5, <2>2, <3>1 DEF Opening
    <3>3. "key" \in Ends(o.kind, o.want) /\ "key" \in BodySteps /\ "key" \notin FileSteps
      BY <1>3, <1>4, <2>2 DEF Ends, BodySteps, FileSteps
    <3>4. BodyOK(<<"key">>, o.kind, o.want) /\ <<"key">> \in Seq(AllSteps)
      BY <1>6, <3>3
    <3> QED BY <1>4, <1>7, <3>2, <3>4, OldAnew
  <2>3. CASE kind = "lrp"
    <3>1. op' = Keyed(o, 0, <<"lrp">>)
      BY <1>4, <1>5, <2>3 DEF Opening
    <3>2. "lrp" \in Ends(o.kind, o.want) /\ "lrp" \in BodySteps /\ "lrp" \notin FileSteps
      BY <1>3, <1>4, <2>3 DEF Ends, BodySteps, FileSteps
    <3>3. BodyOK(<<"lrp">>, o.kind, o.want) /\ <<"lrp">> \in Seq(AllSteps)
      BY <1>6, <3>2
    <3> QED BY <1>4, <1>7, <3>1, <3>3, KeyedAnew
  <2>4. CASE kind = "sig"
    <3>1. PICK k : k = IF t'.session # NoKey THEN t'.session ELSE Least(AnyHeld)
      OBVIOUS
    <3>2. op' = Keyed(o, k, <<"sig">>)
      BY <1>4, <1>5, <2>4, <3>1 DEF Opening
    <3>3. k \in KeyNos
      <4>1. AnyHeld \in SUBSET KeyNos
        BY DEF AnyHeld
      <4>2. AnyHeld # {} => Least(AnyHeld) \in KeyNos
        BY <4>1, LeastHeld
      <4> QED BY <1>2, <1>7, <2>4, <3>1, <4>2
    <3>4. "sig" \in Ends(o.kind, o.want) /\ "sig" \in BodySteps /\ "sig" \notin FileSteps
      BY <1>3, <1>4, <2>4 DEF Ends, BodySteps, FileSteps
    <3>5. BodyOK(<<"sig">>, o.kind, o.want) /\ <<"sig">> \in Seq(AllSteps)
      BY <1>6, <3>4
    <3> QED BY <1>4, <1>7, <3>2, <3>3, <3>5, KeyedAnew
  <2>5. CASE kind = "uid"
    <3>1. op' = [o EXCEPT !.stage = "keyed", !.body = <<"told">>, !.steps = <<"told">>]
      <4>1. op' = [o EXCEPT !.body = <<"told">>, !.steps = <<"told">>]
        BY <1>4, <1>5, <2>5 DEF Opening
      <4> QED BY <1>4, <4>1 DEF Operations
    <3>2. "told" \in Ends(o.kind, o.want)
      BY <1>3, <1>4, <2>5 DEF Ends, BodySteps
    <3> QED BY <1>4, <1>7, <3>1, <3>2, AloneAnew
  <2>6. CASE kind \notin {"version", "key", "lrp", "sig", "uid"}
    <3>1. op' = Ask(o, "settings", t'.session)
      BY <1>4, <1>5, <2>6 DEF Opening
    <3>2. "settings" \in Ends(o.kind, o.want)
      BY <1>3, <1>4, <2>6 DEF Ends, BodySteps
    <3> QED BY <1>4, <1>7, <3>1, <3>2, AskAnew
  <2> QED BY <2>1, <2>2, <2>3, <2>4, <2>5, <2>6
<1>9. Continue(op')
  BY DEF Begin, Continue
<1>10. GoesAnew
  <2>1. PICK q : q = op'
    OBVIOUS
  <2>2. Anew(q, o) /\ Continue(q) /\ TrueOK(o, card'.file, card'.set)
    BY <1>1, <1>4, <1>8, <1>9, <2>1
  <2> QED BY <1>4, <2>2, ContinueGoes
<1> QED BY <1>1, <1>10, AnewStands

LEMMA BeginKeeps ==
    ASSUME DriverInv, Begin
    PROVE  DriverInv'
<1>1. /\ ops < MaxOps /\ ops' = ops + 1
      /\ UNCHANGED <<card, phone, faults, foreign, sets, refused, unheard>>
  BY DEF Begin, history
<1>2. Stands /\ t' \in Drivers /\ (~phone => t' = t)
  BY BeginStands
<1>3. ops' \in 0 .. MaxOps
  BY <1>1, Bounds, DriverAssumption
<1>4. CardLimit' /\ NeverMixed'
  BY <1>1 DEF DriverInv, CardLimit, NeverMixed
<1>5. Accounted'
  BY <1>1, <1>2 DEF DriverInv, Accounted, LockoutBounded
<1> QED BY <1>1, <1>2, <1>3, <1>4, <1>5, Bounds, Assembled

(* Between two operations nothing is under way and nothing is reported.    *)
LEMMA RestStands ==
    ASSUME op = Idle, op' = op, last' = NoWord
    PROVE  Stands
BY IdleGoes, AnewStands DEF ReportIsTrue

(* A memory begun anew has refused nothing.                                *)
LEMMA AnewAccounted ==
    ASSUME DriverInv, sets < MaxSets, sets' = sets + 1, card'.fails = card.fails,
           UNCHANGED <<phone, faults, refused, unheard>>
    PROVE  Accounted' /\ sets' \in 1 .. MaxSets
<1>1. PICK k \in Nat : k = sets /\ refused \subseteq (1 .. k) \X KeyNos /\ k >= 1 /\ k < MaxSets
  BY Bounds, DriverAssumption DEF DriverInv, Accounted
<1>2. refused' \subseteq (1 .. k + 1) \X KeyNos
  BY <1>1
<1>3. \A n \in KeyNos : <<k + 1, n>> \notin refused
  BY <1>1
<1>4. sets' = k + 1 /\ k + 1 \in 1 .. MaxSets
  BY <1>1, DriverAssumption
<1>5. unheard' <= faults' /\ LockoutBounded'
  BY DEF DriverInv, Accounted, LockoutBounded
<1> QED BY <1>2, <1>3, <1>4, <1>5 DEF Accounted

(* New keys, or a new presentation: what was learned is forgotten.         *)
LEMMA SetKeysKeeps ==
    ASSUME DriverInv, SetKeys
    PROVE  DriverInv'
<1>1. /\ op = Idle /\ op' = op /\ last' = NoWord /\ sets < MaxSets /\ sets' = sets + 1
      /\ UNCHANGED <<card, phone, faults, foreign, ops, refused, unheard>>
  BY DEF SetKeys, history
<1>2. t' \in Drivers
  <2>1. PICK ks \in KeySets :
           t' = [t EXCEPT !.keys = ks, !.session = NoKey, !.delayed = FALSE, !.resolved = "no",
                          !.failed = [n \in KeyNos |-> "no"]]
    BY DEF SetKeys
  <2>2. t \in Drivers
    BY Bounds
  <2>3. PICK f : f = [n \in KeyNos |-> "no"]
    OBVIOUS
  <2>5. f \in [KeyNos -> {"no"} \cup Errors]
    BY <2>3
  <2>4. t' = [t EXCEPT !.keys = ks, !.session = NoKey, !.delayed = FALSE, !.resolved = "no",
                       !.failed = f]
    BY <2>1, <2>3
  <2> QED BY <2>2, <2>4, <2>5 DEF Drivers
<1>3. Accounted' /\ sets' \in 1 .. MaxSets
  BY <1>1, AnewAccounted
<1>4. CardLimit' /\ NeverMixed'
  BY <1>1 DEF DriverInv, CardLimit, NeverMixed
<1> QED BY <1>1, <1>2, <1>3, <1>4, Bounds, RestStands, Assembled

(* What others do to the card leaves what it holds and what it counts.     *)
LEMMA LeftAlone ==
    ASSUME DriverInv,
           card' \in {NewPresentation(card), IsoSelect(card, "app").card, IsoSelect(card, "cc").card,
                      DropSession(card)}
                     \cup {[card EXCEPT !.sess = n, !.ours = FALSE, !.pend = NoKey] : n \in KeyNos}
    PROVE  /\ card' \in Cards /\ card'.fails = card.fails /\ card'.random = card.random
           /\ card'.file = card.file /\ card'.set = card.set
           /\ CardLimit' /\ NeverMixed'
<1>1. /\ card' \in Cards /\ card'.fails = card.fails /\ card'.random = card.random
      /\ card'.file = card.file /\ card'.set = card.set /\ card'.pend = NoKey
  <2>1. card \in Cards
    BY Bounds
  <2>2. CASE card' = NewPresentation(card)
    BY <2>1, <2>2 DEF NewPresentation, ClearSelection, DropSession, Cards
  <2>3. CASE card' = DropSession(card)
    BY <2>1, <2>3 DEF DropSession, Cards
  <2>4. CASE card' \in {[card EXCEPT !.sess = n, !.ours = FALSE, !.pend = NoKey] : n \in KeyNos}
    <3>1. PICK n \in KeyNos : card' = [card EXCEPT !.sess = n, !.ours = FALSE, !.pend = NoKey]
      BY <2>4
    <3> QED BY <2>1, <3>1 DEF Cards
  <2>5. CASE card' \in {IsoSelect(card, "app").card, IsoSelect(card, "cc").card}
    <3> DEFINE d == ClearSelection(card)
    <3>1. /\ d \in Cards /\ d.fails = card.fails /\ d.random = card.random
          /\ d.file = card.file /\ d.set = card.set /\ d.pend = NoKey
      BY <2>1 DEF ClearSelection, DropSession, Cards
    <3>2. card' \in {d, [d EXCEPT !.app = TRUE], [d EXCEPT !.sel = "cc"]}
      BY <2>5 DEF IsoSelect, Answer
    <3> HIDE DEF d
    <3> QED BY <3>1, <3>2 DEF Cards
  <2> QED BY <2>2, <2>3, <2>4, <2>5
<1> QED BY <1>1 DEF DriverInv, CardLimit, NeverMixed

LEMMA PresentKeeps ==
    ASSUME DriverInv, Present
    PROVE  DriverInv'
<1>1. /\ op = Idle /\ op' = op /\ last' = NoWord /\ sets < MaxSets /\ sets' = sets + 1
      /\ card' = NewPresentation(card)
      /\ UNCHANGED <<phone, faults, foreign, ops, refused, unheard>>
  BY DEF Present, history
<1>2. t' \in Drivers
  BY Bounds, FreshTyped DEF Present
<1>3. card' \in Cards /\ card'.fails = card.fails /\ CardLimit' /\ NeverMixed'
  BY <1>1, LeftAlone
<1>4. Accounted' /\ sets' \in 1 .. MaxSets
  BY <1>1, <1>3, AnewAccounted
<1> QED BY <1>1, <1>2, <1>3, <1>4, Bounds, RestStands, Assembled

(* Raw exchanges of other clients come between operations on a reader, and *)
(* on a phone between the exchanges of one.                                *)
LEMMA ForeignKeeps ==
    ASSUME DriverInv, Foreign
    PROVE  DriverInv'
<1>1. /\ foreign < MaxForeign /\ foreign' = foreign + 1 /\ (op = Idle \/ phone) /\ op' = op
      /\ last' = NoWord
      /\ UNCHANGED <<phone, faults, sets, ops, refused, unheard>>
  BY DEF Foreign, history
<1>2. /\ t' \in Drivers /\ t'.failed = t.failed
      /\ phone => t' = t
  BY Bounds DEF Foreign, Drivers
<1>3. /\ card' \in Cards /\ card'.fails = card.fails /\ card'.random = card.random
      /\ card'.file = card.file /\ card'.set = card.set /\ CardLimit' /\ NeverMixed'
  BY LeftAlone DEF Foreign
<1>4. foreign' \in 0 .. MaxForeign
  BY <1>1, Bounds, DriverAssumption
<1>5. Accounted'
  BY <1>1, <1>2, <1>3 DEF DriverInv, Accounted, LockoutBounded
<1>6. Stands
  <2>1. CASE op = Idle
    BY <1>1, <2>1, RestStands
  <2>2. CASE op # Idle
    <3>1. phone' /\ t' = t /\ op' = op /\ OpInv(op, card.file, card.set) /\ AuthOK
      BY <1>1, <1>2, <2>2 DEF DriverInv
    <3>2. Goes
      BY <1>1, <1>3, <3>1 DEF Goes, ReportIsTrue
    <3>3. AuthOK'
      BY <1>3, <3>1 DEF AuthOK, NeedsReal, Derived
    <3>4. PendOK'
      BY <3>1 DEF PendOK
    <3> QED BY <3>2, <3>3, <3>4 DEF Stands
  <2> QED BY <2>1, <2>2
<1> QED BY <1>1, <1>2, <1>3, <1>4, <1>5, <1>6, Bounds, Assembled

(* Every step keeps the invariant, and it holds at first.                  *)
LEMMA DriverStep ==
    ASSUME DriverInv, [Next]_vars
    PROVE  DriverInv'
<1>1. CASE UNCHANGED vars
  <2>1. UNCHANGED <<card, t, op, last, phone, faults, foreign, sets, ops, refused, unheard>>
    BY <1>1 DEF vars
  <2>2. TypeOK' /\ CardLimit' /\ NeverMixed'
    BY <2>1 DEF DriverInv, TypeOK, CardLimit, NeverMixed
  <2>5. ReportIsTrue'
    <3>1. last' = last /\ card' = card /\ ReportIsTrue
      BY <2>1 DEF DriverInv
    <3> QED BY <3>1 DEF ReportIsTrue, Whole
  <2>3. Accounted'
    BY <2>1 DEF DriverInv, Accounted, LockoutBounded
  <2>4. AuthOK' /\ PendOK'
    BY <2>1 DEF DriverInv, AuthOK, PendOK, NeedsReal, Derived
  <2> QED BY <2>1, <2>2, <2>3, <2>4, <2>5 DEF DriverInv
<1>2. CASE Next
  BY <1>2, BeginKeeps, LocalKeeps, ExchangeKeeps, SetKeysKeeps, PresentKeeps, ForeignKeeps
     DEF Next
<1> QED BY <1>1, <1>2

LEMMA DriverStart ==
    ASSUME Init
    PROVE  DriverInv
<1>1. /\ op = Idle /\ last = NoWord /\ faults = 0 /\ foreign = 0 /\ sets = 1 /\ ops = 0
      /\ refused = {} /\ unheard = 0 /\ phone \in BOOLEAN
  BY DEF Init
<1>2. /\ card \in Cards /\ card.fails = 0 /\ card.pend = NoKey
      /\ card.file.c1 = card.file.c2
  BY DriverAssumption DEF Init, NewCard
<1>3. t \in Drivers
  BY DEF Init, Fresh, Drivers
<1>4. Cardinality(refused) = 0
  BY <1>1, FS_EmptySet
<1>5. TypeOK
  BY <1>1, <1>2, <1>3, DriverAssumption DEF TypeOK, Drivers
<1>6. CardLimit /\ NeverMixed /\ ReportIsTrue
  BY <1>1, <1>2 DEF CardLimit, NeverMixed, ReportIsTrue
<1>7. Accounted
  BY <1>1, <1>2, <1>4 DEF Accounted, LockoutBounded
<1>8. AuthOK /\ PendOK
  BY <1>1 DEF AuthOK, PendOK
<1> QED BY <1>1, <1>5, <1>6, <1>7, <1>8 DEF DriverInv

-----------------------------------------------------------------------------
(* What the driver guarantees.                                             *)

LEMMA DriverHolds == Spec => []DriverInv
BY DriverStart, DriverStep, PTL DEF Spec

(* The driver, the card and the operation stay what they are, the counts    *)
(* within their bounds: a refusal is of a key the card has, in a memory     *)
(* there was, and the card's own count stays within its limit (authRefused, *)
(* SetNTAG424Keys).                                                         *)
THEOREM TypeCorrect == Spec => []TypeOK
<1>1. DriverInv => TypeOK
  BY DEF DriverInv
<1> QED BY <1>1, DriverHolds, PTL

(* Wherever a write is cut short, begun again in a new session or left to   *)
(* the Type 4 path, the file is a whole message or reads as empty: WriteData *)
(* clears the length before the first chunk and sets it after the last.     *)
THEOREM MessageNeverMixed == Spec => []NeverMixed
<1>1. DriverInv => NeverMixed
  BY DEF DriverInv
<1> QED BY <1>1, DriverHolds, PTL

(* A write, change, lock, key or LRP switch that answers success had its    *)
(* effect, and a ConfigureSDM that failed names what the card holds (Report, *)
(* SDMState), through every retry, lost answer, removal and raw exchange.   *)
THEOREM ReportsAreTrue == Spec => []ReportIsTrue
<1>1. DriverInv => ReportIsTrue
  BY DEF DriverInv
<1> QED BY <1>1, DriverHolds, PTL

(* On a reader every failed authentication the card counts is a key heard   *)
(* to be refused once since the keys were set and the card was put down, or *)
(* a refusal lost on the way: authenticate sends nothing for a key in       *)
(* failedAuth, and keyFor derives from the real UID only.                   *)
THEOREM LockoutIsBounded == Spec => []LockoutBounded
<1>1. DriverInv => LockoutBounded
  BY DEF DriverInv, Accounted
<1> QED BY <1>1, DriverHolds, PTL

=============================================================================
