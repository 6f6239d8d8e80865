-------------------------------- MODULE Sun --------------------------------
(* Secure Unique NFC messages of an NTAG 424 DNA: a URL template is planned *)
(* into a message and file settings (ntag424/plan.go), the settings travel  *)
(* to the card by position (filesettings.go, files.go), the card mirrors    *)
(* its UID, counter, file data and MAC into every read (the emulator's      *)
(* view), and a server takes the URL apart, verifies it and refuses one it  *)
(* has seen (url.go, sdm.go, replay.go).                                    *)
(*                                                                          *)
(* A character is <<"t", token, 0>>, a placeholder <<"{", name, 0>>, and    *)
(* the i-th hex digit of a mirrored value <<kind, value, i>>.  A scheme, a  *)
(* parameter's name and any other word is one token; the widths that        *)
(* offsets are made of are the true ones.  A value that is encrypted or a   *)
(* MAC is the record of what went into it.                                  *)
EXTENDS Integers, Sequences, FiniteSets, SequencesExt

CONSTANTS Configurations,  \* the URL templates and options programs plan
          LRPCard,         \* the card is in LRP mode
          UID,             \* its serial number
          MaxCounter,      \* the last value of its read counter
          MaxPlans,        \* bound: times it is configured
          Refused          \* no plan, no settings, no tap

ASSUME SunAssumption == LRPCard \in BOOLEAN /\ {MaxCounter, MaxPlans} \subseteq Nat

(* A template is words and known placeholders (expandTemplate refuses any   *)
(* other), and a length is not negative.                                    *)
Placeholders == {"picc", "uid", "ctr", "enc", "mac"}
Words == UNION {{c.tmpl[i][2] : i \in DOMAIN c.tmpl} : c \in Configurations}

ASSUME TemplateAssumption ==
    \A c \in Configurations :
        /\ c.tmpl \in Seq(({"t"} \X Words \X {0}) \cup ({"{"} \X Placeholders \X {0}))
        /\ c.opts.encLength \in Nat

VARIABLES plan,      \* the plan whose message the card's NDEF file holds
          settings,  \* the plan whose settings the file has; Refused while SDM is off
          counter,   \* the SDM read counter
          counted,   \* this selection of the file has had its read
          current,   \* the counter it was given
          stage,     \* "blank", "written": its message is there, "done": its settings
                     \* are too, "mixed": they never came
          urls,      \* the reads phones have made: their counters, and what a server
                     \* that has the plan's keys makes of each URL
          pending,   \* verified taps two server calls are about to record
          last,      \* the highest counter the store has seen, -1 for none
          accepted,  \* the counters taken as fresh since the store was made
          plans      \* plans put on the card

cardVars   == <<plan, settings, counter, counted, current, stage, plans>>
serverVars == <<pending, last, accepted>>
sunVars    == <<cardVars, urls, serverVars>>

NDEFFileSize == 256
AccessFree   == 14
AccessNever  == 15

T(token) == <<"t", token, 0>>
Zeros(n) == [i \in 1 .. n |-> T("0")]

-----------------------------------------------------------------------------
(* Planning.                                                                *)

piccWidth(lrp) == IF lrp THEN 48 ELSE 32

EncLength(opts) == IF opts.encLength = 0 THEN 32 ELSE opts.encLength

Width(name, opts) ==
    CASE name = "picc" -> piccWidth(opts.lrp) [] name = "uid" -> 14 [] name = "ctr" -> 6
      [] name = "enc" -> EncLength(opts) [] name = "mac" -> 16

(* The template with every placeholder as wide as its mirror, and where each *)
(* one starts, from 0.  A placeholder that occurs twice is refused.          *)
expandTemplate(tmpl, opts) ==
    LET parts  == [i \in DOMAIN tmpl |->
                      IF tmpl[i][1] = "{" THEN Zeros(Width(tmpl[i][2], opts)) ELSE <<tmpl[i]>>]
        holes  == {i \in DOMAIN tmpl : tmpl[i][1] = "{"}
        before(i) == Len(FlattenSeq(SubSeq(parts, 1, i - 1)))
    IN  IF \E i, j \in holes : i # j /\ tmpl[i] = tmpl[j] THEN Refused
        ELSE [text |-> FlattenSeq(parts),
              pos  |-> [name \in {tmpl[i][2] : i \in holes} |->
                           before(CHOOSE i \in holes : tmpl[i][2] = name)]]

schemes == {<<T("https"), T("www")>>, <<T("http"), T("www")>>, <<T("https")>>, <<T("http")>>}

(* The longest scheme the text begins with; the record holds a code for it.  *)
SchemeLen(text) ==
    LET fits == {p \in schemes : IsPrefix(p, text)}
    IN  IF fits = {} THEN 0 ELSE Len(CHOOSE p \in fits : \A q \in fits : Len(q) <= Len(p))

NoSettings == [meta |-> AccessFree, fileRead |-> AccessNever, ctrRet |-> AccessNever,
    change |-> 0, mirrorUID |-> FALSE, mirrorCtr |-> FALSE, encrypt |-> FALSE, ascii |-> FALSE,
    uidAt |-> 0, ctrAt |-> 0, piccAt |-> 0, macInAt |-> 0, encAt |-> 0, encLen |-> 0, macAt |-> 0]

(* What the template and its options ask for that no tag can do.             *)
BadPlan(pos, opts) ==
    LET has(name) == name \in DOMAIN pos
    IN  \/ ~has("mac")
        \/ has("picc") /\ (has("uid") \/ has("ctr"))
        \/ has("uid") # has("ctr")
        \/ ~has("picc") /\ ~has("uid")
        \/ opts.fileRead > 4
        \/ has("picc") /\ opts.metaRead > 4
        \/ has("enc") /\ (opts.lrp \/ EncLength(opts) % 32 # 0)

(* The mirrors must come in the order in which the MAC covers them.          *)
BadOrder(pos, opts) ==
    LET ends(name) == pos[name] + Width(name, opts)
        firstMirrorEnd == IF "picc" \in DOMAIN pos THEN ends("picc")
                          ELSE IF ends("uid") < ends("ctr") THEN ends("ctr") ELSE ends("uid")
    IN  IF "enc" \in DOMAIN pos THEN pos["enc"] < firstMirrorEnd \/ pos["mac"] < ends("enc")
        ELSE pos["mac"] < firstMirrorEnd

(* The message and the settings that make a card mirror into it.  Offsets    *)
(* count the NLEN and the record's header, and not the scheme.               *)
PlanSDM(c) ==
    LET tmpl  == c.tmpl
        opts  == c.opts
        laid  == expandTemplate(tmpl, opts)
        pos   == laid.pos
        skip  == SchemeLen(laid.text)
        ndef  == [i \in 1 .. 7 |-> T("header")] \o SubSeq(laid.text, skip + 1, Len(laid.text))
        offsetOf(name) == 7 - skip + pos[name]
        picc  == "picc" \in DOMAIN pos
        enc   == "enc" \in DOMAIN pos
    IN  IF laid = Refused THEN Refused
        ELSE IF BadPlan(pos, opts) \/ Len(ndef) > NDEFFileSize THEN Refused
        ELSE IF BadOrder(pos, opts) THEN Refused
        ELSE [ndef |-> ndef, scheme |-> SubSeq(laid.text, 1, skip), lrp |-> opts.lrp,
              settings |-> [NoSettings EXCEPT
                !.meta = IF picc THEN opts.metaRead ELSE AccessFree,
                !.fileRead = opts.fileRead, !.change = opts.change,
                !.mirrorUID = TRUE, !.mirrorCtr = TRUE, !.ascii = TRUE,
                !.piccAt = IF picc THEN offsetOf("picc") ELSE 0,
                !.uidAt  = IF picc THEN 0 ELSE offsetOf("uid"),
                !.ctrAt  = IF picc THEN 0 ELSE offsetOf("ctr"),
                !.encrypt = enc,
                !.encAt  = IF enc THEN offsetOf("enc") ELSE 0,
                !.encLen = IF enc THEN EncLength(opts) ELSE 0,
                !.macInAt = IF enc THEN offsetOf("enc") ELSE offsetOf("mac"),
                !.macAt  = offsetOf("mac")]]

-----------------------------------------------------------------------------
(* Settings on the wire: the flags and rights, then the offsets, each there  *)
(* only when a flag or a right says so, so that the same bytes mean          *)
(* different things under different flags.                                   *)

Present(flag, value) == IF flag THEN <<value>> ELSE << >>

Encode(s) ==
    [flags |-> [f \in {"meta", "fileRead", "ctrRet", "change", "mirrorUID", "mirrorCtr",
                       "encrypt", "ascii"} |-> s[f]],
     offsets |-> Present(s.mirrorUID /\ s.meta = AccessFree, s.uidAt)
              \o Present(s.mirrorCtr /\ s.meta = AccessFree, s.ctrAt)
              \o Present(s.meta <= 4, s.piccAt)
              \o Present(s.fileRead # AccessNever, s.macInAt)
              \o Present(s.encrypt, s.encAt) \o Present(s.encrypt, s.encLen)
              \o Present(s.fileRead # AccessNever, s.macAt)]

(* The card reads them back in the same order, and wants them all.           *)
ParseEncodedFileSettings(b) ==
    LET f == b.flags
        fields == Present(f.mirrorUID /\ f.meta = AccessFree, "uidAt")
               \o Present(f.mirrorCtr /\ f.meta = AccessFree, "ctrAt")
               \o Present(f.meta <= 4, "piccAt")
               \o Present(f.fileRead # AccessNever, "macInAt")
               \o Present(f.encrypt, "encAt") \o Present(f.encrypt, "encLen")
               \o Present(f.fileRead # AccessNever, "macAt")
        value(k) == b.offsets[CHOOSE i \in DOMAIN fields : fields[i] = k]
    IN  IF Len(fields) # Len(b.offsets) THEN Refused
        ELSE [k \in DOMAIN NoSettings |->
                IF k \in DOMAIN f THEN f[k]
                ELSE IF \E i \in DOMAIN fields : fields[i] = k THEN value(k) ELSE NoSettings[k]]

(* The card's own rules: every mirror inside the file.                       *)
checkSettings(s) ==
    LET fits(start, width) == start + width <= NDEFFileSize
    IN  /\ s.ascii
        /\ s.mirrorUID /\ s.meta = AccessFree => fits(s.uidAt, 14)
        /\ s.mirrorCtr /\ s.meta = AccessFree => fits(s.ctrAt, 6)
        /\ s.meta <= 4 => fits(s.piccAt, piccWidth(LRPCard))
        /\ s.fileRead <= 4 => s.macInAt <= s.macAt /\ fits(s.macAt, 16)
        /\ s.encrypt => /\ ~LRPCard /\ s.fileRead <= 4
                        /\ s.encLen > 0 /\ s.encLen % 32 = 0 /\ fits(s.encAt, s.encLen)

-----------------------------------------------------------------------------
(* What a read of the card gives.                                            *)

Digits(kind, value, width) == [i \in 1 .. width |-> <<kind, value, i>>]

(* text written over a file from a byte on.                                  *)
Put(out, start, text) ==
    [i \in DOMAIN out |-> IF i \in start + 1 .. start + Len(text) THEN text[i - start] ELSE out[i]]

(* The mirrors filled in for a read with this counter: UID and counter, in   *)
(* the clear or encrypted, then the file data, then the MAC over what the    *)
(* text then is.  What lies past the message is not read: it is zeros here.  *)
View(p, s, ctr) ==
    LET file == p.ndef \o Zeros(NDEFFileSize - Len(p.ndef))
        picc == IF s.meta <= 4
                THEN Put(file, s.piccAt, Digits("picc",
                        [key |-> s.meta, uid |-> UID, ctr |-> ctr, lrp |-> LRPCard], piccWidth(LRPCard)))
                ELSE Put(Put(file, s.uidAt, Digits("uid", UID, 14)), s.ctrAt, Digits("ctr", ctr, 6))
        enc  == IF ~s.encrypt THEN picc
                ELSE Put(picc, s.encAt, Digits("enc",
                        [key |-> s.fileRead, ctr |-> ctr,
                         plain |-> SubSeq(picc, s.encAt + 1, s.encAt + (s.encLen \div 2))], s.encLen))
        mac  == [key |-> s.fileRead, uid |-> UID, ctr |-> ctr, lrp |-> LRPCard,
                 input |-> SubSeq(enc, s.macInAt + 1, s.macAt)]
    IN  Put(enc, s.macAt, Digits("mac", mac, 16))

(* The URL a phone reads: what the record holds, after its scheme.           *)
URLOf(p, s, ctr) == p.scheme \o SubSeq(View(p, s, ctr), 8, Len(p.ndef))

-----------------------------------------------------------------------------
(* Taking a URL apart.                                                       *)

IndexFrom(text, token) ==
    LET hits == {i \in DOMAIN text : text[i] = T(token)}
    IN  IF hits = {} THEN Len(text) + 1 ELSE CHOOSE i \in hits : \A j \in hits : i <= j

RawQuery(url) == SubSeq(url, IndexFrom(url, "?") + 1, Len(url))

(* Where the values of a parameter start: after its name and "=" at the      *)
(* start of the query or after a "&".                                        *)
ValueStarts(raw, name) ==
    {i + 2 : i \in {j \in 1 .. Len(raw) - 1 :
                      /\ raw[j] = T(name) /\ raw[j + 1] = T("=")
                      /\ j > 1 => raw[j - 1] = T("&")}}

(* The first value of the first of these parameters that the query has, or   *)
(* 0.                                                                        *)
valueOffset(raw, names) ==
    LET there == {k \in DOMAIN names : ValueStarts(raw, names[k]) # {}}
        k     == CHOOSE j \in there : \A l \in there : j <= l
        starts == ValueStarts(raw, names[k])
    IN  IF there = {} THEN 0 ELSE CHOOSE i \in starts : \A j \in starts : i <= j

ValueAt(raw, start) ==
    LET rest == SubSeq(raw, start, Len(raw))
    IN  SubSeq(rest, 1, IndexFrom(rest, "&") - 1)

(* The value of the first of these parameters that is not empty: what was    *)
(* mirrored there, "none" when there is no such parameter, Refused when it   *)
(* is not the digits of such a value.                                        *)
hexParam(raw, names, kind, widths) ==
    LET value(k) == IF valueOffset(raw, <<names[k]>>) = 0 THEN << >>
                    ELSE ValueAt(raw, valueOffset(raw, <<names[k]>>))
        there == {k \in DOMAIN names : value(k) # << >>}
        text  == value(CHOOSE j \in there : \A l \in there : j <= l)
    IN  CASE there = {} -> <<"none">>
          [] there # {} /\ Len(text) \in widths /\ text[1][1] = kind
               /\ (\A i \in DOMAIN text : text[i] = <<kind, text[1][2], i>>) -> <<"value", text[1][2]>>
          [] OTHER -> <<"bad">>

defaultNames == [picc |-> <<"picc_data", "e", "picc">>, enc |-> <<"enc", "d", "encdata">>,
    mac |-> <<"cmac", "c", "mac">>, uid |-> <<"uid">>, ctr |-> <<"ctr", "cnt", "counter">>]

(* The text the MAC covers; nothing is covered without file data.            *)
macInput(raw, names, enc) ==
    IF enc = <<"none">> THEN << >>
    ELSE SubSeq(raw, valueOffset(raw, names.enc), valueOffset(raw, names.mac) - 1)

(* What the URL says of the tap when its MAC is the one these keys give for  *)
(* it, and Refused otherwise.                                                *)
VerifyURLWith(url, keys, names) ==
    LET raw  == RawQuery(url)
        mac  == hexParam(raw, names.mac, "mac", {16})
        picc == hexParam(raw, names.picc, "picc", {piccWidth(keys.lrp)})
        uid  == hexParam(raw, names.uid, "uid", {14})
        ctr  == hexParam(raw, names.ctr, "ctr", {6})
        enc  == hexParam(raw, names.enc, "enc", {32 * n : n \in 1 .. 7})
        said == CASE picc[1] = "bad" -> Refused
                  [] picc[1] = "value" ->
                       IF picc[2].key = keys.metaRead THEN [uid |-> picc[2].uid, ctr |-> picc[2].ctr]
                       ELSE Refused
                  [] uid[1] = "value" /\ ctr[1] = "value" -> [uid |-> uid[2], ctr |-> ctr[2]]
                  [] OTHER -> Refused
    IN  IF mac[1] # "value" \/ said = Refused \/ enc[1] = "bad" THEN Refused
        ELSE IF mac[2] = [key |-> keys.fileRead, uid |-> said.uid, ctr |-> said.ctr,
                          lrp |-> keys.lrp, input |-> macInput(raw, names, enc)]
             THEN said ELSE Refused

KeysOf(p) == [metaRead |-> p.settings.meta, fileRead |-> p.settings.fileRead, lrp |-> LRPCard]

(* The name in front of a mirror in the planned message, read back to the    *)
(* separator before it; "" when the mirror does not start a value.           *)
paramNameBefore(ndef, start) ==
    IF ndef[start] # T("=") THEN ""
    ELSE IF ndef[start - 1][1] = "t" THEN ndef[start - 1][2] ELSE ""

(* Mutant: only the common names are looked for. *)
CommonNames(ndef, start, names) == names

Named(ndef, start, names) ==
    IF paramNameBefore(ndef, start) = "" THEN names ELSE <<paramNameBefore(ndef, start)>> \o names

(* The common names, after the ones the plan itself uses.                    *)
planNames(p) ==
    LET s == p.settings
    IN  [picc |-> IF s.meta <= 4 THEN Named(p.ndef, s.piccAt, defaultNames.picc) ELSE defaultNames.picc,
         uid  |-> IF s.meta <= 4 THEN defaultNames.uid ELSE Named(p.ndef, s.uidAt, defaultNames.uid),
         ctr  |-> IF s.meta <= 4 THEN defaultNames.ctr ELSE Named(p.ndef, s.ctrAt, defaultNames.ctr),
         enc  |-> IF s.encrypt THEN Named(p.ndef, s.encAt, defaultNames.enc) ELSE defaultNames.enc,
         mac  |-> Named(p.ndef, s.macAt, defaultNames.mac)]

-----------------------------------------------------------------------------
(* What the plans come to: the settings that arrive on the card, and the tap *)
(* a server makes of a read of one plan's message under another's settings.  *)
Plans == [c \in Configurations |-> PlanSDM(c)]

Possible == {c \in Configurations : Plans[c] # Refused}

SettingsOf == [c \in Possible |-> ParseEncodedFileSettings(Encode(Plans[c].settings))]

TapOf == [c \in Possible |-> [d \in {e \in Possible : SettingsOf[e] # Refused} |-> [ctr \in 0 .. MaxCounter |->
             VerifyURLWith(URLOf(Plans[c], SettingsOf[d], ctr), KeysOf(Plans[c]), planNames(Plans[c]))]]]

-----------------------------------------------------------------------------
(* The card.                                                                 *)

(* ConfigureSDM writes the message first; the settings on the card, and the  *)
(* offsets in them, are still the earlier ones.                              *)
WriteNDEF(c) ==
    /\ stage # "written" /\ plans < MaxPlans
    /\ c \in Possible
    /\ plan' = c
    /\ stage' = "written" /\ plans' = plans + 1
    /\ UNCHANGED <<settings, counter, counted, current, urls, serverVars>>

(* Then the settings, which the card may refuse: the file's change right may *)
(* be nobody's.                                                              *)
ChangeFileSettings ==
    /\ stage = "written"
    /\ settings # Refused => SettingsOf[settings].change # AccessNever
    /\ SettingsOf[plan] # Refused
    /\ checkSettings(SettingsOf[plan])
    /\ settings' = plan /\ stage' = "done"
    /\ UNCHANGED <<plan, counter, counted, current, plans, urls, serverVars>>

(* A failure between the two leaves the card so.                             *)
LeaveOff ==
    /\ stage = "written" /\ stage' = "mixed"
    /\ UNCHANGED <<settings, counter, counted, current, plan, plans, urls, serverVars>>

(* The file is selected again: the next read is counted.                     *)
Select ==
    /\ counted /\ counted' = FALSE
    /\ UNCHANGED <<settings, counter, current, plan, stage, plans, urls, serverVars>>

(* A phone reads the URL.  The first read of a selection takes a counter,    *)
(* and the counter stays at its last value.                                  *)
Read ==
    LET ctr == IF counted THEN current ELSE counter
    IN  /\ plan # Refused /\ settings # Refused
        /\ current' = ctr /\ counted' = TRUE
        /\ counter' = IF ~counted /\ counter < MaxCounter THEN counter + 1 ELSE counter
        /\ urls' = urls \cup {[ctr |-> ctr, tap |-> TapOf[plan][settings][ctr]]}
        /\ UNCHANGED <<plan, settings, stage, plans, serverVars>>

-----------------------------------------------------------------------------
(* The server.                                                               *)

(* A call verifies a URL; a URL may come late, and more than once.           *)
VerifyURLFresh(c, url) ==
    /\ pending[c] = Refused /\ url.tap # Refused
    /\ pending' = [pending EXCEPT ![c] = url.tap]
    /\ UNCHANGED <<cardVars, urls, last, accepted>>

(* Mutant: the same counter again is fresh. *)
SeenAgain(c) ==
    /\ pending[c] # Refused
    /\ pending' = [pending EXCEPT ![c] = Refused]
    /\ IF pending[c].ctr < last THEN UNCHANGED <<last, accepted>>
       ELSE last' = pending[c].ctr /\ accepted' = Append(accepted, pending[c].ctr)
    /\ UNCHANGED <<cardVars, urls>>

(* The store takes a counter higher than any before, and only then is the    *)
(* tap accepted.                                                             *)
Seen(c) ==
    /\ pending[c] # Refused
    /\ pending' = [pending EXCEPT ![c] = Refused]
    /\ IF pending[c].ctr <= last THEN UNCHANGED <<last, accepted>>
       ELSE last' = pending[c].ctr /\ accepted' = Append(accepted, pending[c].ctr)
    /\ UNCHANGED <<cardVars, urls>>

(* A store held in memory is lost when the server restarts.                  *)
Restart ==
    /\ last # -1 /\ last' = -1 /\ accepted' = << >>
    /\ pending' = [c \in DOMAIN pending |-> Refused]
    /\ UNCHANGED <<cardVars, urls>>

SunInit ==
    /\ settings = Refused
    /\ counter = 0 /\ counted = FALSE /\ current = 0
    /\ plan = Refused /\ stage = "blank" /\ plans = 0
    /\ urls = {} /\ pending = [c \in 1 .. 2 |-> Refused] /\ last = -1 /\ accepted = << >>

SunNext ==
    \/ \E c \in Configurations : WriteNDEF(c)
    \/ ChangeFileSettings \/ LeaveOff \/ Select \/ Read
    \/ \E c \in 1 .. 2 : (\E url \in urls : VerifyURLFresh(c, url)) \/ Seen(c)
    \/ Restart

SunSpec == SunInit /\ [][SunNext]_sunVars

-----------------------------------------------------------------------------

(* The plan was made for this card's mode, its mirrors are values of their   *)
(* own in the query, and no other parameter has a name a verifier looks for. *)
Plain(c, p) ==
    LET t == c.tmpl
        names == UNION {Range(defaultNames[k]) : k \in DOMAIN defaultNames}
        query == {i \in DOMAIN t : \E j \in 1 .. i - 1 : t[j] = T("?")}
    IN  /\ p.lrp = LRPCard
        /\ \A i \in DOMAIN t : t[i][1] = "{" =>
              /\ i \in query /\ t[i - 1] = T("=") /\ (i < Len(t) => t[i + 1] = T("&"))
              /\ \A j \in query \ {i - 2} : t[j] # t[i - 2]
        /\ \A i \in query : t[i][1] = "t" /\ t[i][2] \in names =>
              i + 2 <= Len(t) /\ t[i + 2][1] = "{"

(* A URL read under its plan's settings verifies under the keys of its plan, as *)
(* the card's own UID and the counter of that read: the offsets planned, the *)
(* order they are sent in, the widths mirrored and the text the MAC covers   *)
(* all agree.  plan.go, filesettings.go, files.go, url.go, tag_ntag424_ops.go *)
PlannedTapVerifies ==
    [][\A url \in urls' \ urls :
          settings = plan /\ Plain(plan, Plans[plan]) =>
             url.tap = [uid |-> UID, ctr |-> url.ctr]]_sunVars

(* Two calls, in whatever order their URLs come and however often, never     *)
(* take the same read of the card for a fresh one, nor an older one after a  *)
(* newer one, for as long as the store lives; and only a counter the card    *)
(* has given is taken.  replay.go, VerifyURLFresh, Seen.                     *)
FreshOnce ==
    /\ \A i, j \in DOMAIN accepted : i < j => accepted[i] < accepted[j]
    /\ \A i \in DOMAIN accepted : \E url \in urls : url.ctr = accepted[i]
=============================================================================
