------------------------------ MODULE MCParts ------------------------------
(***************************************************************************)
(* The parts that meet the rest of the system only through calls and       *)
(* messages, each on a small instance of its own: the NDEF codec, secure   *)
(* messages (SUN), the two JavaScript libraries and the sequences a phone  *)
(* is sent.  A behaviour is one part's, and the others rest.               *)
(***************************************************************************)
EXTENDS Ndef, Sun, ClientSession, DeviceClient, RemoteTagSession

VARIABLE part

(* What clients ask to have written, and the bytes a tag comes with.       *)
Letters(n) == [i \in 1 .. n |-> 97]
Q(type, content) == [type |-> type, content |-> content, language |-> << >>, title |-> << >>,
    payload |-> << >>, typeBytes |-> <<97, 47, 98>>, tnf |-> 5, id |-> << >>]
Text(c) == Q("text", c)
MCRequests == {
  <<[Text(<<97>>) EXCEPT !.language = <<100, 101>>]>>,
  <<Q("uri", <<201, 202, 97>>), Q("tel", <<98>>)>>,
  <<[Text(<< >>) EXCEPT !.language = <<100, 101>>], Q("uri", <<203, 204, 98>>)>>,
  <<[Q("smartposter", <<201, 97>>) EXCEPT !.title = <<98>>]>>,
  <<[Q("raw", << >>) EXCEPT !.tnf = 1, !.typeBytes = <<84>>, !.payload = <<130, 101, 110, 97, 0, 32, 0>>],
    Text(<<98>>)>>,
  <<[Q("raw", << >>) EXCEPT !.id = <<99>>, !.payload = <<97>>], Q("empty", << >>)>>,
  <<[Q("mime", << >>) EXCEPT !.payload = <<254, 3, 0>>], [Q("external", <<97>>) EXCEPT !.payload = <<1>>]>>,
  <<Text(Letters(248))>>, <<Text(Letters(253))>>,
  <<Text(<<97>>), Q("uri", << >>)>> }

(* The URL templates programs plan, with placeholders in the query and     *)
(* before it, and the access rights and lengths they plan them with.       *)
S(s) == [i \in DOMAIN s |-> T(s[i])]
H(n) == << <<"{", n, 0>> >>
Opts(m, f, e, ch, l) == [metaRead |-> m, fileRead |-> f, encLength |-> e, change |-> ch, lrp |-> l]
C(tmpl, opts) == [tmpl |-> tmpl, opts |-> opts]
EncTmpl == S(<<"http", "site", "?", "x", "=", "1", "&", "p", "=">>) \o H("picc") \o S(<<"&", "q", "=">>)
    \o H("enc") \o S(<<"&", "m", "=">>) \o H("mac") \o S(<<"&", "y", "=", "2">>)
PiccTmpl == S(<<"https", "www", "site", "?", "picc_data", "=">>) \o H("picc") \o S(<<"&", "cmac", "=">>)
    \o H("mac")
MCConfigurations == {
  C(PiccTmpl, Opts(0, 0, 0, 0, FALSE)), C(PiccTmpl, Opts(0, 0, 0, 0, TRUE)),
  C(EncTmpl, Opts(1, 2, 64, 15, FALSE)), C(EncTmpl, Opts(1, 2, 48, 0, FALSE)),
  C(EncTmpl, Opts(1, 2, 192, 0, FALSE)),
  C(S(<<"site", "?", "ctr", "=">>) \o H("ctr") \o S(<<"&", "c", "=">>) \o H("uid") \o S(<<"&", "m", "=">>)
    \o H("mac"), Opts(14, 1, 0, 0, FALSE)),
  C(S(<<"https", "site", "?", "uid", "=">>) \o H("uid") \o S(<<"&", "mac", "=">>) \o H("mac")
    \o S(<<"&", "cnt", "=">>) \o H("ctr"), Opts(0, 1, 0, 0, FALSE)),
  C(S(<<"https", "site", "/">>) \o H("picc") \o S(<<"?", "c", "=">>) \o H("mac"), Opts(0, 1, 0, 0, FALSE)) }

Parts == {"ndef", "sun", "session", "phone", "sequences"}

partVars == <<ndefVars, sunVars, sessionVars, deviceVars, vars>>

(* A part at rest has one of its initial states.                           *)
PartsInit ==
    /\ part \in Parts
    /\ NdefInit /\ SunInit /\ SessionInit /\ DeviceInit /\ Init
    /\ part # "ndef" => mem = Padded(<<0, 0, 0, 0>>)
    /\ part # "sequences" =>
           /\ latest = CHOOSE i \in Ids : TRUE
           /\ device = CHOOSE f \in [Ids -> Devs] : \A i, j \in Ids : f[i] = f[j] => i = j

NdefPart ==
    /\ part = "ndef" /\ NdefNext
    /\ UNCHANGED <<part, sunVars, sessionVars, deviceVars, vars>>
SunPart ==
    /\ part = "sun" /\ SunNext
    /\ UNCHANGED <<part, ndefVars, sessionVars, deviceVars, vars>>
SessionPart ==
    /\ part = "session" /\ SessionNext
    /\ UNCHANGED <<part, ndefVars, sunVars, deviceVars, vars>>
PhonePart ==
    /\ part = "phone" /\ DeviceNext
    /\ UNCHANGED <<part, ndefVars, sunVars, sessionVars, vars>>
SequencePart ==
    /\ part = "sequences" /\ Next
    /\ UNCHANGED <<part, ndefVars, sunVars, sessionVars, deviceVars>>

PartsNext ==
    \/ NdefPart \/ SunPart \/ SessionPart \/ PhonePart \/ SequencePart

(* The sequences' fairness (RemoteTagSession, FairSpec); no other part     *)
(* states any.                                                             *)
PartsSpec ==
    /\ PartsInit
    /\ [][PartsNext]_<<part, partVars>>
    /\ \A s \in Sequences : WF_vars(part = "sequences" /\ Run(s))

=============================================================================
