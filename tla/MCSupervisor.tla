---------------------------- MODULE MCSupervisor ----------------------------
(* The supervisor and the readers it runs, and one PC/SC reader following  *)
(* the cards put on it, each on a small instance.  A behaviour is one      *)
(* part's, and the other rests.  Readers the run can make are used up; a   *)
(* reconcile that has none left fails to open.                             *)
EXTENDS Supervisor, CardPresence, TLC

VARIABLE part

(* What is put on the reader: a card that answers the native version, one  *)
(* that answers both (and cannot be read), one whose ATR says ISO 14443-4  *)
(* and the wrapped version more, and one no driver is for.                 *)
Version(p, s, iso4, m) == [product |-> p, storage |-> s, iso4 |-> iso4, major |-> m]
Answering(family, named) ==
    [family |-> family, named |-> named, iso |-> FALSE, iso4 |-> FALSE,
     native |-> NoVersion, wrapped |-> NoVersion, auth |-> FALSE, readable |-> TRUE]
TheTappable ==
    <<[Answering("page", "Unknown") EXCEPT !.native = Version("ntag", 504, FALSE, 1)],
      [Answering("ntag424", "Unknown") EXCEPT !.iso4 = TRUE, !.native = Version("ntag", 504, TRUE, 48),
          !.wrapped = Version("ntag", 504, TRUE, 48), !.readable = FALSE],
      [Answering("desfire", "ISO14443_4") EXCEPT !.iso4 = TRUE, !.iso = TRUE,
          !.wrapped = Version("desfire", 24, TRUE, 18)],
      Answering("other", "Unknown")>>

PartsInit ==
    /\ part \in {"supervisor", "presence"} /\ Init /\ PresenceInit
    /\ mode = CHOOSE m \in Modes : TRUE
    /\ part = "presence" => offered = {}

SupervisorPart == part = "supervisor" /\ Next /\ UNCHANGED <<part, presenceVars>>
PresencePart   == part = "presence" /\ PresenceNext /\ UNCHANGED <<part, vars>>

PartsNext == SupervisorPart \/ PresencePart

\* At rest, neither part has a step its fairness asks for.
PartsSpec ==
    /\ PartsInit
    /\ [][PartsNext]_<<part, vars, presenceVars>>
    /\ Supervised /\ Followed

=============================================================================
