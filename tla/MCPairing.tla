----------------------------- MODULE MCPairing -----------------------------
(***************************************************************************)
(* The two places that decide who is let in and what they are then told:   *)
(* pairing, the allowlist of origins and, apart from them, the control     *)
(* center's live page.  A behaviour is one part's, and the others rest;    *)
(* a start reads both files in either of the first two.                    *)
(***************************************************************************)
EXTENDS Pairing, Console, TLC

VARIABLE part

CONSTANTS d1, d2, c1, h1, h2, o1, o2, l1, l2

MCDevices == {d1, d2}
MCConns == {c1}
MCHandlers == {h1, h2}
MCOrigins == {o1, o2}
MCShipped == {o1}
MCLoggers == {l1, l2}

Symmetry == Permutations(MCDevices) \cup Permutations(MCHandlers)

PartsInit ==
    /\ part \in {"pairing", "origins", "page"}
    /\ Init /\ ConsoleInit

PairingPart ==
    /\ part = "pairing" /\ Next
    /\ UNCHANGED <<part, orgVars, consoleVars>>
OriginsPart ==
    /\ part = "origins" /\ Next
    /\ UNCHANGED <<part, devVars, gateVars, handler, sessVars, consoleVars>>
PagePart ==
    /\ part = "page" /\ ConsoleNext
    /\ UNCHANGED <<part, vars>>

PartsNext == PairingPart \/ OriginsPart \/ PagePart

PartsSpec == PartsInit /\ [][PartsNext]_<<part, vars, consoleVars>>

=============================================================================
