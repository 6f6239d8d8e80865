------------------------------ MODULE MCAgent ------------------------------
(***************************************************************************)
(* The agent's lifecycle and, apart from it, the several managers that its *)
(* watcher of devices and its supervisor see as one.  A behaviour is one   *)
(* part's, and the other rests.                                            *)
(***************************************************************************)
EXTENDS Agent, MultiManager

VARIABLE part

(* Two managers, each calling its device the same.                         *)
MCOrder == <<"hardware", "smartphone">>
MCPathOf == [c \in {"hardware", "smartphone"} |-> <<"a">>]

ASSUME PathsAreTold == ListedIsOpened

PartsInit ==
    /\ part \in {"agent", "managers"}
    /\ Init /\ MMInit

AgentPart ==
    /\ part = "agent" /\ Next
    /\ UNCHANGED <<part, mmVars>>
ManagersPart ==
    /\ part = "managers" /\ MMNext
    /\ UNCHANGED <<part, vars>>

PartsNext == AgentPart \/ ManagersPart

(* The agent's fairness (Agent, FairSpec), and that of the goroutines that *)
(* relay to a caller of DeviceChanges.                                     *)
PartsSpec ==
    /\ PartsInit
    /\ [][PartsNext]_<<part, vars, mmVars>>
    /\ \A c \in Callers : WF_vars(part = "agent" /\ CallerStep(c))
    /\ \A w \in Watchers : WF_vars(part = "agent" /\ WatcherStep(w))
    /\ \A r \in Reissuers : WF_vars(part = "agent" /\ ReissuerStep(r))
    /\ WF_vars(part = "agent" /\ LoadCertificate)
    /\ \A w \in Callees : WF_mmVars(part = "managers" /\ Relay(w))

=============================================================================
