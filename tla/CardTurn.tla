------------------------------ MODULE CardTurn ------------------------------
(* What a reader promises whoever works on its card: turns.  One at a time *)
(* has the turn, and nobody can take it away.  A client that has it may    *)
(* begin one piece of work with it, unless the reader is shut; what opens  *)
(* a session is a work, and a session has the turn once.                   *)
CONSTANTS
    Clients,    \* ask for a turn, and begin something with it
    Pollers,    \* take one for themselves
    Works,      \* have one until they are done, whoever waits for them
    Openings,   \* works that may end in a session
    Sessions    \* have one until somebody ends them

VARIABLES
    turn,       \* the set of those that have the turn
    open,       \* something may be begun
    spent       \* the sessions that are over

turnVars == <<turn, open, spent>>

Init == turn = {} /\ open = TRUE /\ spent = {}

Take(u) ==
    /\ turn = {} /\ u \in Clients \cup Pollers
    /\ turn' = {u}
    /\ UNCHANGED <<open, spent>>

Begin(u, w) ==
    /\ open
    /\ turn = {u} /\ u \in Clients
    /\ w \in Works \cup Openings
    /\ turn' = {w}
    /\ UNCHANGED <<open, spent>>

Open(u, s) ==
    /\ turn = {u} /\ u \in Openings
    /\ s \in Sessions \ spent
    /\ turn' = {s}
    /\ UNCHANGED <<open, spent>>

Yield(u) ==
    /\ turn = {u}
    /\ turn' = {}
    /\ spent' = spent \cup ({u} \cap Sessions)
    /\ UNCHANGED open

Shut ==
    /\ open' = FALSE
    /\ UNCHANGED <<turn, spent>>

Users == Clients \cup Pollers \cup Works \cup Openings \cup Sessions

Next ==
    \/ \E u \in Users : Take(u) \/ Yield(u)
    \/ \E u, w \in Users : Begin(u, w) \/ Open(u, w)
    \/ Shut

Spec == Init /\ [][Next]_turnVars

=============================================================================
