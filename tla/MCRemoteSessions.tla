-------------------------- MODULE MCRemoteSessions --------------------------
(* RemoteSessions on a small instance.                                     *)
EXTENDS RemoteSessions, TLC

Symmetry == Permutations(Conns) \cup Permutations(Ids) \cup Permutations(Requests) \cup Permutations(Tags)

=============================================================================
