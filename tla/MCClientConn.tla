---------------------------- MODULE MCClientConn ----------------------------
(* ClientConn on a small instance: the requests that differ in how they    *)
(* are gated, routed and served.                                           *)
EXTENDS ClientConn, TLC

CONSTANTS r1, t1

Request(kind, uid, device, guess) ==
    [kind |-> kind, uid |-> uid, device |-> device, guess |-> guess]

MCRequests ==
    {Request("write", t1, None, FALSE), Request("transceive", t1, r1, FALSE),
     Request("begin", None, None, TRUE), Request("end", None, None, FALSE)}

Symmetry == Permutations(Conns)

=============================================================================
