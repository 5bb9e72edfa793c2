----------------------------- MODULE MCUserAccess -----------------------------
(* One user and the administrator, with two requests let in at a time: a   *)
(* request of either is handled after the other one has ended its session, *)
(* disabled its user or revoked its key.                                   *)
EXTENDS UserAccess, TLC

CONSTANTS u1, a1, r1, r2, k1

MCUsers == {u1}
MCRequests == {r1, r2}
MCSymmetry == Permutations(MCRequests)
MCNames == {k1}
==============================================================================
