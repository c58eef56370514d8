------------------------------ MODULE MCLease ------------------------------
(* Two sessions; two calls compete in the first, one runs in the second.   *)
EXTENDS Lease, TLC

CONSTANTS s1, s2, o1, o2, o3

MCSessionOf == [o \in Ops |-> IF o = o3 THEN s2 ELSE s1]
=============================================================================
