------------------------------- MODULE MCQuota -------------------------------
(* Instances of Quota for TLC: one user with overlapping requests beside   *)
(* one whose requests never overlap.                                       *)
EXTENDS Quota, TLC

CONSTANTS u1, u2, r1, r2, r3

Owners == (r1 :> u1) @@ (r2 :> u1) @@ (r3 :> u2)
=============================================================================
