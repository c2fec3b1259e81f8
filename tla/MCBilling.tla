------------------------------ MODULE MCBilling ------------------------------
(* Instances of Billing for TLC: one user who may buy two subscriptions.   *)
EXTENDS Billing, TLC

CONSTANTS u1, s1, s2, c1, c2, h1, h2

OneBuyer == (s1 :> u1) @@ (s2 :> u1)

BillingSymmetry == Permutations({s1, s2}) \cup Permutations({c1, c2}) \cup Permutations({h1, h2})
=============================================================================
