--------------------------- MODULE MCJobLifecycle ---------------------------
(* Instances of JobLifecycle for TLC.                                      *)
EXTENDS JobLifecycle, TLC

CONSTANTS j1, j2, d1, w1, w2, c1, k1, k2, k3

OneDataset == (j1 :> d1) @@ (j2 :> d1)

AllSingle      == (j1 :> "single") @@ (j2 :> "single")
SingleAndMulti == (j1 :> "single") @@ (j2 :> "multi")
MultiAndDbt    == (j1 :> "multi") @@ (j2 :> "dbt")

(* Which faults may happen, and how often; the others never do.            *)
Faults(f) == [x \in FaultKinds |-> IF x \in DOMAIN f THEN f[x] ELSE 0]

SafetyBudget == Faults([enqueue |-> 1, error |-> 2, soft |-> 1, die |-> 1,
                        crash |-> 1, delete |-> 1, cleaner |-> 1])

LivenessBudget == Faults([soft |-> 1, crash |-> 1, cleaner |-> 1])

NoFaults == Faults([error |-> 0])

SafetySymmetry == Permutations({w1, w2}) \cup Permutations({k1, k2, k3}) \cup Permutations({j1, j2})
=============================================================================
