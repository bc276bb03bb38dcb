---------------------------- MODULE MCErpOutbox ----------------------------
(* Model-checking instances of ErpOutbox. *)
EXTENDS ErpOutbox, TLC

CONSTANTS k1, k2, p1, p2

OneKey      == {k1}
TwoKeys     == {k1, k2}
TwoReplicas == {p1, p2}

(* Keys and replicas are interchangeable. *)
Symmetric == Permutations(TwoKeys) \cup Permutations(TwoReplicas)
=============================================================================
