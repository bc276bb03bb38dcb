----------------------------- MODULE MCFirstAgent -----------------------------
(* A model-checking instance of FirstAgent. *)
EXTENDS FirstAgent, TLC

CONSTANTS t1, cheap, dear, u1, r1, r2, r3

OneTxn == {t1}
TwoItems == {cheap, dear}
Prices == (cheap :> 2) @@ (dear :> 3)
Pair == [t \in OneTxn |-> 2]
OneUser == {u1}
FreeAndFive == {0, 5}
ThreeRequests == {r1, r2, r3}

Symmetric == Permutations(ThreeRequests)
=============================================================================
