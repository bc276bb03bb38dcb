----------------------------- MODULE MCPipeline -----------------------------
(* Model-checking instances of Pipeline: three items, of two makers, the    *)
(* second within reach of the first by memory and the third not; histories  *)
(* with more orders of one maker than count.                               *)
EXTENDS Pipeline, TLC

CONSTANTS c1, c2

TheItems == {"cheap", "near", "dear"}
TheRanking == <<"cheap", "near", "dear">>
TheScore == "cheap" :> 100 @@ "near" :> 92 @@ "dear" :> 86
TheMaker == "cheap" :> "A" @@ "near" :> "B" @@ "dear" :> "C"

TheKeywords == "cheap" :> {"paper", "a4"} @@ "near" :> {"paper", "a4", "recycled"} @@ "dear" :> {"paper"}
SomeQueries == {{"paper", "mumbai"}, {"mumbai"}}

Orders(maker, n, worth) == [k \in 1 .. n |-> [provider |-> maker, worth |-> worth]]
SomeHistories == {<<>>, Orders("B", 3, 3), Orders("C", 8, 3) \o Orders("B", 2, 3),
                  Orders("C", 8, 3) \o Orders("B", 3, 3)}

TwoClients == {c1, c2}
AnyAndCompare == c1 :> Kinds @@ c2 :> {"compare"}
OneIsHit == c1 :> 3 @@ c2 :> 0
=============================================================================
