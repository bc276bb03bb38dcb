------------------------- MODULE MCMultiNetworkSearch -------------------------
(* Model-checking instances of MultiNetworkSearch. *)
EXTENDS MultiNetworkSearch

CONSTANTS a, b, s1, s2, s3

TwoNetworks == {a, b}
ThreeSearches == {s1, s2, s3}

(* Three shops of one item along a street, the middle one near the others, *)
(* and a taxed item with two prices.                                       *)
Shop(id, place, price) == [id |-> id, sig |-> "cable", taxed |-> FALSE, place |-> place, price |-> price]
Taxed(id, price) == [id |-> id, sig |-> "paper", taxed |-> TRUE, place |-> 0, price |-> price]

West == Shop("west", 1, 20)
Middle == Shop("middle", 2, 30)
East == Shop("east", 3, 10)
Nowhere == Shop("nowhere", 0, 5)
Dear == Taxed("dear", 9)
Cheap == Taxed("cheap", 7)

AllItems == {West, Middle, East, Nowhere, Dear, Cheap}
NearPlaces == {<<1, 1>>, <<2, 2>>, <<3, 3>>, <<1, 2>>, <<2, 1>>, <<2, 3>>, <<3, 2>>}
AnswersOf == [n \in TwoNetworks |->
  IF n = a THEN {<<West, East, Dear>>} ELSE {<<Middle, Nowhere, Cheap>>, <<>>}]
=============================================================================
