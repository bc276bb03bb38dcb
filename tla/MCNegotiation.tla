----------------------------- MODULE MCNegotiation -----------------------------
(* Model-checking instances of Negotiation. *)
EXTENDS Negotiation

Fair == [price |-> 100, history |-> "accepts", fits |-> TRUE]
Late == [price |-> 80, history |-> "rejects", fits |-> FALSE]
SomeRankings == {<<Fair>>, <<Fair, Late>>, <<Late, Fair>>}

Tight == [category_max |-> 12, supplier_max |-> 8, budget |-> 70]
Loose == [category_max |-> 20, supplier_max |-> 20, budget |-> 0]
Demo == [category_max |-> 20, supplier_max |-> 20, budget |-> 70]
SomePolicies == {Tight, Loose, Demo}
SomeCategories == {"specialized", "medical"}

From(status, price, wide) == [status |-> status, action |-> "none", price |-> price, wide |-> wide]
Says(action) == [status |-> "none", action |-> action, price |-> 0, wide |-> FALSE]
SomeMessages ==
  {From("accepted", 0, FALSE), From("counter", 90, FALSE), From("counter", 90, TRUE),
   From("rejected", 0, FALSE), From("timeout", 0, FALSE),
   Says("accept"), Says("reject"), Says("override")}

SomePrices == {90, 100}
=============================================================================
