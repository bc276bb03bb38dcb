-------------------------------- MODULE Catalog --------------------------------
(***************************************************************************)
(* The result aggregator of the discovery engine                           *)
(* (services/discovery_engine/src/aggregator.py): offerings that several   *)
(* networks return are merged into one catalog.  A pure function.          *)
(*                                                                         *)
(* An item is known by what merging looks at: its signature (tax id, name  *)
(* and currency, normalised), where its seller is, and its price.  Great-  *)
(* circle distance is abstracted to places and the pairs of them that are  *)
(* within geo_proximity_km.                                                *)
(***************************************************************************)
EXTENDS Naturals, Sequences, FiniteSets

CONSTANTS
  Networks,  \* configured gateways
  Items,     \* items that sellers list: records [id, sig, taxed, place, price]
  Near,      \* pairs of places within geo_proximity_km of each other
  NoPlace    \* GPS missing or malformed

ASSUME ItemsAssumption == \A item \in Items : item.price \in Nat
ASSUME NearAssumption == \A p \in Near : <<p[2], p[1]>> \in Near /\ NoPlace \notin {p[1], p[2]}

(* A listing is an item as one network returned it. *)
Listing == [item : Items, network : Networks]

SameBucket(l, m) == l.item.sig = m.item.sig /\ l.item.taxed = m.item.taxed

Close(l, m) == <<l.item.place, m.item.place>> \in Near

(* A listing joins the cluster of one of its bucket: any, if the bucket    *)
(* has a tax id, or one that is close.                                     *)
Joins(l, m) == SameBucket(l, m) /\ (l.item.taxed \/ Close(l, m))

(* Without a tax id listings are clustered in the order they came in: one  *)
(* that no earlier anchor has taken is an anchor itself, and takes what is *)
(* close to it.  Being close is not transitive, taking is not either.      *)
Anchor(ls) ==
  LET anchor[i \in 1..Len(ls)] ==
        \A j \in 1..(i - 1) : anchor[j] => ~Joins(ls[i], ls[j])
  IN  anchor

(* The anchor that took listing i: itself, or the first one that matches.  *)
TakenBy(ls, i) ==
  LET matches == {j \in 1..(i - 1) : Anchor(ls)[j] /\ Joins(ls[i], ls[j])}
  IN  IF Anchor(ls)[i] THEN i ELSE CHOOSE j \in matches : \A k \in matches : j <= k

Cluster(ls, a) == {i \in 1..Len(ls) : TakenBy(ls, i) = a}

(* _merge_score: the cheapest stands for its cluster (quantity and         *)
(* delivery only break ties).                                              *)
Canonical(ls, is) == CHOOSE i \in is : \A j \in is : ls[i].item.price <= ls[j].item.price

(* One entry per cluster, with the networks it was found on and, when      *)
(* there is more than one member, the keys of all of them.                 *)
Merge(ls) ==
  {LET is == Cluster(ls, a)
   IN  [item    |-> ls[Canonical(ls, is)].item,
        sources |-> {ls[i].network : i \in is},
        keys    |-> IF Cardinality(is) > 1 THEN {ls[i].item.id : i \in is} ELSE {}] :
     a \in {i \in 1..Len(ls) : Anchor(ls)[i]}}

(* An entry under which a listing is found. *)
StandsFor(e, l) ==
  /\ l.network \in e.sources
  /\ l.item.id \in e.keys \cup {e.item.id}
  /\ e.item.sig = l.item.sig
  /\ e.item.price <= l.item.price
=============================================================================
