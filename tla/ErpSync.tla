------------------------------- MODULE ErpSync -------------------------------
(***************************************************************************)
(* What the ERP adapter promises its caller, and nothing of how: an order  *)
(* asked for is queued, then either committed, and the vendor has it, or   *)
(* declared dead; a committed order stays committed; a dead one is queued  *)
(* again only on request.  The vendor may hold an order that the adapter   *)
(* does not know about yet, or never will (a dead row whose last answer    *)
(* was lost), never the reverse.                                           *)
(*                                                                         *)
(* The promise ends where a push is late: it outlives the time its worker  *)
(* has the order for, and then writes its outcome whatever has become of   *)
(* the order meanwhile.  A push is late from a moment at which its order   *)
(* is queued, and until it has written.                                    *)
(***************************************************************************)
CONSTANT Keys

VARIABLES
  sync,     \* sync[k]: "absent", "queued", "committed" or "dead"
  orders,   \* keys the vendor has an order for
  late      \* keys of which a push is late

vars == <<sync, orders, late>>

Init ==
  /\ sync = [k \in Keys |-> "absent"]
  /\ orders = {}
  /\ late = {}

LatePushesMayEnd == late' \in SUBSET late

(* queued by a request, or again by a replay *)
Enqueue(k) ==
  /\ sync[k] \in {"absent", "dead"}
  /\ sync' = [sync EXCEPT ![k] = "queued"]
  /\ LatePushesMayEnd
  /\ UNCHANGED orders

VendorCreates(k) ==
  /\ sync[k] # "absent"
  /\ orders' = orders \cup {k}
  /\ LatePushesMayEnd
  /\ UNCHANGED sync

Commit(k) ==
  /\ sync[k] = "queued" /\ k \in orders
  /\ sync' = [sync EXCEPT ![k] = "committed"]
  /\ LatePushesMayEnd
  /\ UNCHANGED orders

GiveUp(k) ==
  /\ sync[k] = "queued"
  /\ sync' = [sync EXCEPT ![k] = "dead"]
  /\ LatePushesMayEnd
  /\ UNCHANGED orders

Outlives(k) ==
  /\ sync[k] = "queued"
  /\ late' \in SUBSET (late \cup {k})
  /\ UNCHANGED <<sync, orders>>

(* ... and overwrites what the order has come to. *)
WritesLate(k) ==
  /\ k \in late /\ sync[k] # "absent"
  /\ \E s \in {"queued", "committed", "dead"} :
       /\ s = "committed" => k \in orders
       /\ sync' = [sync EXCEPT ![k] = s]
  /\ LatePushesMayEnd
  /\ UNCHANGED orders

Next ==
  \/ \E k \in Keys :
       Enqueue(k) \/ VendorCreates(k) \/ Commit(k) \/ GiveUp(k) \/ Outlives(k) \/ WritesLate(k)
  \/ LatePushesMayEnd /\ UNCHANGED <<sync, orders>>

Spec == Init /\ [][Next]_vars
=============================================================================
