--------------------------- MODULE RequestRecords ---------------------------
(***************************************************************************)
(* What the data normalizer keeps of procurement requests: the chain       *)
(*                                                                         *)
(*   procurement_requests <- parsed_intents <- beckn_intents               *)
(*     <- discovery_queries <- seller_offerings <- scored_offers           *)
(*     <- negotiation_outcomes <- approval_decisions <- purchase_orders    *)
(*                                                                         *)
(* A request and a query are known by their place in a sequence (the       *)
(* generated primary key).  A parsed intent, a beckn intent, a score and   *)
(* the rows of an order are 1:1 with their parent (UNIQUE foreign keys) and *)
(* are known by it.                                                        *)
(***************************************************************************)
EXTENDS Integers, Sequences

None == 0

EmptyDb == [requests |-> <<>>, parsed |-> {}, beckn |-> {}, queries |-> <<>>,
            scores |-> {}, orders |-> <<>>]

(* POST /normalize/request: one row, in status draft. *)
CreateRequest(db, by) ==
    [db EXCEPT !.requests = Append(@, [by |-> by, status |-> "draft"])]

(* PATCH /normalize/status: whatever the row's status was. *)
UpdateStatus(db, request, status) ==
    [db EXCEPT !.requests[request].status = status]

(* POST /normalize/intent: two inserts on two connections, so the first    *)
(* may stay behind alone; a second parsed intent of a request is refused.  *)
IntentAllowed(db, request) == request \notin db.parsed
CreateParsedIntent(db, request) == [db EXCEPT !.parsed = @ \cup {request}]
CreateIntent(db, request) ==
    [CreateParsedIntent(db, request) EXCEPT !.beckn = @ \cup {request}]

(* POST /normalize/discovery: query and offerings in one transaction, of   *)
(* which there may be any number for an intent.                            *)
CreateDiscovery(db, intent) == [db EXCEPT !.queries = Append(@, intent)]

(* POST /normalize/scoring: one insert, committed by itself, per offering; *)
(* the first offering that is scored already ends it.                      *)
Scored(query, items) == {[query |-> query, item |-> i] : i \in items}
ScoresAllowed(db, query, items) == Scored(query, items) \cap db.scores = {}
CreateScores(db, query, items) == [db EXCEPT !.scores = @ \cup Scored(query, items)]

(* POST /normalize/order: outcome, decision and order in one transaction.  *)
(* A score has one outcome and a confirm reference one order.              *)
OrderAllowedAgain(db, score, ref) == TRUE  \* without the unique keys
OrderAllowed(db, score, ref) ==
    \A k \in DOMAIN db.orders : db.orders[k].score # score /\ db.orders[k].ref # ref
CreateOrder(db, score, ref) ==
    [db EXCEPT !.orders = Append(@, [score |-> score, ref |-> ref])]

(* The request an order was recorded under, up the chain. *)
RequestOf(db, order) == db.queries[order.score.query]
=============================================================================
