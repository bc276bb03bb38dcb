------------------------------ MODULE FirstAgent ------------------------------
(***************************************************************************)
(* The first agent (Bap-1/src): the monolith with its session store, its   *)
(* approval queue and the graph select -> init -> confirm (server.py,      *)
(* agent/session.py, agent/graph.py, agent/nodes.py).                      *)
(*                                                                         *)
(* Requests are coroutines of one process: a step ends at an await.  The   *)
(* state that a request takes from the store is the stored dict itself;    *)
(* the graph works on a copy, and its result is stored as a new dict.      *)
(***************************************************************************)
EXTENDS Naturals, FiniteSets

CONSTANTS
  Txns,         \* transactions that /compare opens
  Items,        \* what sellers offer
  Price,        \* Price[i], of one unit
  Quantity,     \* Quantity[t], the intent's
  Users,        \* who commits; an admin may not and is left out
  Thresholds,   \* values of approval_threshold an admin may set
  NoLimit,      \* 999_999_999, the threshold when its lookup fails
  DbAvailable,  \* whether DataNormalizer could be imported
  Requests,     \* requests to /commit and /approvals/{id}/decide
  MaxRestarts,  \* bound on restarts
  None

ASSUME PricesAssumption == Price \in [Items -> Nat] /\ Quantity \in [Txns -> Nat \ {0}]
ASSUME ThresholdsAssumption == Thresholds \subseteq Nat /\ NoLimit \in Nat
ASSUME DbAssumption == DbAvailable \in BOOLEAN
ASSUME RestartsAssumption == MaxRestarts \in Nat
ASSUME RequestsAssumption == Requests \cap {"none", "mock", None} = {}

VARIABLES
  session,    \* session[t]: the stored dict of t
  pending,    \* approvals, each named by the request that filed it
  threshold,  \* users.approval_threshold
  request,    \* request[r]: its stage and locals
  orders,     \* requests whose confirm the seller took
  offers,     \* offers[t]: what /compare found for t; empty before it
  restarts,
  stood,      \* history: approvals rejected while no other decision was on
  doubted,    \* history: transactions with a request that ended in an error alone
  crossed     \* history: transactions where an on_confirm met another request

history == <<stood, doubted, crossed>>
vars == <<session, pending, threshold, request, orders, offers, restarts, history>>

Session ==
  [dict     : Requests \cup {None},             \* who stored it; None: /compare
   known    : BOOLEAN,
   selected : Items \cup {None},
   order    : Requests \cup {"none", "mock"},   \* the seller's, or an invented one
   error    : BOOLEAN]

NoSession == [dict |-> None, known |-> FALSE, selected |-> None, order |-> "none", error |-> FALSE]

Request ==
  [stage    : {"idle", "authorising", "deciding", "selecting", "initing", "confirming", "done"},
   kind     : {"none", "commit", "approved", "rejected"},
   txn      : Txns \cup {None},
   item     : Items \cup {None},
   user     : Users \cup {None},
   approval : Requests \cup {None},
   dict     : Requests \cup {None},  \* the dict it took from the store
   error    : BOOLEAN,               \* the error in that dict
   late     : BOOLEAN,               \* history: taken once txn was doubted
   granted  : Nat \cup {None},       \* history: the threshold that held for its user
   unread   : BOOLEAN,               \* history: the lookup of that threshold failed
   sent     : BOOLEAN,               \* its confirm left
   reply    : {"none", "live", "mock", "pending_approval", "cancelled", "invented"}]

NoRequest ==
  [stage |-> "idle", kind |-> "none", txn |-> None, item |-> None, user |-> None,
   approval |-> None, dict |-> None, error |-> FALSE, late |-> FALSE, granted |-> None,
   unread |-> FALSE, sent |-> FALSE, reply |-> "none"]

TypeOK ==
  /\ session \in [Txns -> Session]
  /\ pending \subseteq Requests
  /\ threshold \in [Users -> Nat]
  /\ request \in [Requests -> Request]
  /\ orders \subseteq Requests
  /\ offers \in [Txns -> SUBSET Items]
  /\ restarts \in 0..MaxRestarts
  /\ stood \subseteq Requests
  /\ doubted \subseteq Txns
  /\ crossed \subseteq Txns

(* A user's row is made with the threshold 0 (user_repo.resolve_user). *)
Init ==
  /\ session = [t \in Txns |-> NoSession]
  /\ pending = {}
  /\ threshold = [u \in Users |-> 0]
  /\ request = [r \in Requests |-> NoRequest]
  /\ orders = {}
  /\ offers = [t \in Txns |-> {}]
  /\ restarts = 0
  /\ stood = {}
  /\ doubted = {}
  /\ crossed = {}

-----------------------------------------------------------------------------
(* compare: discover and rank; when nothing is found, or the graph raises, *)
(* the local catalogue under a transaction of its own.                     *)

Cheapest(found) == CHOOSE i \in found : \A j \in found : Price[i] <= Price[j]

Compare(t, found) ==
  /\ offers[t] = {}
  /\ offers' = [offers EXCEPT ![t] = found]
  /\ session' = [session EXCEPT ![t] =
                   [NoSession EXCEPT !.known = TRUE, !.selected = Cheapest(found)]]
  /\ UNCHANGED <<pending, threshold, request, orders, restarts, history>>

-----------------------------------------------------------------------------
(* commit and decide_approval, up to the graph. *)

Working == {"selecting", "initing", "confirming"}

HoldsState(r, t) ==
  request[r].txn = t /\ (request[r].stage = "authorising" \/ request[r].stage \in Working)

Commit(r, t, i, u) ==
  /\ request[r].stage = "idle"
  /\ session[t].known
  /\ i \in offers[t]
  /\ request' = [request EXCEPT ![r] =
       [NoRequest EXCEPT !.stage = "authorising", !.kind = "commit", !.txn = t, !.item = i,
                         !.user = u, !.dict = session[t].dict, !.error = session[t].error,
                         !.late = t \in doubted]]
  /\ UNCHANGED <<session, pending, threshold, orders, offers, restarts, history>>

(* state["selected"] = chosen is seen by all who hold the dict, the store  *)
(* among them if no newer one has been put.                                *)
Picks(t, i, dict) ==
  session' = IF session[t].known /\ session[t].dict = dict
             THEN [session EXCEPT ![t].selected = i] ELSE session

OverByUnitPrice(t, i, limit) == Price[i] > limit

Over(t, i, limit) == Price[i] * Quantity[t] > limit

Granted(u) == IF DbAvailable THEN threshold[u] ELSE 0

(* The threshold the check goes by: a failed lookup gives the high one.    *)
Limit(u, unread) == IF unread THEN NoLimit ELSE Granted(u)

Authorised(r) ==
  /\ request[r].stage = "authorising"
  /\ \E unread \in BOOLEAN :
       LET q    == request[r]
           read == [q EXCEPT !.granted = Granted(q.user), !.unread = unread]
       IN
       /\ unread => DbAvailable
       /\ IF Over(q.txn, q.item, Limit(q.user, unread))
          THEN /\ pending' = pending \cup {r}
               /\ request' = [request EXCEPT ![r] =
                    [read EXCEPT !.stage = "done", !.reply = "pending_approval"]]
               /\ UNCHANGED session
          ELSE /\ Picks(q.txn, q.item, q.dict)
               /\ request' = [request EXCEPT ![r] = [read EXCEPT !.stage = "selecting"]]
               /\ UNCHANGED pending
  /\ UNCHANGED <<threshold, orders, offers, restarts, history>>

(* decide_approval looks the item up, then awaits its body. *)
Decide(r, a, decision) ==
  /\ request[r].stage = "idle"
  /\ a \in pending
  /\ request' = [request EXCEPT ![r] =
       [NoRequest EXCEPT !.stage = "deciding", !.kind = decision, !.approval = a,
                         !.txn = request[a].txn, !.item = request[a].item]]
  /\ UNCHANGED <<session, pending, threshold, orders, offers, restarts, history>>

RejectedStays(a) == pending

Popped(a) == pending \ {a}

DecidesAlone(r, a) ==
  \A q \in Requests \ {r} :
    request[q].approval = a => request[q].stage \in {"idle", "done"}

Rejected(r) ==
  /\ request[r].stage = "deciding"
  /\ request[r].kind = "rejected"
  /\ LET a == request[r].approval
     IN  /\ pending' = Popped(a)
         /\ stood' = IF a \in pending /\ DecidesAlone(r, a) THEN stood \cup {a} ELSE stood
  /\ request' = [request EXCEPT ![r] = [@ EXCEPT !.stage = "done", !.reply = "cancelled"]]
  /\ UNCHANGED <<session, threshold, orders, offers, restarts, doubted, crossed>>

(* An approval resumes the commit; without a session it invents an order.  *)
(* The offers of a transaction never change, so the item is there.    *)
Approved(r) ==
  /\ request[r].stage = "deciding"
  /\ request[r].kind = "approved"
  /\ LET t == request[r].txn IN
     IF session[t].known
     THEN /\ Picks(t, request[r].item, session[t].dict)
          /\ request' = [request EXCEPT ![r] =
               [@ EXCEPT !.stage = "selecting", !.dict = session[t].dict,
                         !.error = session[t].error, !.late = t \in doubted]]
          /\ UNCHANGED pending
     ELSE /\ pending' = Popped(request[r].approval)
          /\ request' = [request EXCEPT ![r] = [@ EXCEPT !.stage = "done", !.reply = "invented"]]
          /\ UNCHANGED session
  /\ UNCHANGED <<threshold, orders, offers, restarts, history>>

-----------------------------------------------------------------------------
(* The graph and what the handler does with its result. *)

Advance(r, stage) ==
  /\ request' = [request EXCEPT ![r] =
                   [@ EXCEPT !.stage = stage, !.sent = (stage = "confirming")]]
  /\ UNCHANGED <<session, pending, threshold, orders, offers, restarts, history>>

(* session_store.put of the final state, and the reply. *)
Ends(r, selected, order, error, reply) ==
  /\ session' = [session EXCEPT ![request[r].txn] =
       [dict |-> r, known |-> TRUE, selected |-> selected, order |-> order, error |-> error]]
  /\ pending' = Popped(request[r].approval)
  /\ request' = [request EXCEPT ![r] = [@ EXCEPT !.stage = "done", !.reply = reply]]
  /\ UNCHANGED <<threshold, orders, offers, restarts, stood>>

FallbackKeepsOrder(r) == session[request[r].txn].order

(* _mock_commit_response: a made-up order id replaces what the state had.  *)
Fallback(r) == "mock"

EndsInError(r) ==
  LET t == request[r].txn
  IN  /\ Ends(r, request[r].item, Fallback(r), TRUE, "mock")
      /\ doubted' = IF \E q \in Requests \ {r} : HoldsState(q, t) THEN doubted
                    ELSE doubted \cup {t}
      /\ UNCHANGED crossed

SkipsNothing(r) == FALSE

(* send_select: a state that came with an error is not worked on. *)
Skips(r) == request[r].error

Select(r) ==
  /\ request[r].stage = "selecting"
  /\ IF Skips(r) THEN EndsInError(r) ELSE Advance(r, "initing") \/ EndsInError(r)

(* No on_init within the timeout leaves the proposed terms and goes on. *)
SendInit(r) ==
  /\ request[r].stage = "initing"
  /\ Advance(r, "confirming") \/ EndsInError(r)

(* The confirm reaches the seller, also after its request has given up.    *)
SellerOrders(r) ==
  /\ request[r].sent
  /\ r \notin orders
  /\ orders' = orders \cup {r}
  /\ UNCHANGED <<session, pending, threshold, request, offers, restarts, history>>

(* The first on_confirm in the queue is taken.  The queue is the           *)
(* transaction's: the answer may be to another confirm of it.              *)
OnConfirm(r, o) ==
  /\ request[r].stage = "confirming"
  /\ o \in orders
  /\ request[o].txn = request[r].txn
  /\ Ends(r, request[r].item, o, FALSE, "live")
  /\ crossed' = IF o = r THEN crossed ELSE crossed \cup {request[r].txn}
  /\ UNCHANGED doubted

(* The POST raises, or no on_confirm comes. *)
ConfirmFails(r) ==
  /\ request[r].stage = "confirming"
  /\ EndsInError(r)

(* arun_commit raises: what is stored is the dict the graph was started    *)
(* on, with the item that was picked last by those who hold it.            *)
AgentCrashes(r) ==
  /\ request[r].stage \in Working
  /\ \E q \in Requests :
       /\ q = r \/ (HoldsState(q, request[r].txn) /\ request[q].dict = request[r].dict)
       /\ Ends(r, request[q].item, Fallback(r), request[r].error, "mock")
  /\ UNCHANGED <<doubted, crossed>>

-----------------------------------------------------------------------------
(* The sweeper, the admin, the process. *)

Sweep(t) ==
  /\ session[t].known
  /\ session' = [session EXCEPT ![t] = NoSession]
  /\ UNCHANGED <<pending, threshold, request, orders, offers, restarts, history>>

UpdateUser(u, x) ==
  /\ threshold[u] # x
  /\ threshold' = [threshold EXCEPT ![u] = x]
  /\ UNCHANGED <<session, pending, request, orders, offers, restarts, history>>

(* Sessions and approvals are in memory only; what was sent was sent. *)
Restart ==
  /\ restarts < MaxRestarts
  /\ restarts' = restarts + 1
  /\ session' = [t \in Txns |-> NoSession]
  /\ pending' = {}
  /\ request' = [r \in Requests |->
                   IF request[r].stage = "idle" THEN request[r]
                   ELSE [request[r] EXCEPT !.stage = "done"]]
  /\ UNCHANGED <<threshold, orders, offers, history>>

Next ==
  \/ \E t \in Txns :
       \/ \E found \in SUBSET Items \ {{}} : Compare(t, found)
       \/ Sweep(t)
  \/ \E u \in Users, x \in Thresholds : UpdateUser(u, x)
  \/ \E r \in Requests :
       \/ \E t \in Txns, i \in Items, u \in Users : Commit(r, t, i, u)
       \/ Authorised(r)
       \/ \E a \in Requests, decision \in {"approved", "rejected"} : Decide(r, a, decision)
       \/ Rejected(r)
       \/ Approved(r)
       \/ Select(r)
       \/ SendInit(r)
       \/ SellerOrders(r)
       \/ \E o \in Requests : OnConfirm(r, o)
       \/ ConfirmFails(r)
       \/ AgentCrashes(r)
  \/ Restart

Spec == Init /\ [][Next]_vars

-----------------------------------------------------------------------------
(* An order above the threshold that held for its user when the commit was *)
(* checked comes from an approval, however requests overlap and the        *)
(* threshold moves meanwhile.  Orders whose lookup failed are left to      *)
(* LookupFailureAsks.                                                      *)
LargeIsApproved ==
  \A o \in orders :
    \/ request[o].kind = "approved"
    \/ Price[request[o].item] * Quantity[request[o].txn] <= request[o].granted
    \/ request[o].unread

(* The default of the check: without an answer from the database any       *)
(* amount requires an approval, so a failed lookup lets no order through.  *)
LookupFailureAsks ==
  \A o \in orders : request[o].kind = "approved" \/ ~request[o].unread

(* A rejection that no other decision of the same approval overlaps stands:*)
(* no late approval, retry or resumed commit orders through it.            *)
RejectionStands == \A o \in orders : request[o].approval \notin stood

(* After a request that ended in an error while no other held the state,   *)
(* the transaction is not ordered again: the confirm that failed may have  *)
(* reached the seller, and a retry does not repeat it.                     *)
DoubtIsFinal == \A o \in orders : ~request[o].late

(* Between requests, a session shows the seller's order with the item that *)
(* was ordered (what /status replays to the seller), whatever failed,      *)
(* expired or was picked since; if every on_confirm met its own request.   *)
SessionIsCoherent ==
  \A t \in Txns \ crossed :
    session[t].order \in Requests /\ (\A r \in Requests : ~HoldsState(r, t))
      => /\ session[t].order \in orders
         /\ request[session[t].order].item = session[t].selected
=============================================================================
