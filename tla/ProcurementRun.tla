---------------------------- MODULE ProcurementRun ----------------------------
(***************************************************************************)
(* The orchestrator's run of a purchase, from POST /run to the order       *)
(* (services/orchestrator/src/workflow.py): the sessions and the approval  *)
(* queue it keeps in memory, the status it writes through the data         *)
(* normalizer, the Beckn confirm and what is handed to the ERP.            *)
(*                                                                         *)
(* Handlers are coroutines of one event loop.  A handler's code between    *)
(* two awaits is one action; at an await (a PATCH of the status, the Beckn *)
(* calls) other handlers run, and it goes on with the snapshot `state` it  *)
(* took when it started, which it writes back whole.  That is the pc:      *)
(*                                                                         *)
(*   marking    PATCH pending_approval under way                           *)
(*   parking    ... done, the stage or the queue entry still to be written *)
(*   cancelling PATCH cancelled under way                                  *)
(*   settling   ... done, the session or the queue still to be written     *)
(*   budget     the ERP budget check under way                             *)
(*   ordering   select, init and confirm under way                         *)
(*   recording  taken as confirmed, PATCH confirmed under way              *)
(*   finishing  ... done, the session still to be written                  *)
(*   closing    PATCH confirmed of an order that is only administrative    *)
(***************************************************************************)
EXTENDS PolicyEngine, FiniteSets

CONSTANTS
  Runs,          \* transactions
  Handlers,      \* requests; each is used once, so their number is a bound
  Envelopes,     \* the ERP's possible answers
  Bargains,      \* totals that a negotiated price of a decision may come to
  BudgetGate,    \* ERP_BUDGET_CHECK_ENABLED
  ErpSync,       \* ERP_SYNC_ENABLED
  MaxFaults      \* bound: restarts, lost answers of a confirm, lost PATCHes

ASSUME RunAssumption ==
  /\ Envelopes \subseteq Envelope
  /\ NoEnvelope \in Envelopes
  /\ Bargains \subseteq Nat
  /\ {BudgetGate, ErpSync} \subseteq BOOLEAN
  /\ MaxFaults \in Nat
  /\ Handlers \cap {"none", "mock"} = {}

VARIABLES
  run,      \* run[r]: what POST /run fixed, see Plan
  session,  \* session[r]: the mutable part of _sessions[r]
  pending,  \* pending[r]: item of the entry in _pending_approvals, or NoItem
  db,       \* db[r]: procurement_requests.status
  req,      \* req[h]: the request that handler h serves
  orders,   \* handlers whose confirm reached the seller
  erp,      \* erp[r]: the order handed to the ERP first; others of the run
            \* share its idempotency key and are dropped there
  faults,   \* faults so far
  unheard,  \* history: handlers that took a confirm without an answer for one
  disturbed,\* history: runs whose requests overlapped or left their stages
  cancelled \* history: runs that PATCH /cancel closed

vars == <<run, session, pending, db, req, orders, erp, faults, unheard, disturbed, cancelled>>

NoItem == 0

Stages == {"none", "awaiting_selection", "awaiting_approval",
           "awaiting_rbac_approval", "auto_commit", "confirmed", "rejected"}

(* ml: the model's recommendation; tracked: the normalizer gave a          *)
(* request_id, without which no status is written and the queue entry, put *)
(* under "", is out of the approval route's reach.                         *)
Plan == [known : BOOLEAN, mode : Modes, env : Envelopes, ml : Items, tracked : BOOLEAN]

NoPlan == [known |-> FALSE, mode |-> "advisory", env |-> NoEnvelope, ml |-> 1, tracked |-> FALSE]

OrderId == Handlers \cup {"none", "mock"}

Session   == [stage : Stages, order : OrderId]
NoSession == [stage |-> "none", order |-> "none"]

Kinds == {"none", "run", "decide", "reject", "commit", "approve", "refuse"}
Pcs   == {"idle", "marking", "parking", "cancelling", "settling", "budget",
          "ordering", "recording", "finishing", "closing", "done"}

(* What an order comes to, and whether its route compared it with the      *)
(* threshold: a body may name a price, or a role that the route skips.     *)
Terms     == [amount : Nat, compared : BOOLEAN]
Listed(i) == [amount |-> Total[i], compared |-> TRUE]
NoTerms   == [amount |-> 0, compared |-> TRUE]

(* snap: the session as the handler found it. *)
Request == [kind : Kinds, run : Runs \cup {"none"}, pc : Pcs, item : Items \cup {NoItem},
            snap : Session, terms : Terms]

NoRequest == [kind |-> "none", run |-> "none", pc |-> "idle", item |-> NoItem,
              snap |-> NoSession, terms |-> NoTerms]

TypeOK ==
  /\ run \in [Runs -> Plan]
  /\ session \in [Runs -> Session]
  /\ pending \in [Runs -> Items \cup {NoItem}]
  /\ db \in [Runs -> {"open", "pending_approval", "confirmed", "cancelled"}]
  /\ req \in [Handlers -> Request]
  /\ orders \in SUBSET Handlers
  /\ erp \in [Runs -> Handlers \cup {"none"}]
  /\ faults \in Nat
  /\ unheard \in SUBSET Handlers
  /\ disturbed \in SUBSET Runs
  /\ cancelled \in SUBSET Runs

Init ==
  /\ run = [r \in Runs |-> NoPlan]
  /\ session = [r \in Runs |-> NoSession]
  /\ pending = [r \in Runs |-> NoItem]
  /\ db = [r \in Runs |-> "open"]
  /\ req = [h \in Handlers |-> NoRequest]
  /\ orders = {}
  /\ erp = [r \in Runs |-> "none"]
  /\ faults = 0
  /\ unheard = {}
  /\ disturbed = {}
  /\ cancelled = {}

Fault == faults < MaxFaults /\ faults' = faults + 1

-----------------------------------------------------------------------------
(* What handlers do. *)

InFlight(h) == req[h].pc \notin {"idle", "done"}

Quiet(r) == \A h \in Handlers : InFlight(h) => req[h].run # r

AwaitsRequester(r) == session[r].stage \in {"awaiting_selection", "awaiting_approval"}

(* What the pages send: one request of a run at a time, a rejection only of *)
(* what awaits its user, and no POST /commit on a run.  Nothing in the code *)
(* demands any of it.                                                      *)
Orderly(r, kind) ==
  /\ Quiet(r)
  /\ kind # "commit"
  /\ kind = "reject" => AwaitsRequester(r)

(* Handler h begins a request of run r. *)
Arrives(h, r, kind, item, pc, terms) ==
  /\ req[h].pc = "idle"
  /\ req' = [req EXCEPT ![h] = [kind |-> kind, run |-> r, pc |-> pc, item |-> item,
                                snap |-> session[r], terms |-> terms]]
  /\ disturbed' = IF Orderly(r, kind) THEN disturbed ELSE disturbed \cup {r}
  /\ UNCHANGED cancelled

Goes(h, from, to) ==
  /\ req[h].pc = from
  /\ req' = [req EXCEPT ![h].pc = to]
  /\ UNCHANGED <<disturbed, cancelled>>

SessionPut(r, s) == session' = [session EXCEPT ![r] = s]

Enqueue(r, i) == pending' = [pending EXCEPT ![r] = IF run[r].tracked THEN i ELSE @]

(* The queue once h is through: decide_approval, and it alone, removes the  *)
(* entry by its key, whichever it is by now.                               *)
DequeuedIfApproved(h) ==
  IF req[h].kind = "approve" THEN [pending EXCEPT ![req[h].run] = NoItem] ELSE pending

Dequeued(h) ==
  IF req[h].kind \in {"approve", "refuse"}
  THEN [pending EXCEPT ![req[h].run] = NoItem]
  ELSE pending

(* _persist_status: never raises, and the write may be lost. *)
Persist(r, status) ==
  \/ /\ db' = [db EXCEPT ![r] = IF run[r].tracked THEN status ELSE @]
     /\ UNCHANGED faults
  \/ /\ Fault
     /\ db' = db

-----------------------------------------------------------------------------
(* POST /run, from the policy decision on: what precedes it touches        *)
(* nothing that another request can name.                                  *)
RunProcurement(h, r, mode, env, ml, tracked) ==
  LET decision == Evaluate(mode, env, ml)
  IN  /\ ~run[r].known
      /\ run' = [run EXCEPT ![r] = [known |-> TRUE, mode |-> mode, env |-> env,
                                    ml |-> ml, tracked |-> tracked]]
      /\ SessionPut(r, [NoSession EXCEPT !.stage = decision.stage])
      /\ \/ /\ decision.stage \in {"awaiting_selection", "awaiting_approval"}
            /\ Arrives(h, r, "run", ml, "done", Listed(ml))
            /\ UNCHANGED pending
         \/ /\ decision.stage = "awaiting_rbac_approval"
            /\ Arrives(h, r, "run", decision.final, "marking", Listed(decision.final))
            /\ pending' = [pending EXCEPT ![r] = IF tracked THEN decision.final ELSE @]
         \/ /\ decision.stage = "auto_commit"
            /\ Arrives(h, r, "run", ml, "ordering", Listed(ml))
            /\ UNCHANGED pending
      /\ UNCHANGED <<db, orders, erp, faults, unheard>>

(* The item a decision is about: the user's pick in awaiting_selection, the *)
(* proposal, whatever the body names, in awaiting_approval.  Any other     *)
(* stage answers 409, no session 410.                                      *)
Choices(r) ==
  CASE session[r].stage = "awaiting_selection" -> Items
    [] session[r].stage = "awaiting_approval"  ->
         {Evaluate(run[r].mode, run[r].env, run[r].ml).final}
    [] OTHER -> {}

(* POST /run/{run_id}/decide, "proceed".  What the policy engine lets pass *)
(* is ordered at the price that the body says was negotiated, if any: the  *)
(* total that was compared is the listed one.                              *)
DecideRun(h, r, i, bargain) ==
  /\ run[r].known
  /\ i \in Choices(r)
  /\ \/ /\ Proceeds(i, run[r].env)
        /\ Arrives(h, r, "decide", i, "ordering", [Listed(i) EXCEPT !.amount = bargain])
        /\ UNCHANGED pending
     \/ /\ ~Proceeds(i, run[r].env)
        /\ Arrives(h, r, "decide", i, "marking", Listed(i))
        /\ Enqueue(r, i)
  /\ UNCHANGED <<run, session, db, orders, erp, faults, unheard>>

(* ... "reject", which looks at no stage. *)
RejectRun(h, r) ==
  /\ run[r].known
  /\ session[r].stage # "none"
  /\ \/ /\ OnRejection(run[r].mode) = "awaiting_selection"
        /\ SessionPut(r, [session[r] EXCEPT !.stage = "awaiting_selection"])
        /\ Arrives(h, r, "reject", NoItem, "done", NoTerms)
     \/ /\ OnRejection(run[r].mode) = "rejected"
        /\ Arrives(h, r, "reject", NoItem, "cancelling", NoTerms)
        /\ UNCHANGED session
  /\ UNCHANGED <<run, pending, db, orders, erp, faults, unheard>>

(* POST /commit: the threshold, then the budget; neither the stage nor the *)
(* ERP's envelope.  gated: the actor's role is one of the three the gate   *)
(* names; for any other string of the body it compares nothing.            *)
Commit(h, r, i, gated) ==
  /\ run[r].known
  /\ session[r].stage # "none"
  /\ \/ /\ gated /\ OverThreshold(i)
        /\ Arrives(h, r, "commit", i, "marking", Listed(i))
     \/ /\ gated => ~OverThreshold(i)
        /\ Arrives(h, r, "commit", i, IF BudgetGate THEN "budget" ELSE "ordering",
                   [Listed(i) EXCEPT !.compared = gated])
  /\ UNCHANGED <<run, session, pending, db, orders, erp, faults, unheard>>

BudgetAllows(h) ==
  /\ Goes(h, "budget", "ordering")
  /\ UNCHANGED <<run, session, pending, db, orders, erp, faults, unheard>>

BudgetDenies(h) ==
  /\ Goes(h, "budget", "done")
  /\ UNCHANGED <<run, session, pending, db, orders, erp, faults, unheard>>

(* POST /approvals/{request_id}/decide, "approved": the order is resumed,  *)
(* or, without a session, only recorded.                                   *)
Approve(h, r) ==
  /\ pending[r] # NoItem
  /\ Arrives(h, r, "approve", pending[r],
             IF session[r].stage = "none" THEN "closing" ELSE "ordering", Listed(pending[r]))
  /\ UNCHANGED <<run, session, pending, db, orders, erp, faults, unheard>>

(* ... "rejected". *)
Refuse(h, r) ==
  /\ pending[r] # NoItem
  /\ Arrives(h, r, "refuse", pending[r], "cancelling", Listed(pending[r]))
  /\ UNCHANGED <<run, session, pending, db, orders, erp, faults, unheard>>

(* PATCH /cancel: the status in the database and nothing else. *)
Cancel(r) ==
  /\ run[r].known /\ run[r].tracked
  /\ db' = [db EXCEPT ![r] = "cancelled"]
  /\ cancelled' = cancelled \cup {r}
  /\ UNCHANGED <<run, session, pending, req, orders, erp, faults, unheard, disturbed>>

-----------------------------------------------------------------------------
(* The rest of an escalation or a rejection. *)

Mark(h) ==
  /\ Goes(h, "marking", IF req[h].kind = "run" THEN "done" ELSE "parking")
  /\ Persist(req[h].run, "pending_approval")
  /\ UNCHANGED <<run, session, pending, orders, erp, unheard>>

Park(h) ==
  LET r == req[h].run
  IN  /\ Goes(h, "parking", "done")
      /\ \/ /\ req[h].kind = "decide"
            /\ SessionPut(r, [req[h].snap EXCEPT !.stage = "awaiting_rbac_approval"])
            /\ UNCHANGED pending
         \/ /\ req[h].kind = "commit"
            /\ Enqueue(r, req[h].item)
            /\ UNCHANGED session
      /\ UNCHANGED <<run, db, orders, erp, faults, unheard>>

MarkCancelled(h) ==
  /\ Goes(h, "cancelling", "settling")
  /\ Persist(req[h].run, "cancelled")
  /\ UNCHANGED <<run, session, pending, orders, erp, unheard>>

(* The snapshot of the session goes back whole. *)
SessionSettled(h) ==
  IF req[h].kind = "reject" THEN [req[h].snap EXCEPT !.stage = "rejected"]
                            ELSE session[req[h].run]

Settle(h) ==
  /\ Goes(h, "settling", "done")
  /\ SessionPut(req[h].run, SessionSettled(h))
  /\ pending' = Dequeued(h)
  /\ UNCHANGED <<run, db, orders, erp, faults, unheard>>

-----------------------------------------------------------------------------
(* The order. *)

(* The session a handler leaves behind an order. POST /commit writes no    *)
(* stage; a run that commits by itself reads the session again.            *)
SessionAfterKeepsStage(h, order) == [req[h].snap EXCEPT !.order = order]

SessionAfter(h, order) ==
  CASE req[h].kind = "commit" -> [req[h].snap EXCEPT !.order = order]
    [] req[h].kind = "run"    ->
         [session[req[h].run] EXCEPT !.stage = "confirmed", !.order = order]
    [] req[h].kind \in {"decide", "approve"} ->
         [req[h].snap EXCEPT !.stage = "confirmed", !.order = order]

(* enqueue_sync, unless the order is invented; an approved order is not    *)
(* handed over, every other one is.                                        *)
HandedOverAlways(h, order) ==
  IF ErpSync /\ req[h].kind # "approve" /\ erp[req[h].run] = "none"
  THEN [erp EXCEPT ![req[h].run] = h]
  ELSE erp

HandedOver(h, order) ==
  IF ErpSync /\ req[h].kind # "approve" /\ order # "mock" /\ erp[req[h].run] = "none"
  THEN [erp EXCEPT ![req[h].run] = order]
  ELSE erp

(* confirm reached the seller and was answered. *)
Confirm(h) ==
  /\ Goes(h, "ordering", "recording")
  /\ orders' = orders \cup {h}
  /\ UNCHANGED <<run, session, pending, db, erp, faults, unheard>>

(* confirm was posted and on_confirm missed the timeout: beckn-bap-client  *)
(* answers 200 with "NACK" and no order id, the orchestrator looks at the  *)
(* id only and makes one up.  It goes on with h as a live order, whether   *)
(* the seller has one or not.                                              *)
ConfirmUnanswered(h, reached) ==
  /\ Goes(h, "ordering", "recording")
  /\ orders' = IF reached THEN orders \cup {h} ELSE orders
  /\ unheard' = unheard \cup {h}
  /\ UNCHANGED <<run, session, pending, db, erp, faults>>

MockIdLive(h) == h

MockId(h) == "mock"

(* A Beckn call failed, perhaps with the confirm at the seller: the        *)
(* handler goes on as if it were ordered, with an invented order id.       *)
MockOrder(h, reached) ==
  /\ Goes(h, "ordering", IF req[h].kind = "approve" THEN "closing" ELSE "done")
  /\ \/ reached /\ Fault /\ orders' = orders \cup {h}
     \/ ~reached /\ UNCHANGED <<faults, orders>>
  /\ SessionPut(req[h].run, SessionAfter(h, MockId(h)))
  /\ pending' = Dequeued(h)
  /\ erp' = HandedOver(h, MockId(h))
  /\ UNCHANGED <<run, db, unheard>>

Record(h) ==
  /\ Goes(h, "recording", "finishing")
  /\ Persist(req[h].run, "confirmed")
  /\ UNCHANGED <<run, session, pending, orders, erp, unheard>>

Finish(h) ==
  /\ Goes(h, "finishing", "done")
  /\ SessionPut(req[h].run, SessionAfter(h, h))
  /\ pending' = Dequeued(h)
  /\ erp' = HandedOver(h, h)
  /\ UNCHANGED <<run, db, orders, faults, unheard>>

(* The administrative confirmation: with an expired session the entry is   *)
(* still in the queue, after a failed order it is not.                     *)
Close(h) ==
  /\ Goes(h, "closing", IF req[h].snap.stage = "none" THEN "settling" ELSE "done")
  /\ Persist(req[h].run, "confirmed")
  /\ UNCHANGED <<run, session, pending, orders, erp, unheard>>

-----------------------------------------------------------------------------
(* The process. *)

(* SESSION_TTL has passed since the last _session_put. A run that commits  *)
(* by itself put its session moments ago: its calls have timeouts that are *)
(* far shorter.                                                            *)
Expire(r) ==
  /\ session[r].stage # "none"
  /\ \A h \in Handlers : InFlight(h) /\ req[h].run = r => req[h].kind # "run"
  /\ SessionPut(r, NoSession)
  /\ UNCHANGED <<run, pending, db, req, orders, erp, faults, unheard, disturbed, cancelled>>

(* The process restarts: sessions, queue and requests are gone.            *)
Restart ==
  /\ Fault
  /\ session' = [r \in Runs |-> NoSession]
  /\ pending' = [r \in Runs |-> NoItem]
  /\ req' = [h \in Handlers |->
               IF InFlight(h) THEN [req[h] EXCEPT !.pc = "done"] ELSE req[h]]
  /\ UNCHANGED <<run, db, orders, erp, unheard, disturbed, cancelled>>

-----------------------------------------------------------------------------
Next ==
  \/ \E h \in Handlers, r \in Runs, mode \in Modes, env \in Envelopes, ml \in Items,
        tracked \in BOOLEAN : RunProcurement(h, r, mode, env, ml, tracked)
  \/ \E h \in Handlers, r \in Runs, i \in Items :
        \E bargain \in Bargains \cup {Total[i]} : DecideRun(h, r, i, bargain)
  \/ \E h \in Handlers, r \in Runs, i \in Items, gated \in BOOLEAN :
        Commit(h, r, i, gated)
  \/ \E h \in Handlers, r \in Runs : RejectRun(h, r)
  \/ \E h \in Handlers, r \in Runs : Approve(h, r)
  \/ \E h \in Handlers, r \in Runs : Refuse(h, r)
  \/ \E r \in Runs : Cancel(r)
  \/ \E h \in Handlers : BudgetAllows(h)
  \/ \E h \in Handlers : BudgetDenies(h)
  \/ \E h \in Handlers : Mark(h)
  \/ \E h \in Handlers : Park(h)
  \/ \E h \in Handlers : MarkCancelled(h)
  \/ \E h \in Handlers : Settle(h)
  \/ \E h \in Handlers : Confirm(h)
  \/ \E h \in Handlers, reached \in BOOLEAN : ConfirmUnanswered(h, reached)
  \/ \E h \in Handlers, reached \in BOOLEAN : MockOrder(h, reached)
  \/ \E h \in Handlers : Record(h)
  \/ \E h \in Handlers : Finish(h)
  \/ \E h \in Handlers : Close(h)
  \/ \E r \in Runs : Expire(r)
  \/ Restart

Spec == Init /\ [][Next]_vars

-----------------------------------------------------------------------------
(* Properties that hold whatever clients do and however their requests      *)
(* interleave.                                                              *)

(* An order above the requester's threshold comes out of the approval queue: *)
(* not from a run that commits by itself, a decision taken on a stale stage, *)
(* POST /commit or a resurrected session.  But for what the routes do not  *)
(* compare: a commit under a role that the gate does not name, a price that *)
(* a decision's body gives, a listed price that does not parse.            *)
NotCompared(h) ==
  \/ req[h].kind = "commit" /\ ~req[h].terms.compared
  \/ req[h].kind = "decide" /\ req[h].terms.amount # Total[req[h].item]
  \/ req[h].item \notin Readable

LargeNeedsApprover ==
  \A h \in orders :
    req[h].terms.amount > Threshold => req[h].kind = "approve" \/ NotCompared(h)

(* The agent orders without a human only in autonomous mode, and only when  *)
(* the ERP neither asked for an approval nor forbade the auto commit.       *)
AutonomyIsLicensed ==
  \A h \in orders :
    req[h].kind = "run" =>
      run[req[h].run].mode = "autonomous" /\ ~ErpForcesApproval(run[req[h].run].env)

(* A live order id shown by GET /run is an order that the seller has for    *)
(* this very run, or stands for a confirm of it that nobody answered; and a *)
(* run shown as confirmed shows an order: through every write-back of an   *)
(* old snapshot.                                                           *)
SessionOrderIsReal ==
  \A r \in Runs :
    /\ session[r].order \in Handlers =>
         session[r].order \in orders \cup unheard /\ req[session[r].order].run = r
    /\ session[r].stage = "confirmed" => session[r].order # "none"

(* The ERP is handed no purchase order without a confirm that reached the  *)
(* seller, or that nobody answered: no mock order, no other run's order.   *)
ErpHoldsRealOrders ==
  \A r \in Runs :
    erp[r] # "none" => erp[r] \in orders \cup unheard /\ req[erp[r]].run = r

(* "ERP policy requires approval before this purchase can be committed":    *)
(* when the ERP forbids the auto commit, no run and no decision orders, on  *)
(* whichever stage it was taken; POST /commit never asks the policy engine. *)
ErpBlockRespected ==
  \A h \in orders :
    ~run[req[h].run].env.auto_commit_allowed => req[h].kind \in {"approve", "commit"}

(* What evaluate_commit would escalate is ordered by an approver, or by     *)
(* POST /commit; no run that commits by itself and no decision gets past it. *)
PolicyGatesDecisions ==
  \A h \in orders :
    ~Proceeds(req[h].item, run[req[h].run].env) => req[h].kind \in {"approve", "commit"}

-----------------------------------------------------------------------------
(* Properties of the runs whose requests came one at a time and kept to the *)
(* stages, whatever happened to the others.                                *)

(* A run is ordered once: a decision, an approval, a mock fallback with the  *)
(* confirm at the seller, an expired session do not add up to two.           *)
OneOrder ==
  \A g, h \in orders : req[g].run = req[h].run /\ req[g].run \notin disturbed => g = h

(* The queue, the stage and the status in the database tell one story when  *)
(* no request of the run is in flight: an order that is parked can be       *)
(* approved or was refused; one that is queued was not ordered; and, while  *)
(* nothing was lost, the database says so too.                              *)
Ordered(r) == \E h \in orders : req[h].run = r
Refused(r) == \E h \in Handlers : req[h].pc = "done" /\ req[h].kind = "refuse" /\ req[h].run = r

QueueAgrees ==
  \A r \in Runs \ (disturbed \cup cancelled) :
    Quiet(r) /\ run[r].known /\ run[r].tracked =>
      /\ session[r].stage = "awaiting_rbac_approval" => pending[r] # NoItem \/ Refused(r)
      /\ pending[r] # NoItem =>
           session[r].stage \in {"none", "awaiting_rbac_approval"} /\ ~Ordered(r)
      /\ faults = 0 =>
           /\ db[r] = "pending_approval" <=> pending[r] # NoItem
           /\ Ordered(r) => db[r] = "confirmed"

(* "... pending_approval -> confirmed | cancelled": the two last states of  *)
(* a request are last, unless PATCH /cancel set or overwrites them.         *)
LifecycleRespected ==
  [][\A r \in Runs \ (disturbed' \cup cancelled') :
       db[r] \in {"confirmed", "cancelled"} => db'[r] = db[r]]_vars

-----------------------------------------------------------------------------
(* What the properties rest on. *)

(* A request that began is of a run that POST /run has fixed. *)
RequestHasRun ==
  \A h \in Handlers :
    /\ req[h].pc # "idle" => req[h].run \in Runs /\ run[req[h].run].known
    /\ h \in orders => req[h].pc # "idle"

QueueHasRun == \A r \in Runs : pending[r] # NoItem => run[r].known

(* Who may order what: it is settled before the Beckn calls start, and the *)
(* facts it was settled on do not change under them.                       *)
Licensed(h) ==
  LET plan == run[req[h].run]
  IN  /\ req[h].item \in Items
      /\ req[h].kind \in {"run", "decide", "commit", "approve"}
      /\ req[h].kind # "approve" /\ req[h].terms.compared => ~OverThreshold(req[h].item)
      /\ req[h].kind = "run" => plan.mode = "autonomous" /\ ~ErpForcesApproval(plan.env)
      /\ req[h].kind = "decide" => plan.env.auto_commit_allowed
      /\ req[h].kind \in {"run", "decide", "approve"} => req[h].terms.compared
      /\ req[h].kind # "decide" => req[h].terms.amount = Total[req[h].item]

OrdersAreLicensed ==
  \A h \in Handlers :
    h \in orders \/ req[h].pc \in {"budget", "ordering", "recording", "finishing"} => Licensed(h)

(* The handlers that may hold a live order id: those whose confirm reached *)
(* the seller, and those that took silence for an answer.                  *)
Vouched == orders \cup unheard

RecordedIsVouched ==
  \A h \in Handlers : req[h].pc \in {"recording", "finishing"} => h \in Vouched

(* The order of a run is one of its own requests'. *)
RealOrder(o, r) == o \in Vouched /\ req[o].pc # "idle" /\ req[o].run = r

RealSession(s, r) ==
  /\ s.order \in Handlers => RealOrder(s.order, r)
  /\ s.stage = "confirmed" => s.order # "none"

SessionsAreReal == \A r \in Runs : RealSession(session[r], r)

(* A snapshot is as true as the session it was taken of. *)
SnapshotsAreReal ==
  \A h \in Handlers : req[h].pc # "idle" => RealSession(req[h].snap, req[h].run)

ErpOrdersAreOwn == \A r \in Runs : erp[r] # "none" => RealOrder(erp[r], r)

RunInv ==
  /\ TypeOK
  /\ RequestHasRun
  /\ QueueHasRun
  /\ OrdersAreLicensed
  /\ RecordedIsVouched
  /\ SnapshotsAreReal
  /\ SessionsAreReal
  /\ ErpOrdersAreOwn

-----------------------------------------------------------------------------
(* What one request at a time rests on. *)

(* The status is one of the two last, and was not put there by /cancel. *)
Final(r) == r \notin cancelled /\ db[r] \in {"confirmed", "cancelled"}

(* The database has been told all that happened to the run. *)
Told(r) == r \notin cancelled /\ run[r].tracked /\ faults = 0

(* A run of which no request is in flight. *)
AtRest(r) ==
  LET stage == session[r].stage
  IN  /\ pending[r] # NoItem =>
           stage \in {"none", "awaiting_rbac_approval"} /\ ~Ordered(r) /\ ~Final(r)
      /\ Ordered(r) => stage \in {"none", "confirmed"}
      /\ Final(r) => ~AwaitsRequester(r)
      /\ run[r].tracked /\ stage = "awaiting_rbac_approval" => pending[r] # NoItem \/ Refused(r)
      /\ Told(r) =>
           /\ db[r] = "pending_approval" <=> pending[r] # NoItem
           /\ Ordered(r) => db[r] = "confirmed"

(* Where a request may be, by its kind. *)
Stands(kind, pc) ==
  /\ kind \in {"run", "decide", "reject", "approve", "refuse"}
  /\ pc \notin {"idle", "budget", "done"}
  /\ pc \in {"ordering", "recording", "finishing"} => kind \in {"run", "decide", "approve"}
  /\ pc = "marking" => kind \in {"run", "decide"}
  /\ pc = "parking" => kind = "decide"
  /\ pc = "cancelling" => kind \in {"reject", "refuse"}
  /\ pc = "settling" => kind \in {"reject", "refuse", "approve"}
  /\ pc = "closing" => kind = "approve"

(* What a request under way has done so far to its run, and has found true *)
(* of it and still is: whether its confirm is out, what is queued, which   *)
(* stage it leaves as it is, what is written.  It began with a session or, *)
(* an approval, without one.                                               *)
Underway(h) ==
  LET r     == req[h].run
      kind  == req[h].kind
      pc    == req[h].pc
      began == req[h].snap.stage # "none"
      stage == session[r].stage
  IN  /\ Stands(kind, pc)
      /\ \A g \in orders : req[g].run = r => g = h
      /\ h \in orders => pc \in {"recording", "finishing"} \/ (pc = "closing" /\ began)
      /\ Final(r) => pc \in {"settling", "finishing"}
      /\ pc \in {"marking", "parking"} /\ run[r].tracked => pending[r] # NoItem
      /\ kind = "reject" => pending[r] = NoItem
      /\ kind \in {"run", "decide"} /\ pc \notin {"marking", "parking"} => pending[r] = NoItem
      /\ pc = "closing" /\ began => pending[r] = NoItem
      /\ pc = "ordering" /\ kind = "approve" => began
      /\ pc = "marking" /\ kind = "run" => stage = "awaiting_rbac_approval"
      /\ kind = "refuse" => stage \in {"none", "awaiting_rbac_approval"}
      /\ kind = "approve" /\ pc \in {"closing", "settling"} => stage \in {"none", "confirmed"}
      /\ Told(r) =>
           /\ pc = "parking" => db[r] = "pending_approval"
           /\ pc = "settling" \/ (pc = "ordering" /\ kind # "approve") => db[r] # "pending_approval"
           /\ pc = "finishing" => db[r] = "confirmed"

(* One request of the run is in flight, or none. *)
RunSerial(r) ==
  /\ \A g, h \in Handlers :
       InFlight(g) /\ InFlight(h) /\ req[g].run = r /\ req[h].run = r => g = h
  /\ \A g, h \in orders : req[g].run = r /\ req[h].run = r => g = h
  /\ ~run[r].known => db[r] = "open"
  /\ run[r].known /\ Quiet(r) => AtRest(r)
  /\ \A h \in Handlers : InFlight(h) /\ req[h].run = r => Underway(h)

SerialInv == \A r \in Runs \ disturbed : RunSerial(r)

-----------------------------------------------------------------------------
(* What the repository says and the code does not do. *)

(* "Workflow handlers call evaluate() / evaluate_commit() and act only on   *)
(* the returned decision object": what evaluate_commit escalates is ordered *)
(* by an approver, on every route.                                          *)
PolicyGatesEveryRoute ==
  \A h \in orders :
    ~Proceeds(req[h].item, run[req[h].run].env) => req[h].kind = "approve"

(* "All roles subject to threshold check": no commit above the threshold is *)
(* ordered, whoever sends it.                                               *)
AllRolesAreChecked ==
  \A h \in orders : OverThreshold(req[h].item) => req[h].kind # "commit"

(* "Push confirmed PO to ERP adapter" (ERP_SYNC_ENABLED): a run that shows  *)
(* a live order has been handed to the ERP.                                 *)
ConfirmedReachesErp ==
  \A r \in Runs : ErpSync /\ session[r].order \in Handlers => erp[r] # "none"

(* "HITL / Autonomous: swap to the preferred supplier if it appears in      *)
(* results": what the agent orders by itself is a preferred offering.       *)
PreferredIsOrdered ==
  \A h \in orders :
    req[h].kind = "run" /\ run[req[h].run].env.preferred # {} =>
      req[h].item \in run[req[h].run].env.preferred
=============================================================================
