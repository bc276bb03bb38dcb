------------------------- MODULE ProcurementRunProofs -------------------------
(* What the policy engine guarantees for every envelope, list of offerings *)
(* and threshold.  RunInv is inductive for any number of runs, requests    *)
(* and offerings, any prices and threshold, any answers of the ERP and any *)
(* client; SerialInv with it, of every run whose requests came one at a    *)
(* time and kept to its stages so far.                                     *)
EXTENDS ProcurementRun, WellFoundedInduction, TLAPS

-----------------------------------------------------------------------------
(* The policy engine.                                                       *)

(* A preferred offering to swap to exists whenever any is preferred: the   *)
(* first of the list (_adjust_recommendation).                             *)
LEMMA FirstPreferred ==
  ASSUME NEW S \in SUBSET Items, S # {}
  PROVE  (CHOOSE i \in S : \A j \in S : i <= j) \in S
<1>1. S \subseteq Nat
  BY PolicyAssumption DEF Items
<1>2. PICK m \in S : \A k \in S : <<k, m>> \notin OpToRel(<, Nat)
  BY <1>1, NatLessThanWellFounded, WFMin, Zenon
<1>3. \A k \in S : ~(k < m)
  BY <1>1, <1>2, Zenon DEF OpToRel
<1>4. \A k \in S : m <= k
  BY <1>1, <1>3
<1> QED
  BY <1>4, Zenon

(* The item a run proposes is one of its offerings. *)
LEMMA AdjustedIsItem ==
  ASSUME NEW ml \in Items, NEW env \in Envelope, NEW policy
  PROVE  Adjusted(ml, env, policy) \in Items
<1>1. env.preferred \in SUBSET Items
  BY DEF Envelope
<1>2. CASE policy.selection_required \/ env.preferred = {}
  BY <1>2 DEF Adjusted
<1>3. CASE ~(policy.selection_required \/ env.preferred = {})
  <2>1. (CHOOSE i \in env.preferred : \A j \in env.preferred : i <= j) \in env.preferred
    BY <1>1, <1>3, FirstPreferred
  <2> QED
    BY <1>1, <1>3, <2>1 DEF Adjusted
<1> QED
  BY <1>2, <1>3

(* The stages a run can start in (_determine_stage).                       *)
LEMMA InitialStages ==
  ASSUME NEW policy \in Policy, NEW i \in Items
  PROVE  InitialStage(policy, i) \in StartStages
BY DEF InitialStage, Policy, StartStages

(* The policies of the three modes, with or without the ERP's override,    *)
(* are policies.                                                           *)
LEMMA PolicyTypes ==
  ASSUME NEW mode \in Modes, NEW env \in Envelope
  PROVE  Overridden(BasePolicy(mode), env) \in Policy
<1>1. BasePolicy(mode) \in Policy
  BY DEF BasePolicy, Policy
<1> QED
  BY <1>1 DEF Overridden, Policy

(* Whatever mode, envelope and recommendation, evaluate names an offering  *)
(* of the run and one of the four stages: no envelope makes it propose an  *)
(* item that discovery did not return.                                     *)
THEOREM EvaluateDecides ==
  ASSUME NEW mode \in Modes, NEW env \in Envelope, NEW ml \in Items
  PROVE  Evaluate(mode, env, ml) \in Decision
<1> DEFINE policy == Overridden(BasePolicy(mode), env)
<1>1. policy \in Policy
  BY PolicyTypes
<1>2. Adjusted(ml, env, policy) \in Items
  BY AdjustedIsItem
<1>3. InitialStage(policy, ml) \in StartStages
  BY <1>1, InitialStages
<1> QED
  BY <1>2, <1>3 DEF Evaluate, Decision

(* "ERP can only escalate constraints, never relax them": whatever policy  *)
(* and envelope, an override takes the auto commit away or leaves it, adds *)
(* an approval or leaves it, and never touches the selection; and it does  *)
(* take the auto commit away whenever the ERP objects to it, except from a *)
(* policy that has an approval already.                                    *)
THEOREM ErpOnlyEscalates ==
  ASSUME NEW policy \in Policy, NEW env \in Envelope
  PROVE  LET o == Overridden(policy, env)
         IN  /\ o.auto_commit => policy.auto_commit
             /\ policy.approval_required => o.approval_required
             /\ o.selection_required = policy.selection_required
             /\ ErpForcesApproval(env) => o.approval_required
             /\ ErpForcesApproval(env) /\ o.auto_commit => policy.approval_required
BY DEF Overridden, Policy, ErpForcesApproval, Envelope

(* A run starts by committing on its own only in autonomous mode, with no  *)
(* objection of the ERP and a recommendation within the threshold.         *)
THEOREM AutoCommitIsLicensed ==
  ASSUME NEW mode \in Modes, NEW env \in Envelope, NEW ml \in Items,
         Evaluate(mode, env, ml).stage = "auto_commit"
  PROVE  /\ mode = "autonomous"
         /\ ~ErpForcesApproval(env)
         /\ ~OverThreshold(ml)
<1> DEFINE policy == Overridden(BasePolicy(mode), env)
<1>1. InitialStage(policy, ml) = "auto_commit"
  BY DEF Evaluate
<1>2. policy \in Policy
  BY PolicyTypes
<1>3. ~policy.selection_required /\ ~policy.approval_required /\ ~OverThreshold(ml)
  BY <1>1, <1>2 DEF InitialStage, Policy
<1>4. BasePolicy(mode) \in Policy
  BY DEF BasePolicy, Policy
<1>5. ~ErpForcesApproval(env) /\ policy = BasePolicy(mode)
  BY <1>3, <1>4 DEF Overridden, Policy
<1>6. mode = "autonomous"
  <2>1. ~BasePolicy(mode).selection_required /\ ~BasePolicy(mode).approval_required
    BY <1>3, <1>5, Zenon
  <2>2. mode # "advisory" /\ mode # "hitl"
    BY <2>1, Zenon DEF BasePolicy
  <2> QED
    BY <2>2 DEF Modes
<1> QED
  BY <1>3, <1>5, <1>6

-----------------------------------------------------------------------------
(* What a step does to requests, orders and plans, whichever action it is. *)

(* A handler takes a request up, on the session as it is.                  *)
Begins(h) ==
  /\ req[h].pc = "idle"
  /\ req'[h].pc \notin {"idle", "recording", "finishing"}
  /\ req'[h].run \in Runs
  /\ run'[req'[h].run].known
  /\ RealSession(req'[h].snap, req'[h].run)
  /\ req'[h].pc \in {"budget", "ordering"} => Licensed(h)'

(* It moves to its next await, and remembers what it began with.           *)
Proceeding == {"budget", "ordering", "recording", "finishing"}

Moves(h) ==
  /\ req[h].pc # "idle" /\ req'[h].pc # "idle"
  /\ req'[h].kind = req[h].kind
  /\ req'[h].run = req[h].run
  /\ req'[h].item = req[h].item
  /\ req'[h].snap = req[h].snap
  /\ req'[h].terms = req[h].terms
  /\ req'[h].pc \in Proceeding => req[h].pc \in Proceeding
  /\ req'[h].pc \in {"recording", "finishing"} => h \in Vouched'

Step ==
  /\ \A h \in Handlers : req'[h] = req[h] \/ Begins(h) \/ Moves(h)
  /\ orders \subseteq orders'
  /\ unheard \subseteq unheard'
  /\ \A h \in orders' : h \in orders \/ (req[h].pc = "ordering" /\ Moves(h))
  /\ \A r \in Runs : run[r].known => run'[r] = run[r]

(* The types but for those of the histories. *)
CoreTypes ==
  /\ run \in [Runs -> Plan]
  /\ session \in [Runs -> Session]
  /\ pending \in [Runs -> Items \cup {NoItem}]
  /\ db \in [Runs -> {"open", "pending_approval", "confirmed", "cancelled"}]
  /\ req \in [Handlers -> Request]
  /\ orders \in SUBSET Handlers
  /\ erp \in [Runs -> Handlers \cup {"none"}]
  /\ faults \in Nat

(* The record a handler starts with, and what is left of the others.       *)
LEMMA ArrivesShape ==
  ASSUME TypeOK, NEW h \in Handlers, NEW r \in Runs, NEW kind \in Kinds,
         NEW item \in Items \cup {NoItem}, NEW pc \in Pcs, NEW terms \in Terms,
         Arrives(h, r, kind, item, pc, terms)
  PROVE  /\ req' \in [Handlers -> Request]
         /\ \A g \in Handlers : g # h => req'[g] = req[g]
         /\ req[h].pc = "idle"
         /\ req'[h].kind = kind /\ req'[h].run = r /\ req'[h].item = item
         /\ req'[h].pc = pc /\ req'[h].snap = session[r] /\ req'[h].terms = terms
<1> DEFINE new == [kind |-> kind, run |-> r, pc |-> pc, item |-> item, snap |-> session[r],
                   terms |-> terms]
<1>1. req \in [Handlers -> Request] /\ session[r] \in Session
  BY DEF TypeOK
<1>2. req' = [req EXCEPT ![h] = new] /\ req[h].pc = "idle"
  BY DEF Arrives
<1>3. new \in Request
  BY <1>1 DEF Request
<1>4. req'[h] = new /\ \A g \in Handlers : g # h => req'[g] = req[g]
  BY <1>1, <1>2
<1>5. req' \in [Handlers -> Request]
  BY <1>1, <1>2, <1>3
<1> HIDE DEF new
<1>6. /\ new.kind = kind /\ new.run = r /\ new.item = item /\ new.pc = pc
      /\ new.snap = session[r] /\ new.terms = terms
  BY DEF new
<1> QED
  BY <1>2, <1>4, <1>5, <1>6

(* A move changes the pc only. *)
LEMMA GoesShape ==
  ASSUME TypeOK, NEW h \in Handlers, NEW from, NEW to \in Pcs, Goes(h, from, to)
  PROVE  /\ req' \in [Handlers -> Request]
         /\ \A g \in Handlers : g # h => req'[g] = req[g]
         /\ req[h].pc = from
         /\ req'[h].pc = to
         /\ req'[h].kind = req[h].kind
         /\ req'[h].run = req[h].run
         /\ req'[h].item = req[h].item
         /\ req'[h].snap = req[h].snap
         /\ req'[h].terms = req[h].terms
<1>1. req \in [Handlers -> Request] /\ req[h] \in Request
  BY DEF TypeOK
<1>2. req' = [req EXCEPT ![h] = [req[h] EXCEPT !.pc = to]] /\ req[h].pc = from
  BY <1>1 DEF Goes
<1> DEFINE new == [req[h] EXCEPT !.pc = to]
<1>3. new \in Request
  BY <1>1 DEF Request
<1>4. req'[h] = new /\ \A g \in Handlers : g # h => req'[g] = req[g]
  BY <1>1, <1>2
<1>5. req' \in [Handlers -> Request]
  BY <1>1, <1>2, <1>3
<1>6. /\ new.pc = to /\ new.kind = req[h].kind /\ new.run = req[h].run
      /\ new.item = req[h].item /\ new.snap = req[h].snap /\ new.terms = req[h].terms
  BY <1>1 DEF Request
<1> HIDE DEF new
<1> QED
  BY <1>2, <1>4, <1>5, <1>6

(* A step of one handler that only moves is a Step.                        *)
LEMMA MoveIsStep ==
  ASSUME RunInv, NEW h \in Handlers, NEW from, NEW to \in Pcs, Goes(h, from, to),
         from # "idle", to # "idle",
         to \in Proceeding => from \in Proceeding,
         to \in {"recording", "finishing"} => h \in Vouched',
         run' = run, unheard \subseteq unheard',
         orders' = orders \/ (orders' = orders \cup {h} /\ from = "ordering")
  PROVE  Step /\ req' \in [Handlers -> Request]
<1>1. /\ req' \in [Handlers -> Request]
      /\ \A g \in Handlers : g # h => req'[g] = req[g]
      /\ req[h].pc = from
      /\ req'[h].pc = to
      /\ req'[h].kind = req[h].kind
      /\ req'[h].run = req[h].run
      /\ req'[h].item = req[h].item
      /\ req'[h].snap = req[h].snap
      /\ req'[h].terms = req[h].terms
  BY GoesShape DEF RunInv
<1>2. Moves(h)
  BY <1>1 DEF Moves
<1>3. orders \subseteq orders' /\ \A g \in orders' : g \in orders \/ (req[g].pc = "ordering" /\ Moves(g))
  BY <1>1, <1>2
<1> QED
  BY <1>1, <1>2, <1>3 DEF Step

(* A step in which a handler begins is a Step.                             *)
LEMMA ArrivalIsStep ==
  ASSUME RunInv, NEW h \in Handlers, NEW r \in Runs, NEW kind \in Kinds,
         NEW item \in Items \cup {NoItem}, NEW pc \in Pcs, NEW terms \in Terms,
         Arrives(h, r, kind, item, pc, terms),
         pc \notin {"idle", "recording", "finishing"},
         run'[r].known,
         \A s \in Runs : run[s].known => run'[s] = run[s],
         orders' = orders, unheard' = unheard,
         pc \in {"budget", "ordering"} =>
           /\ item \in Items
           /\ kind \in {"run", "decide", "commit", "approve"}
           /\ kind # "approve" /\ terms.compared => ~OverThreshold(item)
           /\ kind = "run" => run'[r].mode = "autonomous" /\ ~ErpForcesApproval(run'[r].env)
           /\ kind = "decide" => run'[r].env.auto_commit_allowed
           /\ kind \in {"run", "decide", "approve"} => terms.compared
           /\ kind # "decide" => terms.amount = Total[item]
  PROVE  Step /\ req' \in [Handlers -> Request]
<1>1. /\ req' \in [Handlers -> Request]
      /\ \A g \in Handlers : g # h => req'[g] = req[g]
      /\ req[h].pc = "idle"
      /\ req'[h].kind = kind /\ req'[h].run = r /\ req'[h].item = item
      /\ req'[h].pc = pc /\ req'[h].snap = session[r] /\ req'[h].terms = terms
  BY ArrivesShape DEF RunInv
<1>2. RealSession(req'[h].snap, req'[h].run)
  BY <1>1 DEF RunInv, SessionsAreReal
<1>3. req'[h].pc \in {"budget", "ordering"} => Licensed(h)'
  BY <1>1 DEF Licensed, OverThreshold, TotalRead, ErpForcesApproval
<1>4. Begins(h)
  BY <1>1, <1>2, <1>3 DEF Begins
<1> QED
  BY <1>1, <1>4 DEF Step

(* What an order comes to is a number. *)
LEMMA TermsTyped ==
  /\ NoTerms \in Terms
  /\ \A i \in Items : Listed(i) \in Terms /\ Listed(i).compared /\ Listed(i).amount = Total[i]
  /\ \A i \in Items : \A bargain \in Bargains \cup {Total[i]} :
       LET terms == [Listed(i) EXCEPT !.amount = bargain]
       IN  terms \in Terms /\ terms.compared
  /\ \A i \in Items, gated \in BOOLEAN :
       LET terms == [Listed(i) EXCEPT !.compared = gated]
       IN  terms \in Terms /\ terms.compared = gated /\ terms.amount = Total[i]
BY PolicyAssumption, RunAssumption DEF Terms, NoTerms, Listed, Items

(* POST /run fixes the plan of a run that had none. *)
LEMMA RunProcurementStep ==
  ASSUME RunInv, NEW h \in Handlers, NEW r \in Runs, NEW mode \in Modes,
         NEW env \in Envelopes, NEW ml \in Items, NEW tracked \in BOOLEAN,
         RunProcurement(h, r, mode, env, ml, tracked)
  PROVE  Step /\ CoreTypes' /\ session'[r].order = "none" /\ session'[r].stage # "confirmed"
         /\ \A s \in Runs : s # r => session'[s] = session[s]
<1> DEFINE plan == [known |-> TRUE, mode |-> mode, env |-> env, ml |-> ml, tracked |-> tracked]
           decision == Evaluate(mode, env, ml)
           policy == Overridden(BasePolicy(mode), env)
           fresh == [NoSession EXCEPT !.stage = decision.stage]
<1>1. TypeOK /\ run \in [Runs -> Plan] /\ session \in [Runs -> Session]
      /\ pending \in [Runs -> Items \cup {NoItem}]
  BY DEF RunInv, TypeOK
<1>2. env \in Envelope
  BY RunAssumption
<1>3. decision.final \in Items
  BY <1>2, AdjustedIsItem DEF Evaluate
<1>4. policy \in Policy
  BY <1>2, PolicyTypes
<1>5. decision.stage \in {"awaiting_selection", "awaiting_approval", "awaiting_rbac_approval", "auto_commit"}
  BY <1>4, InitialStages DEF Evaluate, StartStages
<1>6. decision.stage = "auto_commit" =>
        mode = "autonomous" /\ ~ErpForcesApproval(env) /\ ~OverThreshold(ml)
  BY <1>2, AutoCommitIsLicensed
<1> HIDE DEF decision
<1>7. plan \in Plan
  BY DEF Plan
<1>8. plan.known /\ plan.mode = mode /\ plan.env = env
  OBVIOUS
<1> HIDE DEF plan
<1>9. run' = [run EXCEPT ![r] = plan] /\ ~run[r].known
  BY DEF RunProcurement, plan
<1>10. run' \in [Runs -> Plan] /\ run'[r] = plan /\ \A s \in Runs : s # r => run'[s] = run[s]
  BY <1>1, <1>7, <1>9
<1>11. \A s \in Runs : run[s].known => run'[s] = run[s]
  BY <1>9, <1>10
<1>12. fresh \in Session /\ fresh.order = "none" /\ fresh.stage # "confirmed"
  BY <1>5 DEF NoSession, Session, Stages, OrderId
<1>13. session' = [session EXCEPT ![r] = fresh]
  BY DEF RunProcurement, SessionPut, decision
<1> HIDE DEF fresh
<1>14. session' \in [Runs -> Session] /\ session'[r] = fresh
       /\ \A s \in Runs : s # r => session'[s] = session[s]
  BY <1>1, <1>12, <1>13
<1>15. UNCHANGED <<db, orders, erp, faults, unheard>>
  BY DEF RunProcurement
<1>16. pending' \in [Runs -> Items \cup {NoItem}]
  BY <1>1, <1>3 DEF RunProcurement, decision
<1>17. Step /\ req' \in [Handlers -> Request]
  <2> USE DEF Kinds, Pcs
  <2>1. CASE Arrives(h, r, "run", ml, "done", Listed(ml))
    BY <2>1, <1>8, <1>10, <1>11, <1>15, TermsTyped, ArrivalIsStep
  <2>2. CASE Arrives(h, r, "run", decision.final, "marking", Listed(decision.final))
    BY <2>2, <1>3, <1>8, <1>10, <1>11, <1>15, TermsTyped, ArrivalIsStep
  <2>3. CASE decision.stage = "auto_commit" /\ Arrives(h, r, "run", ml, "ordering", Listed(ml))
    BY <2>3, <1>6, <1>8, <1>10, <1>11, <1>15, TermsTyped, ArrivalIsStep
  <2> QED
    BY <2>1, <2>2, <2>3 DEF RunProcurement, decision
<1>18. CoreTypes'
  BY <1>1, <1>10, <1>14, <1>15, <1>16, <1>17 DEF TypeOK, CoreTypes
<1> QED
  BY <1>12, <1>14, <1>17, <1>18

(* The item of a decision, and that of a queue entry, is an offering.      *)
LEMMA EnqueueTyped ==
  ASSUME TypeOK, NEW r \in Runs, NEW i \in Items, Enqueue(r, i)
  PROVE  pending' \in [Runs -> Items \cup {NoItem}]
BY DEF TypeOK, Enqueue

(* A status written or lost (_persist_status). *)
LEMMA PersistTyped ==
  ASSUME TypeOK, NEW r, NEW status \in {"open", "pending_approval", "confirmed", "cancelled"},
         Persist(r, status)
  PROVE  /\ db' \in [Runs -> {"open", "pending_approval", "confirmed", "cancelled"}]
         /\ faults' \in Nat
BY DEF TypeOK, Persist, Fault

(* A put of a session that is real for its run. *)
LEMMA SessionPutTyped ==
  ASSUME TypeOK, NEW r \in Runs, NEW s \in Session, SessionPut(r, s)
  PROVE  /\ session' \in [Runs -> Session]
         /\ session'[r] = s
         /\ \A q \in Runs : q # r => session'[q] = session[q]
BY DEF TypeOK, SessionPut

(* The queue after a pop, or after none. *)
LEMMA DequeuedTyped ==
  ASSUME TypeOK, NEW h \in Handlers, pending' = Dequeued(h)
  PROVE  pending' \in [Runs -> Items \cup {NoItem}]
BY DEF TypeOK, Dequeued

(* The ERP keeps what it has, or gets the handler's own order. *)
LEMMA HandedOverTyped ==
  ASSUME TypeOK, NEW h \in Handlers, NEW o \in Handlers \cup {"mock"}, erp' = HandedOver(h, o)
  PROVE  /\ erp' \in [Runs -> Handlers \cup {"none"}]
         /\ \A r \in Runs : erp'[r] = erp[r] \/ (r = req[h].run /\ erp'[r] = o /\ o # "mock")
BY DEF TypeOK, HandedOver

(* What a handler leaves in the session behind an order is a session, of   *)
(* the stage and the order of one, except for the stage "confirmed" and    *)
(* the new order.                                                          *)
LEMMA SessionAfterShape ==
  ASSUME RunInv, NEW h \in Handlers, NEW o \in Handlers \cup {"mock"}, Licensed(h),
         req[h].pc # "idle"
  PROVE  SessionAfter(h, o) \in Session /\ SessionAfter(h, o).order = o
<1>1. req[h].run \in Runs /\ req[h].snap \in Session /\ session[req[h].run] \in Session
  BY DEF RunInv, TypeOK, RequestHasRun, Request
<1>2. \A s \in Session :
        /\ [s EXCEPT !.order = o] \in Session
        /\ [s EXCEPT !.order = o].order = o
        /\ [s EXCEPT !.stage = "confirmed", !.order = o] \in Session
        /\ [s EXCEPT !.stage = "confirmed", !.order = o].order = o
  BY DEF Session, OrderId, Stages
<1>3. CASE req[h].kind = "commit"
  BY <1>1, <1>2, <1>3, Zenon DEF SessionAfter
<1>4. CASE req[h].kind = "run"
  <2>1. SessionAfter(h, o) = [session[req[h].run] EXCEPT !.stage = "confirmed", !.order = o]
    BY <1>4 DEF SessionAfter
  <2> QED
    BY <1>1, <1>2, <2>1, Zenon
<1>5. CASE req[h].kind \in {"decide", "approve"}
  <2>1. SessionAfter(h, o) = [req[h].snap EXCEPT !.stage = "confirmed", !.order = o]
    BY <1>5 DEF SessionAfter
  <2> QED
    BY <1>1, <1>2, <2>1, Zenon
<1> QED
  BY <1>3, <1>4, <1>5 DEF Licensed

-----------------------------------------------------------------------------
(* Every action is a Step, keeps the types, and leaves in the sessions and *)
(* at the ERP only what was there or a real order.                         *)

RealOrderLater(o, r) == o \in Vouched' /\ req'[o].pc # "idle" /\ req'[o].run = r

RealLater(s, r) ==
  /\ s.order \in Handlers => RealOrderLater(s.order, r)
  /\ s.stage = "confirmed" => s.order # "none"

SessionsLater ==
  \A r \in Runs : session'[r] = session[r] \/ RealLater(session'[r], r)

ErpLater ==
  \A r \in Runs : erp'[r] = erp[r] \/ RealOrderLater(erp'[r], r)

Kept == Step /\ CoreTypes' /\ SessionsLater /\ ErpLater

(* A real order stays one. *)
LEMMA OrderStays ==
  ASSUME RunInv, Step, NEW o \in Handlers, NEW r, RealOrder(o, r)
  PROVE  RealOrderLater(o, r)
<1>1. o \in Vouched'
  BY DEF RealOrder, Vouched, Step
<1>2. req'[o] = req[o] \/ Moves(o)
  BY DEF RealOrder, Step, Begins
<1> QED
  BY <1>1, <1>2 DEF RealOrder, RealOrderLater, Moves

LEMMA RealStays ==
  ASSUME RunInv, Step, NEW s, NEW r, RealSession(s, r)
  PROVE  RealLater(s, r)
BY OrderStays DEF RealSession, RealLater

(* No session put, nothing handed to the ERP. *)
LEMMA KeptQuietly ==
  ASSUME RunInv, Step, req' \in [Handlers -> Request],
         UNCHANGED <<run, session, erp>>,
         pending' \in [Runs -> Items \cup {NoItem}],
         db' \in [Runs -> {"open", "pending_approval", "confirmed", "cancelled"}],
         orders' \in SUBSET Handlers,
         faults' \in Nat
  PROVE  Kept
BY DEF RunInv, TypeOK, CoreTypes, Kept, SessionsLater, ErpLater

(* POST /run shows a session without an order. *)
LEMMA KeepsRun ==
  ASSUME RunInv, NEW h \in Handlers, NEW r \in Runs, NEW mode \in Modes,
         NEW env \in Envelopes, NEW ml \in Items, NEW tracked \in BOOLEAN,
         RunProcurement(h, r, mode, env, ml, tracked)
  PROVE  Kept
<1>1. Step /\ CoreTypes' /\ session'[r].order = "none" /\ session'[r].stage # "confirmed"
      /\ \A s \in Runs : s # r => session'[s] = session[s]
  BY RunProcurementStep
<1>2. "none" \notin Handlers
  BY RunAssumption
<1>3. RealLater(session'[r], r)
  BY <1>1, <1>2 DEF RealLater
<1>4. erp' = erp
  BY DEF RunProcurement
<1> QED
  BY <1>1, <1>3, <1>4 DEF Kept, SessionsLater, ErpLater

(* A decision goes on to the order, or to the queue. *)
LEMMA KeepsDecide ==
  ASSUME RunInv, NEW h \in Handlers, NEW r \in Runs, NEW i \in Items,
         NEW bargain \in Bargains \cup {Total[i]}, DecideRun(h, r, i, bargain)
  PROVE  Kept
<1>1. TypeOK /\ run[r] \in Plan
  BY DEF RunInv, TypeOK
<1>2. UNCHANGED <<run, session, db, orders, erp, faults, unheard>> /\ run[r].known
  BY DEF DecideRun
<1>3. CASE /\ Proceeds(i, run[r].env)
           /\ Arrives(h, r, "decide", i, "ordering", [Listed(i) EXCEPT !.amount = bargain])
           /\ UNCHANGED pending
  <2> DEFINE terms == [Listed(i) EXCEPT !.amount = bargain]
  <2>0. terms \in Terms /\ terms.compared /\ Arrives(h, r, "decide", i, "ordering", terms)
    BY <1>3, TermsTyped
  <2> HIDE DEF terms
  <2>1. Step /\ req' \in [Handlers -> Request]
    BY <1>2, <1>3, <2>0, ArrivalIsStep DEF Kinds, Pcs, Proceeds
  <2> QED
    BY <1>1, <1>2, <1>3, <2>1, KeptQuietly DEF TypeOK
<1>4. CASE Arrives(h, r, "decide", i, "marking", Listed(i)) /\ Enqueue(r, i)
  <2>1. Step /\ req' \in [Handlers -> Request]
    BY <1>2, <1>4, TermsTyped, ArrivalIsStep DEF Kinds, Pcs
  <2>2. pending' \in [Runs -> Items \cup {NoItem}]
    BY <1>1, <1>4, EnqueueTyped
  <2> QED
    BY <1>1, <1>2, <2>1, <2>2, KeptQuietly DEF TypeOK
<1> QED
  BY <1>3, <1>4 DEF DecideRun

(* A rejection changes the stage at once, or after a PATCH. *)
LEMMA KeepsReject ==
  ASSUME RunInv, NEW h \in Handlers, NEW r \in Runs, RejectRun(h, r)
  PROVE  Kept
<1>1. TypeOK /\ session[r] \in Session
  BY DEF RunInv, TypeOK
<1>2. UNCHANGED <<run, pending, db, orders, erp, faults, unheard>> /\ run[r].known
  BY DEF RejectRun
<1>3. CASE Arrives(h, r, "reject", NoItem, "cancelling", NoTerms) /\ UNCHANGED session
  <2>1. Step /\ req' \in [Handlers -> Request]
    BY <1>2, <1>3, TermsTyped, ArrivalIsStep DEF Kinds, Pcs
  <2> QED
    BY <1>1, <1>2, <1>3, <2>1, KeptQuietly DEF TypeOK
<1>4. CASE /\ SessionPut(r, [session[r] EXCEPT !.stage = "awaiting_selection"])
           /\ Arrives(h, r, "reject", NoItem, "done", NoTerms)
  <2>1. Step /\ req' \in [Handlers -> Request]
    BY <1>2, <1>4, TermsTyped, ArrivalIsStep DEF Kinds, Pcs
  <2> DEFINE s == [session[r] EXCEPT !.stage = "awaiting_selection"]
  <2>2. s \in Session /\ s.order = session[r].order /\ s.stage # "confirmed"
    BY <1>1 DEF Session, Stages
  <2>3. RealSession(session[r], r)
    BY DEF RunInv, SessionsAreReal
  <2>4. RealSession(s, r)
    BY <2>2, <2>3 DEF RealSession
  <2>5. RealLater(s, r)
    BY <2>1, <2>4, RealStays
  <2>6. /\ session' \in [Runs -> Session]
        /\ session'[r] = s
        /\ \A q \in Runs : q # r => session'[q] = session[q]
    BY <1>1, <1>4, <2>2, SessionPutTyped
  <2> HIDE DEF s
  <2>7. CoreTypes'
    BY <1>1, <1>2, <2>1, <2>6 DEF TypeOK, CoreTypes
  <2> QED
    BY <1>2, <2>1, <2>5, <2>6, <2>7 DEF Kept, SessionsLater, ErpLater
<1> QED
  BY <1>3, <1>4 DEF RejectRun

(* POST /commit starts no order above the threshold, if it compares. *)
LEMMA KeepsCommit ==
  ASSUME RunInv, NEW h \in Handlers, NEW r \in Runs, NEW i \in Items, NEW gated \in BOOLEAN,
         Commit(h, r, i, gated)
  PROVE  Kept
<1> DEFINE terms == [Listed(i) EXCEPT !.compared = gated]
<1>1. TypeOK
  BY DEF RunInv
<1>2. UNCHANGED <<run, session, pending, db, orders, erp, faults, unheard>> /\ run[r].known
  BY DEF Commit
<1>3. terms \in Terms /\ terms.compared = gated /\ terms.amount = Total[i]
  BY TermsTyped
<1>4. CASE Arrives(h, r, "commit", i, "marking", Listed(i))
  <2>1. Step /\ req' \in [Handlers -> Request]
    BY <1>2, <1>4, TermsTyped, ArrivalIsStep DEF Kinds, Pcs
  <2> QED
    BY <1>1, <1>2, <2>1, KeptQuietly DEF TypeOK
<1>5. CASE /\ gated => ~OverThreshold(i)
           /\ \E pc \in {"budget", "ordering"} : Arrives(h, r, "commit", i, pc, terms)
  <2>1. PICK pc \in {"budget", "ordering"} : Arrives(h, r, "commit", i, pc, terms)
    BY <1>5
  <2> HIDE DEF terms
  <2>2. Step /\ req' \in [Handlers -> Request]
    BY <1>2, <1>3, <1>5, <2>1, ArrivalIsStep DEF Kinds, Pcs
  <2> QED
    BY <1>1, <1>2, <2>2, KeptQuietly DEF TypeOK
<1> QED
  BY <1>4, <1>5 DEF Commit

(* The approver's decision takes up the entry as it is. *)
LEMMA KeepsApproverRequest ==
  ASSUME RunInv, NEW h \in Handlers, NEW r \in Runs, Approve(h, r) \/ Refuse(h, r)
  PROVE  Kept
<1>1. TypeOK /\ pending[r] \in Items \cup {NoItem}
  BY DEF RunInv, TypeOK
<1>2. UNCHANGED <<run, session, pending, db, orders, erp, faults, unheard>> /\ pending[r] # NoItem
  BY DEF Approve, Refuse
<1>3. run[r].known /\ pending[r] \in Items
  BY <1>1, <1>2 DEF RunInv, QueueHasRun
<1>4. CASE Arrives(h, r, "approve", pending[r], "closing", Listed(pending[r]))
  <2>1. Step /\ req' \in [Handlers -> Request]
    BY <1>2, <1>3, <1>4, TermsTyped, ArrivalIsStep DEF Kinds, Pcs
  <2> QED
    BY <1>1, <1>2, <2>1, KeptQuietly DEF TypeOK
<1>5. CASE Arrives(h, r, "approve", pending[r], "ordering", Listed(pending[r]))
  <2>1. Step /\ req' \in [Handlers -> Request]
    BY <1>2, <1>3, <1>5, TermsTyped, ArrivalIsStep DEF Kinds, Pcs
  <2> QED
    BY <1>1, <1>2, <2>1, KeptQuietly DEF TypeOK
<1>6. CASE Arrives(h, r, "refuse", pending[r], "cancelling", Listed(pending[r]))
  <2>1. Step /\ req' \in [Handlers -> Request]
    BY <1>2, <1>3, <1>6, TermsTyped, ArrivalIsStep DEF Kinds, Pcs
  <2> QED
    BY <1>1, <1>2, <2>1, KeptQuietly DEF TypeOK
<1> QED
  BY <1>4, <1>5, <1>6 DEF Approve, Refuse

(* Requests that stay as they are. *)
LEMMA IdleIsStep ==
  ASSUME RunInv, UNCHANGED <<run, req, orders, unheard>>
  PROVE  Step /\ req' \in [Handlers -> Request]
BY DEF Step, RunInv, TypeOK

(* PATCH /cancel changes the database only. *)
LEMMA KeepsCancel ==
  ASSUME RunInv, NEW r \in Runs, Cancel(r)
  PROVE  Kept
<1>1. UNCHANGED <<run, session, pending, req, orders, erp, faults, unheard>>
      /\ db' = [db EXCEPT ![r] = "cancelled"]
  BY DEF Cancel
<1>2. Step /\ req' \in [Handlers -> Request]
  BY <1>1, IdleIsStep
<1> QED
  BY <1>1, <1>2, KeptQuietly DEF RunInv, TypeOK

(* The budget check moves a request and nothing else. *)
LEMMA KeepsBudget ==
  ASSUME RunInv, NEW h \in Handlers, BudgetAllows(h) \/ BudgetDenies(h)
  PROVE  Kept
<1>1. TypeOK
  BY DEF RunInv
<1>2. UNCHANGED <<run, session, pending, db, orders, erp, faults, unheard>>
  BY DEF BudgetAllows, BudgetDenies
<1>3. CASE BudgetDenies(h)
  <2>1. Step /\ req' \in [Handlers -> Request]
    BY <1>2, <1>3, MoveIsStep DEF BudgetDenies, Pcs, Proceeding
  <2> QED
    BY <1>1, <1>2, <2>1, KeptQuietly DEF TypeOK
<1>4. CASE BudgetAllows(h)
  <2>1. Step /\ req' \in [Handlers -> Request]
    BY <1>2, <1>4, MoveIsStep DEF BudgetAllows, Pcs, Proceeding
  <2> QED
    BY <1>1, <1>2, <2>1, KeptQuietly DEF TypeOK
<1> QED
  BY <1>3, <1>4

(* The PATCHes. *)
LEMMA KeepsPatch ==
  ASSUME RunInv, NEW h \in Handlers, Mark(h) \/ MarkCancelled(h) \/ Record(h) \/ Close(h)
  PROVE  Kept
<1>1. TypeOK
  BY DEF RunInv
<1>2. UNCHANGED <<run, session, pending, orders, erp, unheard>>
  BY DEF Mark, MarkCancelled, Record, Close
<1>3. PICK status \in {"open", "pending_approval", "confirmed", "cancelled"} :
        Persist(req[h].run, status)
  BY DEF Mark, MarkCancelled, Record, Close
<1>4. /\ db' \in [Runs -> {"open", "pending_approval", "confirmed", "cancelled"}]
      /\ faults' \in Nat
  BY <1>1, <1>3, PersistTyped
<1>5. Step /\ req' \in [Handlers -> Request]
  <2> USE DEF Pcs, Proceeding
  <2>1. CASE Mark(h)
    <3>1. PICK to \in {"done", "parking"} : Goes(h, "marking", to)
      BY <2>1 DEF Mark
    <3> QED
      BY <1>2, <3>1, MoveIsStep
  <2>2. CASE MarkCancelled(h)
    BY <1>2, <2>2, MoveIsStep DEF MarkCancelled
  <2>3. CASE Record(h)
    <3>1. Goes(h, "recording", "finishing") /\ req[h].pc = "recording"
      BY <2>3 DEF Record, Goes
    <3>2. h \in Vouched'
      BY <1>2, <3>1 DEF RunInv, RecordedIsVouched, Vouched
    <3> QED
      BY <1>2, <3>1, <3>2, MoveIsStep
  <2>4. CASE Close(h)
    <3>1. PICK to \in {"done", "settling"} : Goes(h, "closing", to)
      BY <2>4 DEF Close
    <3> QED
      BY <1>2, <3>1, MoveIsStep
  <2> QED
    BY <2>1, <2>2, <2>3, <2>4
<1> QED
  BY <1>1, <1>2, <1>4, <1>5, KeptQuietly DEF TypeOK

(* A put of the session by handler h, of a session that is real. *)
LEMMA KeptPutting ==
  ASSUME RunInv, Step, req' \in [Handlers -> Request], NEW r \in Runs, NEW s \in Session,
         SessionPut(r, s), RealLater(s, r), ErpLater,
         run' = run,
         pending' \in [Runs -> Items \cup {NoItem}],
         db' = db,
         orders' \in SUBSET Handlers,
         erp' \in [Runs -> Handlers \cup {"none"}],
         faults' \in Nat
  PROVE  Kept
<1>1. TypeOK
  BY DEF RunInv
<1>2. /\ session' \in [Runs -> Session]
      /\ session'[r] = s
      /\ \A q \in Runs : q # r => session'[q] = session[q]
  BY <1>1, SessionPutTyped
<1>3. SessionsLater
  BY <1>2 DEF SessionsLater
<1>4. CoreTypes'
  BY <1>1, <1>2 DEF TypeOK, CoreTypes
<1> QED
  BY <1>3, <1>4 DEF Kept

(* The snapshot that a handler writes back, under another stage. *)
LEMMA SnapshotPut ==
  ASSUME RunInv, Step, NEW h \in Handlers, req[h].pc # "idle",
         NEW stage \in Stages \ {"confirmed"}
  PROVE  LET s == [req[h].snap EXCEPT !.stage = stage]
         IN  s \in Session /\ RealLater(s, req[h].run)
<1> DEFINE s == [req[h].snap EXCEPT !.stage = stage]
<1>1. req[h].snap \in Session
  BY DEF RunInv, TypeOK, Request
<1>2. s \in Session /\ s.order = req[h].snap.order /\ s.stage = stage
  BY <1>1 DEF Session
<1>3. RealSession(req[h].snap, req[h].run)
  BY DEF RunInv, SnapshotsAreReal
<1>4. RealSession(s, req[h].run)
  BY <1>2, <1>3 DEF RealSession
<1>5. RealLater(s, req[h].run)
  BY <1>4, RealStays
<1> QED
  BY <1>2, <1>5

(* The end of an escalation: a stage, or an entry. *)
LEMMA KeepsPark ==
  ASSUME RunInv, NEW h \in Handlers, Park(h)
  PROVE  Kept
<1> DEFINE r == req[h].run
<1>1. TypeOK
  BY DEF RunInv
<1>2. Goes(h, "parking", "done") /\ req[h].pc = "parking"
      /\ UNCHANGED <<run, db, orders, erp, faults, unheard>>
  BY DEF Park, Goes
<1>3. Step /\ req' \in [Handlers -> Request]
  BY <1>2, MoveIsStep DEF Pcs, Proceeding
<1>4. r \in Runs
  BY <1>2 DEF RunInv, RequestHasRun
<1>5. ErpLater
  BY <1>2 DEF ErpLater
<1>6. CASE /\ SessionPut(r, [req[h].snap EXCEPT !.stage = "awaiting_rbac_approval"])
           /\ UNCHANGED pending
  <2> DEFINE s == [req[h].snap EXCEPT !.stage = "awaiting_rbac_approval"]
  <2>1. s \in Session /\ RealLater(s, r)
    BY <1>2, <1>3, SnapshotPut DEF Stages
  <2>2. SessionPut(r, s)
    BY <1>6
  <2> HIDE DEF s
  <2> QED
    BY <1>1, <1>2, <1>3, <1>4, <1>5, <1>6, <2>1, <2>2, KeptPutting DEF TypeOK
<1>7. CASE req[h].kind = "commit" /\ Enqueue(r, req[h].item) /\ UNCHANGED session
  <2>1. req[h].item \in Items \cup {NoItem}
    BY <1>1 DEF TypeOK, Request
  <2>2. pending' \in [Runs -> Items \cup {NoItem}]
    BY <1>1, <1>7, <2>1 DEF TypeOK, Enqueue
  <2> QED
    BY <1>1, <1>2, <1>3, <1>7, <2>2, KeptQuietly DEF TypeOK
<1> QED
  BY <1>6, <1>7 DEF Park

(* The end of a rejection: the old snapshot, or the queue. *)
LEMMA KeepsSettle ==
  ASSUME RunInv, NEW h \in Handlers, Settle(h)
  PROVE  Kept
<1> DEFINE r == req[h].run
           s == SessionSettled(h)
<1>1. TypeOK
  BY DEF RunInv
<1>2. /\ Goes(h, "settling", "done") /\ req[h].pc = "settling"
      /\ SessionPut(r, s) /\ pending' = Dequeued(h)
      /\ UNCHANGED <<run, db, orders, erp, faults, unheard>>
  BY DEF Settle, Goes
<1>3. Step /\ req' \in [Handlers -> Request]
  BY <1>2, MoveIsStep DEF Pcs, Proceeding
<1>4. r \in Runs
  BY <1>2 DEF RunInv, RequestHasRun
<1>5. pending' \in [Runs -> Items \cup {NoItem}]
  BY <1>1, <1>2, DequeuedTyped
<1>6. s \in Session /\ RealLater(s, r)
  <2>1. CASE req[h].kind = "reject"
    BY <1>2, <1>3, <2>1, SnapshotPut DEF SessionSettled, Stages
  <2>2. CASE req[h].kind # "reject"
    <3>1. s = session[r] /\ session[r] \in Session
      BY <1>1, <1>4, <2>2 DEF SessionSettled, TypeOK
    <3>2. RealSession(session[r], r)
      BY <1>4 DEF RunInv, SessionsAreReal
    <3> QED
      BY <1>3, <3>1, <3>2, RealStays
  <2> QED
    BY <2>1, <2>2
<1>7. ErpLater
  BY <1>2 DEF ErpLater
<1> HIDE DEF s
<1> QED
  BY <1>1, <1>2, <1>3, <1>4, <1>5, <1>6, <1>7, KeptPutting DEF TypeOK

(* The seller has the order, or is taken to have it. *)
LEMMA KeepsConfirm ==
  ASSUME RunInv, NEW h \in Handlers,
         Confirm(h) \/ \E reached \in BOOLEAN : ConfirmUnanswered(h, reached)
  PROVE  Kept
<1>1. TypeOK
  BY DEF RunInv
<1>2. /\ Goes(h, "ordering", "recording")
      /\ orders' = orders \cup {h} \/ orders' = orders
      /\ unheard \subseteq unheard'
      /\ UNCHANGED <<run, session, pending, db, erp>>
  BY DEF Confirm, ConfirmUnanswered
<1>3. h \in Vouched'
  BY DEF Confirm, ConfirmUnanswered, Vouched
<1>4. Step /\ req' \in [Handlers -> Request]
  BY <1>2, <1>3, MoveIsStep DEF Pcs, Proceeding
<1>5. orders' \in SUBSET Handlers /\ faults' \in Nat
  BY <1>1, <1>2 DEF TypeOK, Confirm, ConfirmUnanswered, Fault
<1> QED
  BY <1>1, <1>2, <1>4, <1>5, KeptQuietly DEF TypeOK

(* An invented order is shown, never handed to the ERP. *)
LEMMA KeepsMockOrder ==
  ASSUME RunInv, NEW h \in Handlers, NEW reached \in BOOLEAN, MockOrder(h, reached)
  PROVE  Kept
<1> DEFINE r == req[h].run
           s == SessionAfter(h, "mock")
<1>1. TypeOK /\ "mock" \notin Handlers
  BY RunAssumption DEF RunInv
<1>2. PICK to \in {"closing", "done"} : Goes(h, "ordering", to)
  BY DEF MockOrder
<1>3. /\ req[h].pc = "ordering"
      /\ SessionPut(r, s) /\ pending' = Dequeued(h) /\ erp' = HandedOver(h, "mock")
      /\ UNCHANGED <<run, db, unheard>>
  BY DEF MockOrder, MockId, Goes
<1>4. orders' = orders \cup {h} \/ orders' = orders
  BY DEF MockOrder
<1>5. faults' \in Nat
  BY <1>1 DEF MockOrder, Fault, TypeOK
<1>6. Step /\ req' \in [Handlers -> Request]
  BY <1>2, <1>3, <1>4, MoveIsStep DEF Pcs, Proceeding
<1>7. r \in Runs /\ Licensed(h)
  BY <1>3 DEF RunInv, RequestHasRun, OrdersAreLicensed
<1>8. s \in Session /\ s.order = "mock"
  BY <1>3, <1>7, SessionAfterShape
<1>9. RealLater(s, r)
  BY <1>1, <1>8 DEF RealLater
<1>10. pending' \in [Runs -> Items \cup {NoItem}]
  BY <1>1, <1>3, DequeuedTyped
<1>11. /\ erp' \in [Runs -> Handlers \cup {"none"}]
       /\ \A q \in Runs : erp'[q] = erp[q]
  BY <1>1, <1>3, HandedOverTyped
<1>12. ErpLater
  BY <1>11 DEF ErpLater
<1>13. orders' \in SUBSET Handlers
  BY <1>1, <1>4 DEF TypeOK
<1> HIDE DEF s
<1> QED
  BY <1>3, <1>5, <1>6, <1>7, <1>8, <1>9, <1>10, <1>11, <1>12, <1>13, KeptPutting

(* A confirmed order is shown and handed to the ERP. *)
LEMMA KeepsFinish ==
  ASSUME RunInv, NEW h \in Handlers, Finish(h)
  PROVE  Kept
<1> DEFINE r == req[h].run
           s == SessionAfter(h, h)
<1>1. TypeOK
  BY DEF RunInv
<1>2. /\ Goes(h, "finishing", "done") /\ req[h].pc = "finishing"
      /\ SessionPut(r, s) /\ pending' = Dequeued(h) /\ erp' = HandedOver(h, h)
      /\ UNCHANGED <<run, db, orders, faults, unheard>>
  BY DEF Finish, Goes
<1>3. Step /\ req' \in [Handlers -> Request] /\ req'[h].run = r /\ req'[h].pc = "done"
  BY <1>1, <1>2, MoveIsStep, GoesShape DEF Pcs, Proceeding
<1>4. r \in Runs /\ Licensed(h) /\ h \in Vouched'
  BY <1>2 DEF RunInv, RequestHasRun, OrdersAreLicensed, RecordedIsVouched, Vouched
<1>5. s \in Session /\ s.order = h
  BY <1>2, <1>4, SessionAfterShape
<1>6. RealLater(s, r)
  <2>1. h # "none"
    BY RunAssumption
  <2> QED
    BY <1>3, <1>4, <1>5, <2>1 DEF RealLater, RealOrderLater
<1>7. pending' \in [Runs -> Items \cup {NoItem}]
  BY <1>1, <1>2, DequeuedTyped
<1>8. /\ erp' \in [Runs -> Handlers \cup {"none"}]
      /\ \A q \in Runs : erp'[q] = erp[q] \/ (q = r /\ erp'[q] = h)
  BY <1>1, <1>2, HandedOverTyped
<1>9. ErpLater
  BY <1>3, <1>4, <1>8 DEF ErpLater, RealOrderLater
<1> HIDE DEF s
<1> QED
  BY <1>1, <1>2, <1>3, <1>4, <1>5, <1>6, <1>7, <1>8, <1>9, KeptPutting DEF TypeOK

(* No session is a session that shows no order. *)
LEMMA NoSessionIsReal ==
  ASSUME NEW r
  PROVE  NoSession \in Session /\ RealLater(NoSession, r)
BY RunAssumption DEF NoSession, Session, Stages, OrderId, RealLater

(* SESSION_TTL passes. *)
LEMMA KeepsExpire ==
  ASSUME RunInv, NEW r \in Runs, Expire(r)
  PROVE  Kept
<1>1. TypeOK
  BY DEF RunInv
<1>2. SessionPut(r, NoSession) /\ UNCHANGED <<run, pending, db, req, orders, erp, faults, unheard>>
  BY DEF Expire
<1>3. Step /\ req' \in [Handlers -> Request]
  BY <1>2, IdleIsStep
<1>4. ErpLater
  BY <1>2 DEF ErpLater
<1> QED
  BY <1>1, <1>2, <1>3, <1>4, NoSessionIsReal, KeptPutting DEF TypeOK

(* The process loses what it has in memory. *)
LEMMA KeepsRestart ==
  ASSUME RunInv, Restart
  PROVE  Kept
<1>1. TypeOK /\ req \in [Handlers -> Request]
  BY DEF RunInv, TypeOK
<1>2. /\ session' = [q \in Runs |-> NoSession] /\ pending' = [q \in Runs |-> NoItem]
      /\ UNCHANGED <<run, db, orders, erp, unheard>>
  BY DEF Restart
<1>3. ASSUME NEW h \in Handlers
      PROVE  req'[h] \in Request /\ (req'[h] = req[h] \/ Moves(h))
  <2>1. req[h] \in Request
    BY <1>1
  <2> DEFINE new == [req[h] EXCEPT !.pc = "done"]
  <2>2. req'[h] = IF InFlight(h) THEN new ELSE req[h]
    BY DEF Restart
  <2>3. /\ new \in Request /\ new.pc = "done" /\ new.kind = req[h].kind
        /\ new.run = req[h].run /\ new.item = req[h].item /\ new.snap = req[h].snap
        /\ new.terms = req[h].terms
    BY <2>1 DEF Request, Pcs
  <2> HIDE DEF new
  <2>4. CASE InFlight(h)
    BY <2>2, <2>3, <2>4 DEF InFlight, Moves, Proceeding
  <2> QED
    BY <2>1, <2>2, <2>4
<1>4. req' \in [Handlers -> Request]
  BY <1>3 DEF Restart
<1>5. Step
  BY <1>2, <1>3 DEF Step
<1>6. SessionsLater
  <2>1. \A q \in Runs : session'[q] = NoSession
    BY <1>2
  <2> QED
    BY <2>1, NoSessionIsReal DEF SessionsLater
<1>7. CoreTypes'
  <2>1. faults' \in Nat
    BY <1>1 DEF Restart, Fault, TypeOK
  <2>2. session' \in [Runs -> Session] /\ pending' \in [Runs -> Items \cup {NoItem}]
    BY <1>2, NoSessionIsReal
  <2> QED
    BY <1>1, <1>2, <1>4, <2>1, <2>2 DEF TypeOK, CoreTypes
<1>8. ErpLater
  BY <1>2 DEF ErpLater
<1> QED
  BY <1>5, <1>6, <1>7, <1>8 DEF Kept

(* Every step of the specification. *)
LEMMA NextIsKept ==
  ASSUME RunInv, [Next]_vars
  PROVE  Kept
<1>1. CASE UNCHANGED vars
  <2>1. UNCHANGED <<run, session, pending, db, req, orders, erp, faults, unheard>>
    BY <1>1 DEF vars
  <2>2. Step /\ req' \in [Handlers -> Request]
    BY <2>1, IdleIsStep
  <2> QED
    BY <2>1, <2>2, KeptQuietly DEF RunInv, TypeOK
<1>2. ASSUME Next PROVE Kept
  BY <1>2, KeepsRun, KeepsDecide, KeepsReject, KeepsCommit, KeepsApproverRequest, KeepsCancel,
     KeepsBudget, KeepsPatch, KeepsPark, KeepsSettle, KeepsConfirm, KeepsMockOrder,
     KeepsFinish, KeepsExpire, KeepsRestart DEF Next
<1> QED
  BY <1>1, <1>2

-----------------------------------------------------------------------------
(* RunInv is inductive. *)

(* RunInv holds at first. *)
LEMMA InitRunInv == Init => RunInv
<1> SUFFICES ASSUME Init PROVE RunInv
  OBVIOUS
<1>1. NoPlan \in Plan
  BY PolicyAssumption, RunAssumption DEF NoPlan, Plan, Modes, Items
<1>2. NoRequest \in Request /\ NoRequest.pc = "idle"
  BY TermsTyped DEF NoRequest, Request, Kinds, Pcs, NoSession, Session, Stages, OrderId
<1>3. NoSession \in Session /\ NoSession.order = "none" /\ NoSession.stage # "confirmed"
  BY DEF NoSession, Session, Stages, OrderId
<1>4. TypeOK
  BY <1>1, <1>2, <1>3 DEF Init, TypeOK
<1>5. \A h \in Handlers : req[h].pc = "idle"
  BY <1>2 DEF Init
<1>6. RequestHasRun /\ OrdersAreLicensed /\ RecordedIsVouched /\ SnapshotsAreReal
  BY <1>5 DEF Init, RequestHasRun, OrdersAreLicensed, RecordedIsVouched, SnapshotsAreReal
<1>7. QueueHasRun /\ SessionsAreReal /\ ErpOrdersAreOwn
  BY <1>3, RunAssumption DEF Init, QueueHasRun, SessionsAreReal, RealSession, ErpOrdersAreOwn
<1> QED
  BY <1>4, <1>6, <1>7 DEF RunInv

(* Entries are queued for runs that exist, and a run does not go away. *)
LEMMA QueueStep ==
  ASSUME RunInv, [Next]_vars, Step
  PROVE  QueueHasRun'
<1>1. \A r \in Runs : run[r].known => run'[r].known
  BY DEF Step
<1>2. \A r \in Runs : pending[r] # NoItem => run[r].known
  BY DEF RunInv, QueueHasRun
<1>3. pending \in [Runs -> Items \cup {NoItem}]
  BY DEF RunInv, TypeOK
<1>4. SUFFICES \A r \in Runs : pending'[r] # NoItem => pending[r] # NoItem \/ run'[r].known
  BY <1>1, <1>2 DEF QueueHasRun
<1>5. CASE pending' = pending
  BY <1>5
<1>6. ASSUME NEW h \in Handlers, pending' = Dequeued(h)
      PROVE  \A r \in Runs : pending'[r] # NoItem => pending[r] # NoItem
  BY <1>3, <1>6 DEF Dequeued
<1>7. ASSUME NEW s \in Runs, run[s].known, NEW i, Enqueue(s, i)
      PROVE  \A r \in Runs : pending'[r] # NoItem => pending[r] # NoItem \/ run'[r].known
  BY <1>1, <1>3, <1>7 DEF Enqueue
<1>8. ASSUME NEW h \in Handlers, NEW s \in Runs, NEW mode \in Modes, NEW env \in Envelopes,
             NEW ml \in Items, NEW tracked \in BOOLEAN, RunProcurement(h, s, mode, env, ml, tracked)
      PROVE  \A r \in Runs : pending'[r] # NoItem => pending[r] # NoItem \/ run'[r].known
  <2>1. \A r \in Runs : r # s => pending'[r] = pending[r]
    BY <1>3, <1>8 DEF RunProcurement
  <2>2. run \in [Runs -> Plan]
    BY DEF RunInv, TypeOK
  <2>3. run'[s].known
    BY <1>8, <2>2 DEF RunProcurement
  <2> QED
    BY <2>1, <2>3
<1>9. ASSUME NEW h \in Handlers, Park(h)
      PROVE  \A r \in Runs : pending'[r] # NoItem => pending[r] # NoItem \/ run'[r].known
  <2>1. req[h].pc = "parking"
    BY <1>9 DEF Park, Goes
  <2>2. req[h].run \in Runs /\ run[req[h].run].known
    BY <2>1 DEF RunInv, RequestHasRun
  <2> QED
    BY <1>5, <1>7, <1>9, <2>2 DEF Park
<1>10. CASE Restart
  BY <1>10 DEF Restart
<1>11. ASSUME NEW h \in Handlers, NEW s \in Runs, NEW i \in Items,
              NEW bargain \in Bargains \cup {Total[i]}, DecideRun(h, s, i, bargain)
      PROVE  \A r \in Runs : pending'[r] # NoItem => pending[r] # NoItem \/ run'[r].known
  BY <1>5, <1>7, <1>11 DEF DecideRun
<1>12. \A h \in Handlers : Settle(h) \/ Finish(h) => pending' = Dequeued(h)
  BY DEF Settle, Finish
<1>13. \A h \in Handlers, reached \in BOOLEAN : MockOrder(h, reached) => pending' = Dequeued(h)
  BY DEF MockOrder
<1>14. \A h \in Handlers, r \in Runs :
         RejectRun(h, r) \/ Approve(h, r) \/ Refuse(h, r) => pending' = pending
  BY DEF RejectRun, Approve, Refuse
<1>15. \A h \in Handlers, r \in Runs, i \in Items, gated \in BOOLEAN :
         Commit(h, r, i, gated) => pending' = pending
  BY DEF Commit
<1>16. \A h \in Handlers :
         BudgetAllows(h) \/ BudgetDenies(h) \/ Mark(h) \/ MarkCancelled(h) \/ Confirm(h)
           \/ (\E reached \in BOOLEAN : ConfirmUnanswered(h, reached))
           \/ Record(h) \/ Close(h) => pending' = pending
  BY DEF BudgetAllows, BudgetDenies, Mark, MarkCancelled, Confirm, ConfirmUnanswered, Record, Close
<1>17. \A r \in Runs : Cancel(r) \/ Expire(r) => pending' = pending
  BY DEF Cancel, Expire
<1>18. CASE UNCHANGED vars
  BY <1>18, <1>5 DEF vars
<1>19. CASE Next
  BY <1>5, <1>6, <1>8, <1>9, <1>10, <1>11, <1>12, <1>13, <1>14, <1>15, <1>16, <1>17, <1>19 DEF Next
<1> QED
  BY <1>18, <1>19

(* Requests keep their run, and runs their plan. *)
LEMMA RequestHasRunStep ==
  ASSUME RunInv, Step
  PROVE  RequestHasRun'
<1> SUFFICES ASSUME NEW h \in Handlers
             PROVE  /\ req'[h].pc # "idle" => req'[h].run \in Runs /\ run'[req'[h].run].known
                    /\ h \in orders' => req'[h].pc # "idle"
  BY DEF RequestHasRun
<1>1. req'[h] = req[h] \/ Begins(h) \/ Moves(h)
  BY DEF Step
<1>2. /\ req[h].pc # "idle" => req[h].run \in Runs /\ run[req[h].run].known
      /\ h \in orders => req[h].pc # "idle"
  BY DEF RunInv, RequestHasRun
<1>3. req[h].pc # "idle" => run'[req[h].run].known
  BY <1>2 DEF Step
<1>4. h \in orders' => h \in orders \/ Moves(h)
  BY DEF Step
<1> QED
  BY <1>1, <1>2, <1>3, <1>4 DEF Begins, Moves

(* A licence is about what does not change. *)
LEMMA LicenceStep ==
  ASSUME RunInv, Step
  PROVE  OrdersAreLicensed'
<1> SUFFICES ASSUME NEW h \in Handlers,
                    h \in orders' \/ req'[h].pc \in Proceeding
             PROVE  Licensed(h)'
  BY DEF OrdersAreLicensed, Proceeding
<1>1. req'[h] = req[h] \/ Begins(h) \/ Moves(h)
  BY DEF Step
<1>2. ASSUME req[h].pc # "idle", Licensed(h), req'[h] = req[h] \/ Moves(h)
      PROVE  Licensed(h)'
  <2>1. /\ req'[h].kind = req[h].kind /\ req'[h].run = req[h].run
        /\ req'[h].item = req[h].item /\ req'[h].terms = req[h].terms
    BY <1>2 DEF Moves
  <2>2. run'[req[h].run] = run[req[h].run]
    BY <1>2 DEF Step, RunInv, RequestHasRun
  <2> QED
    BY <1>2, <2>1, <2>2 DEF Licensed, OverThreshold, TotalRead, ErpForcesApproval
<1>3. h \in orders \/ req[h].pc \in Proceeding => Licensed(h) /\ req[h].pc # "idle"
  BY DEF RunInv, OrdersAreLicensed, RequestHasRun, Proceeding
<1>4. CASE Begins(h)
  <2>1. h \notin orders
    BY <1>4, <1>3 DEF Begins
  <2>2. h \notin orders'
    BY <1>4, <2>1 DEF Step, Begins
  <2>3. req'[h].pc \in {"budget", "ordering"}
    BY <1>4, <2>2 DEF Begins, Proceeding
  <2> QED
    BY <1>4, <2>3 DEF Begins
<1>5. CASE req'[h] = req[h]
  <2>1. h \in orders \/ req[h].pc \in Proceeding
    BY <1>5 DEF Step, Proceeding
  <2> QED
    BY <1>2, <1>3, <1>5, <2>1
<1>6. CASE Moves(h)
  <2>1. h \in orders \/ req[h].pc \in Proceeding
    BY <1>6 DEF Step, Proceeding, Moves
  <2> QED
    BY <1>2, <1>3, <1>6, <2>1
<1> QED
  BY <1>1, <1>4, <1>5, <1>6

(* Only a confirmed order is recorded. *)
LEMMA RecordedStep ==
  ASSUME RunInv, Step
  PROVE  RecordedIsVouched'
BY DEF RunInv, Step, RecordedIsVouched, Vouched, Begins, Moves

(* A snapshot is taken of a real session and stays real. *)
LEMMA SnapshotStep ==
  ASSUME RunInv, Step
  PROVE  SnapshotsAreReal'
<1> SUFFICES ASSUME NEW h \in Handlers, req'[h].pc # "idle"
             PROVE  RealLater(req'[h].snap, req'[h].run)
  BY DEF SnapshotsAreReal, RealSession, RealOrder, RealLater, RealOrderLater
<1>1. req'[h] = req[h] \/ Begins(h) \/ Moves(h)
  BY DEF Step
<1>2. RealSession(req'[h].snap, req'[h].run)
  BY <1>1 DEF RunInv, SnapshotsAreReal, Begins, Moves
<1> QED
  BY <1>2, RealStays

(* What is put back is real, or was there. *)
LEMMA SessionStep ==
  ASSUME RunInv, Step, SessionsLater
  PROVE  SessionsAreReal'
<1> SUFFICES ASSUME NEW r \in Runs
             PROVE  RealLater(session'[r], r)
  BY DEF SessionsAreReal, RealSession, RealOrder, RealLater, RealOrderLater
<1>1. RealSession(session[r], r)
  BY DEF RunInv, SessionsAreReal
<1>2. RealLater(session[r], r)
  BY <1>1, RealStays
<1> QED
  BY <1>2 DEF SessionsLater

(* What the ERP holds is real, or was there. *)
LEMMA ErpStep ==
  ASSUME RunInv, Step, ErpLater
  PROVE  ErpOrdersAreOwn'
<1> SUFFICES ASSUME NEW r \in Runs, erp'[r] # "none"
             PROVE  RealOrderLater(erp'[r], r)
  BY DEF ErpOrdersAreOwn, RealOrder, RealOrderLater
<1>1. CASE erp'[r] = erp[r]
  <2>1. RealOrder(erp[r], r) /\ erp[r] \in Handlers
    BY <1>1 DEF RunInv, ErpOrdersAreOwn, TypeOK
  <2> QED
    BY <1>1, <2>1, OrderStays
<1> QED
  BY <1>1 DEF ErpLater

(* The histories are sets of handlers and of runs, and only grow. *)
HistoriesGrow ==
  /\ unheard' \in SUBSET Handlers
  /\ disturbed' \in SUBSET Runs /\ disturbed \subseteq disturbed'
  /\ cancelled' \in SUBSET Runs /\ cancelled \subseteq cancelled'

LEMMA HistoryStep ==
  ASSUME TypeOK, [Next]_vars
  PROVE  HistoriesGrow
<1>1. unheard \in SUBSET Handlers /\ disturbed \in SUBSET Runs /\ cancelled \in SUBSET Runs
  BY DEF TypeOK
<1>2. ASSUME NEW h, NEW r \in Runs, NEW kind, NEW item, NEW pc, NEW terms,
             Arrives(h, r, kind, item, pc, terms), unheard' = unheard
      PROVE  HistoriesGrow
  BY <1>1, <1>2 DEF Arrives, HistoriesGrow
<1>3. ASSUME NEW h, NEW from, NEW to, Goes(h, from, to), unheard' \in SUBSET Handlers
      PROVE  HistoriesGrow
  BY <1>1, <1>3 DEF Goes, HistoriesGrow
<1>4. CASE UNCHANGED <<unheard, disturbed, cancelled>>
  BY <1>1, <1>4 DEF HistoriesGrow
<1>5. ASSUME NEW h \in Handlers, NEW r \in Runs, NEW mode \in Modes, NEW env \in Envelopes,
             NEW ml \in Items, NEW tracked \in BOOLEAN, RunProcurement(h, r, mode, env, ml, tracked)
      PROVE  HistoriesGrow
  BY <1>2, <1>5 DEF RunProcurement
<1>6. ASSUME NEW h \in Handlers, NEW r \in Runs, NEW i \in Items,
             NEW bargain \in Bargains \cup {Total[i]}, DecideRun(h, r, i, bargain)
      PROVE  HistoriesGrow
  BY <1>2, <1>6 DEF DecideRun
<1>7. ASSUME NEW h \in Handlers, NEW r \in Runs, NEW i \in Items, NEW gated \in BOOLEAN,
             Commit(h, r, i, gated)
      PROVE  HistoriesGrow
  BY <1>2, <1>7 DEF Commit
<1>8. ASSUME NEW h \in Handlers, NEW r \in Runs, RejectRun(h, r) \/ Approve(h, r) \/ Refuse(h, r)
      PROVE  HistoriesGrow
  BY <1>2, <1>8 DEF RejectRun, Approve, Refuse
<1>9. ASSUME NEW r \in Runs, Cancel(r) \/ Expire(r)
      PROVE  HistoriesGrow
  BY <1>1, <1>9 DEF Cancel, Expire, HistoriesGrow
<1>10. ASSUME NEW h \in Handlers,
              \/ BudgetAllows(h) \/ BudgetDenies(h) \/ Mark(h) \/ Park(h) \/ MarkCancelled(h)
              \/ Settle(h) \/ Record(h) \/ Finish(h) \/ Close(h)
       PROVE  HistoriesGrow
  <2>1. unheard' = unheard
    BY <1>10 DEF BudgetAllows, BudgetDenies, Mark, Park, MarkCancelled, Settle, Record, Finish, Close
  <2>2. \E from, to : Goes(h, from, to)
    BY <1>10 DEF BudgetAllows, BudgetDenies, Mark, Park, MarkCancelled, Settle, Record, Finish, Close
  <2> QED
    BY <1>1, <1>3, <2>1, <2>2
<1>11. ASSUME NEW h \in Handlers, NEW reached \in BOOLEAN,
              Confirm(h) \/ ConfirmUnanswered(h, reached) \/ MockOrder(h, reached)
       PROVE  HistoriesGrow
  <2>1. unheard' = unheard \/ unheard' = unheard \cup {h}
    BY <1>11 DEF Confirm, ConfirmUnanswered, MockOrder
  <2>2. \E from, to : Goes(h, from, to)
    BY <1>11 DEF Confirm, ConfirmUnanswered, MockOrder
  <2> QED
    BY <1>1, <1>3, <2>1, <2>2
<1>12. CASE Restart
  BY <1>4, <1>12 DEF Restart
<1>13. CASE UNCHANGED vars
  BY <1>4, <1>13 DEF vars
<1>14. CASE Next
  BY <1>5, <1>6, <1>7, <1>8, <1>9, <1>10, <1>11, <1>12, <1>14 DEF Next
<1> QED
  BY <1>13, <1>14

(* RunInv holds in every reachable state. *)
THEOREM RunInvariant == Spec => []RunInv
<1>1. RunInv /\ [Next]_vars => RunInv'
  <2> SUFFICES ASSUME RunInv, [Next]_vars PROVE RunInv'
    OBVIOUS
  <2>1. Step /\ CoreTypes' /\ SessionsLater /\ ErpLater
    BY NextIsKept DEF Kept
  <2>2. TypeOK'
    BY <2>1, HistoryStep DEF RunInv, CoreTypes, TypeOK, HistoriesGrow
  <2> QED
    BY <2>1, <2>2, QueueStep, RequestHasRunStep, LicenceStep, RecordedStep, SnapshotStep,
       SessionStep, ErpStep DEF RunInv
<1> QED
  BY <1>1, InitRunInv, PTL DEF Spec

-----------------------------------------------------------------------------
(* What follows. *)

(* Every variable has its type, in every reachable state. *)
THEOREM TypeCorrect == Spec => []TypeOK
<1>1. RunInv => TypeOK
  BY DEF RunInv
<1> QED
  BY <1>1, RunInvariant, PTL

(* An order above the threshold has passed an approver, but for what the   *)
(* routes do not compare: a role that the gate of POST /commit does not    *)
(* name, a price given by the body of a decision, a price that cannot be   *)
(* read.                                                                   *)
THEOREM LargeOrdersAreApproved == Spec => []LargeNeedsApprover
<1>1. RunInv => LargeNeedsApprover
  BY DEF RunInv, TypeOK, OrdersAreLicensed, LargeNeedsApprover, Licensed, NotCompared,
         OverThreshold, TotalRead
<1> QED
  BY <1>1, RunInvariant, PTL

(* The agent orders on its own only where mode and ERP let it. *)
THEOREM AutonomyHasALicence == Spec => []AutonomyIsLicensed
<1>1. RunInv => AutonomyIsLicensed
  BY DEF RunInv, TypeOK, OrdersAreLicensed, AutonomyIsLicensed, Licensed
<1> QED
  BY <1>1, RunInvariant, PTL

(* What the ERP forbids to commit, no run and no decision orders. *)
THEOREM ErpBlocksHold == Spec => []ErpBlockRespected
<1>1. RunInv => ErpBlockRespected
  BY DEF RunInv, TypeOK, OrdersAreLicensed, ErpBlockRespected, Licensed, ErpForcesApproval
<1> QED
  BY <1>1, RunInvariant, PTL

(* What evaluate_commit escalates is ordered by an approver, or by         *)
(* POST /commit, which does not ask it.                                    *)
THEOREM PolicyGatesOrders == Spec => []PolicyGatesDecisions
<1>1. RunInv => PolicyGatesDecisions
  BY DEF RunInv, TypeOK, OrdersAreLicensed, PolicyGatesDecisions, Licensed, Proceeds,
         ErpForcesApproval
<1> QED
  BY <1>1, RunInvariant, PTL

(* A session shows no order but one that the seller has for that run, or   *)
(* that a confirm of that run stands for which nobody answered.            *)
THEOREM ShownOrdersAreReal == Spec => []SessionOrderIsReal
<1>1. RunInv => SessionOrderIsReal
  BY DEF RunInv, SessionsAreReal, RealSession, RealOrder, Vouched, SessionOrderIsReal
<1> QED
  BY <1>1, RunInvariant, PTL

(* The ERP is handed no other order either.                                *)
THEOREM ErpOrdersAreReal == Spec => []ErpHoldsRealOrders
<1>1. RunInv => ErpHoldsRealOrders
  BY DEF RunInv, ErpOrdersAreOwn, RealOrder, Vouched, ErpHoldsRealOrders
<1> QED
  BY <1>1, RunInvariant, PTL

(* However sellers answer, session and ERP hold no order of another run.   *)
THEOREM OrdersStayWithTheirRun == Spec => [](SessionsAreReal /\ ErpOrdersAreOwn)
<1>1. RunInv => SessionsAreReal /\ ErpOrdersAreOwn
  BY DEF RunInv
<1> QED
  BY <1>1, RunInvariant, PTL

-----------------------------------------------------------------------------
(* One request of a run at a time: SerialInv is inductive.  A step of a run *)
(* that is disturbed, or becomes so, leaves the other runs alone; the      *)
(* lemmas about the single actions are about the runs that are not.        *)

(* A step of handler h on run r. *)
Touches(h, r) ==
  /\ req' \in [Handlers -> Request]
  /\ \A g \in Handlers : g # h => req'[g] = req[g]
  /\ req'[h].run = r
  /\ req[h].pc = "idle" \/ req[h].run = r
  /\ \A s \in Runs : s # r =>
       /\ run'[s] = run[s] /\ session'[s] = session[s]
       /\ pending'[s] = pending[s] /\ db'[s] = db[s]
  /\ orders' = orders \/ orders' = orders \cup {h}
  /\ faults' = 0 => faults = 0
  /\ disturbed \subseteq disturbed' /\ cancelled' = cancelled

(* What holds of another run goes on to hold. *)
LEMMA Elsewhere ==
  ASSUME RunInv, SerialInv, NEW h \in Handlers, NEW r \in Runs, Touches(h, r),
         NEW s \in Runs \ disturbed', s # r
  PROVE  RunSerial(s)'
<1>1. RunSerial(s) /\ RequestHasRun
  BY DEF SerialInv, RunInv, Touches
<1>2. \A g \in Handlers : InFlight(g)' /\ req'[g].run = s => g # h /\ req'[g] = req[g] /\ InFlight(g)
  BY DEF Touches, InFlight
<1>3. \A g \in Handlers : InFlight(g) /\ req[g].run = s => g # h /\ req'[g] = req[g] /\ InFlight(g)'
  BY DEF Touches, InFlight
<1>4. \A g \in Handlers : g \in orders' /\ req'[g].run = s => g # h /\ req'[g] = req[g] /\ g \in orders
  BY DEF Touches
<1>5. \A g \in Handlers : g \in orders /\ req[g].run = s => g # h /\ req'[g] = req[g] /\ g \in orders'
  BY <1>1 DEF Touches, RequestHasRun
<1>6. orders \in SUBSET Handlers /\ orders' \in SUBSET Handlers
  BY DEF RunInv, TypeOK, Touches
<1>7. (Ordered(s)' <=> Ordered(s)) /\ (Quiet(s)' <=> Quiet(s))
  BY <1>2, <1>3, <1>4, <1>5, <1>6 DEF Ordered, Quiet
<1>8. Refused(s) => Refused(s)'
  BY DEF Refused, Touches
<1>9. /\ run'[s] = run[s] /\ session'[s] = session[s]
      /\ pending'[s] = pending[s] /\ db'[s] = db[s]
      /\ faults' = 0 => faults = 0
      /\ cancelled' = cancelled
  BY DEF Touches
<1>10. AtRest(s) => AtRest(s)'
  BY <1>7, <1>8, <1>9 DEF AtRest, Final, Told, AwaitsRequester
<1>11. \A g \in Handlers : InFlight(g)' /\ req'[g].run = s => Underway(g)'
  <2> SUFFICES ASSUME NEW g \in Handlers, InFlight(g)', req'[g].run = s PROVE Underway(g)'
    OBVIOUS
  <2>1. g # h /\ req'[g] = req[g] /\ InFlight(g)
    BY <1>2
  <2>2. Underway(g)
    BY <1>1, <2>1 DEF RunSerial
  <2>3. g \in orders' => g \in orders
    BY <2>1, <1>4
  <2>4. \A k \in orders' : req'[k].run = s => k = g
    BY <1>4, <1>6, <2>1, <2>2 DEF Underway
  <2> QED
    BY <1>9, <2>1, <2>2, <2>3, <2>4 DEF Underway, Final, Told
<1>12. \A g, k \in Handlers :
        InFlight(g)' /\ InFlight(k)' /\ req'[g].run = s /\ req'[k].run = s => g = k
  BY <1>1, <1>2 DEF RunSerial
<1>13. \A g, k \in orders' : req'[g].run = s /\ req'[k].run = s => g = k
  BY <1>1, <1>4, <1>6 DEF RunSerial
<1> QED
  BY <1>1, <1>7, <1>9, <1>10, <1>11, <1>12, <1>13 DEF RunSerial

(* What holds of the run itself, if the handler leaves it so. *)
LEMMA Here ==
  ASSUME RunInv, SerialInv, NEW h \in Handlers, NEW r \in Runs \ disturbed', Touches(h, r),
         run'[r].known, req'[h].pc # "idle",
         (InFlight(h) /\ req[h].run = r)
           \/ (Quiet(r) /\ req[h].pc = "idle" /\ orders' = orders),
         InFlight(h)' => Underway(h)',
         ~InFlight(h)' => AtRest(r)'
  PROVE  RunSerial(r)'
<1>1. RunSerial(r) /\ RequestHasRun /\ orders \in SUBSET Handlers
  BY DEF SerialInv, RunInv, TypeOK, Touches
<1>2. \A g \in Handlers : InFlight(g)' /\ req'[g].run = r => g = h
  BY <1>1 DEF Touches, InFlight, Quiet, RunSerial
<1>3. \A g, k \in orders' : req'[g].run = r /\ req'[k].run = r => g = k
  <2>1. CASE Quiet(r) /\ req[h].pc = "idle" /\ orders' = orders
    <3>1. \A g \in orders : g # h /\ req'[g] = req[g]
      BY <1>1, <2>1 DEF RequestHasRun, Touches
    <3> QED
      BY <1>1, <2>1, <3>1 DEF RunSerial
  <2>2. CASE InFlight(h) /\ req[h].run = r
    <3>1. \A g \in orders : req[g].run = r => g = h
      BY <1>1, <2>2 DEF RunSerial, Underway
    <3>2. \A g \in orders' : req'[g].run = r => g = h
      BY <1>1, <3>1 DEF Touches
    <3> QED
      BY <3>2
  <2> QED
    BY <2>1, <2>2
<1>4. Quiet(r)' => ~InFlight(h)'
  BY DEF Quiet, Touches
<1>5. ~InFlight(h)' => AtRest(r)'
  OBVIOUS
<1>6. \A g \in Handlers : InFlight(g)' /\ req'[g].run = r => Underway(g)'
  BY <1>2
<1>7. \A g, k \in Handlers :
        InFlight(g)' /\ InFlight(k)' /\ req'[g].run = r /\ req'[k].run = r => g = k
  BY <1>2
<1> QED
  BY <1>3, <1>4, <1>5, <1>6, <1>7 DEF RunSerial

(* Both together. *)
LEMMA OneHandlerStep ==
  ASSUME RunInv, SerialInv, NEW h \in Handlers, NEW r \in Runs, Touches(h, r),
         run'[r].known, req'[h].pc # "idle",
         (InFlight(h) /\ req[h].run = r)
           \/ (Quiet(r) /\ req[h].pc = "idle" /\ orders' = orders),
         InFlight(h)' => Underway(h)',
         ~InFlight(h)' => AtRest(r)'
  PROVE  SerialInv'
BY Elsewhere, Here DEF SerialInv

(* A request is taken up, of a run that has none in flight. *)
LEMMA ArrivalTouches ==
  ASSUME RunInv, NEW h \in Handlers, NEW r \in Runs, r \notin disturbed', NEW kind \in Kinds,
         NEW item \in Items \cup {NoItem}, NEW pc \in Pcs, NEW terms \in Terms,
         Arrives(h, r, kind, item, pc, terms),
         \A s \in Runs : s # r =>
           /\ run'[s] = run[s] /\ session'[s] = session[s]
           /\ pending'[s] = pending[s] /\ db'[s] = db[s],
         UNCHANGED <<orders, faults>>
  PROVE  /\ Touches(h, r) /\ Quiet(r) /\ req[h].pc = "idle" /\ h \notin orders
         /\ Ordered(r)' <=> Ordered(r)
         /\ req'[h].kind = kind /\ req'[h].run = r /\ req'[h].pc = pc
         /\ req'[h].snap = session[r]
         /\ ~Ordered(r) => \A g \in orders' : req'[g].run # r
<1>1. /\ req' \in [Handlers -> Request]
      /\ \A g \in Handlers : g # h => req'[g] = req[g]
      /\ req[h].pc = "idle"
      /\ req'[h].kind = kind /\ req'[h].run = r /\ req'[h].pc = pc
      /\ req'[h].snap = session[r]
  BY ArrivesShape DEF RunInv
<1>2. Quiet(r) /\ UNCHANGED <<disturbed, cancelled>>
  BY DEF Arrives, Orderly
<1>3. h \notin orders /\ orders \in SUBSET Handlers
  BY <1>1 DEF RunInv, RequestHasRun, TypeOK
<1>4. \A g \in orders' : g \in Handlers /\ g \in orders /\ req'[g] = req[g]
  BY <1>1, <1>3
<1>5. Ordered(r)' <=> Ordered(r)
  BY <1>1, <1>3, <1>4 DEF Ordered
<1>6. Touches(h, r)
  BY <1>1, <1>2 DEF Touches
<1> QED
  BY <1>1, <1>2, <1>3, <1>4, <1>5, <1>6 DEF Ordered

(* A run that is not there has no order, no entry and no status.           *)
LEMMA UnknownRun ==
  ASSUME RunInv, SerialInv, NEW r \in Runs \ disturbed, ~run[r].known
  PROVE  pending[r] = NoItem /\ ~Ordered(r) /\ db[r] = "open" /\ Quiet(r)
<1>1. pending[r] = NoItem
  BY DEF RunInv, QueueHasRun
<1>2. ~Ordered(r) /\ Quiet(r)
  BY DEF RunInv, RequestHasRun, Ordered, Quiet, InFlight, TypeOK
<1> QED
  BY <1>1, <1>2 DEF SerialInv, RunSerial

(* POST /run *)
LEMMA SerialRun ==
  ASSUME RunInv, SerialInv, NEW h \in Handlers, NEW r \in Runs, r \notin disturbed', NEW mode \in Modes,
         NEW env \in Envelopes, NEW ml \in Items, NEW tracked \in BOOLEAN,
         RunProcurement(h, r, mode, env, ml, tracked)
  PROVE  SerialInv'
<1> DEFINE plan == [known |-> TRUE, mode |-> mode, env |-> env, ml |-> ml, tracked |-> tracked]
           decision == Evaluate(mode, env, ml)
           fresh == [NoSession EXCEPT !.stage = decision.stage]
<1>1. run \in [Runs -> Plan] /\ session \in [Runs -> Session]
      /\ pending \in [Runs -> Items \cup {NoItem}]
  BY DEF RunInv, TypeOK
<1>2. ~run[r].known /\ pending[r] = NoItem /\ ~Ordered(r) /\ db[r] = "open"
  BY UnknownRun DEF RunProcurement, Arrives
<1>3. decision.final \in Items
  BY RunAssumption, AdjustedIsItem DEF Evaluate
<1>4. run' = [run EXCEPT ![r] = plan] /\ UNCHANGED <<db, orders, faults, cancelled>>
  BY DEF RunProcurement, Arrives
<1>5. session' = [session EXCEPT ![r] = fresh]
  BY DEF RunProcurement, SessionPut
<1>6. fresh.stage = decision.stage
  BY DEF NoSession
<1> HIDE DEF decision
<1>7. plan.known /\ plan.tracked = tracked
  OBVIOUS
<1> HIDE DEF plan, fresh
<1>8. run'[r] = plan /\ session'[r] = fresh
      /\ \A s \in Runs : s # r => run'[s] = run[s] /\ session'[s] = session[s]
  BY <1>1, <1>4, <1>5
<1>9. \A s \in Runs : s # r => pending'[s] = pending[s] /\ db'[s] = db[s]
  BY <1>1, <1>4 DEF RunProcurement
<1> USE DEF Kinds, Pcs
<1>10. CASE /\ decision.stage \in {"awaiting_selection", "awaiting_approval"}
            /\ Arrives(h, r, "run", ml, "done", Listed(ml)) /\ UNCHANGED pending
  <2>1. /\ Touches(h, r) /\ Quiet(r) /\ req[h].pc = "idle" /\ req'[h].pc = "done"
        /\ ~Ordered(r)'
    BY <1>2, <1>4, <1>8, <1>9, <1>10, TermsTyped, ArrivalTouches
  <2>2. ~InFlight(h)'
    BY <2>1 DEF InFlight
  <2>3. AtRest(r)'
    BY <1>2, <1>4, <1>6, <1>8, <1>10, <2>1 DEF AtRest, Final, Told, NoItem
  <2> QED
    BY <1>4, <1>7, <1>8, <2>1, <2>2, <2>3, OneHandlerStep
<1>11. CASE /\ decision.stage = "awaiting_rbac_approval"
            /\ Arrives(h, r, "run", decision.final, "marking", Listed(decision.final))
            /\ pending' = [pending EXCEPT ![r] = IF tracked THEN decision.final ELSE @]
  <2>1. /\ Touches(h, r) /\ Quiet(r) /\ req[h].pc = "idle" /\ req'[h].pc = "marking"
        /\ req'[h].kind = "run" /\ h \notin orders /\ req'[h].run = r
        /\ \A g \in orders' : req'[g].run # r
    BY <1>2, <1>3, <1>4, <1>8, <1>9, <1>11, TermsTyped, ArrivalTouches
  <2>2. tracked => pending'[r] # NoItem
    BY <1>1, <1>3, <1>11, PolicyAssumption DEF NoItem, Items
  <2>3. Underway(h)'
    BY <1>2, <1>4, <1>6, <1>7, <1>8, <1>11, <2>1, <2>2 DEF Underway, Stands, Final, Told
  <2>4. InFlight(h)'
    BY <2>1 DEF InFlight
  <2> QED
    BY <1>4, <1>7, <1>8, <2>1, <2>3, <2>4, OneHandlerStep
<1>12. CASE decision.stage = "auto_commit" /\ Arrives(h, r, "run", ml, "ordering", Listed(ml))
            /\ UNCHANGED pending
  <2>1. /\ Touches(h, r) /\ Quiet(r) /\ req[h].pc = "idle" /\ req'[h].pc = "ordering"
        /\ req'[h].kind = "run" /\ h \notin orders /\ req'[h].run = r
        /\ \A g \in orders' : req'[g].run # r
    BY <1>2, <1>4, <1>8, <1>9, <1>12, TermsTyped, ArrivalTouches
  <2>2. Underway(h)'
    BY <1>2, <1>4, <1>12, <2>1 DEF Underway, Stands, Final, Told
  <2>3. InFlight(h)'
    BY <2>1 DEF InFlight
  <2> QED
    BY <1>4, <1>7, <1>8, <2>1, <2>2, <2>3, OneHandlerStep
<1> QED
  BY <1>10, <1>11, <1>12 DEF RunProcurement, decision

(* What a request of a known run finds, nothing else of it being in flight. *)
LEMMA FoundAtRest ==
  ASSUME SerialInv, NEW r \in Runs \ disturbed, run[r].known, Quiet(r)
  PROVE  AtRest(r)
BY DEF SerialInv, RunSerial

(* A decision of the requester. *)
LEMMA SerialDecide ==
  ASSUME RunInv, SerialInv, NEW h \in Handlers, NEW r \in Runs, r \notin disturbed', NEW i \in Items,
         NEW bargain \in Bargains \cup {Total[i]}, DecideRun(h, r, i, bargain)
  PROVE  SerialInv'
<1>1. pending \in [Runs -> Items \cup {NoItem}] /\ run[r] \in Plan
  BY DEF RunInv, TypeOK
<1>2. UNCHANGED <<run, session, db, orders, faults, cancelled>> /\ run[r].known
  BY DEF DecideRun, Arrives
<1>3. AwaitsRequester(r)
  BY DEF DecideRun, Choices, AwaitsRequester
<1>4. Quiet(r) /\ r \notin disturbed
  BY DEF DecideRun, Arrives, Orderly
<1>5. /\ pending[r] = NoItem /\ ~Ordered(r) /\ ~Final(r)
      /\ Told(r) => db[r] # "pending_approval"
  BY <1>2, <1>3, <1>4, FoundAtRest DEF AtRest, AwaitsRequester
<1> USE DEF Kinds, Pcs
<1>6. CASE /\ Arrives(h, r, "decide", i, "ordering", [Listed(i) EXCEPT !.amount = bargain])
           /\ UNCHANGED pending
  <2>1. /\ Touches(h, r) /\ Quiet(r) /\ req[h].pc = "idle" /\ req'[h].pc = "ordering"
        /\ req'[h].kind = "decide" /\ h \notin orders /\ req'[h].run = r
        /\ \A g \in orders' : req'[g].run # r
    BY <1>2, <1>5, <1>6, TermsTyped, ArrivalTouches
  <2>2. Underway(h)'
    BY <1>2, <1>5, <1>6, <2>1 DEF Underway, Stands, Final, Told
  <2>3. InFlight(h)'
    BY <2>1 DEF InFlight
  <2> QED
    BY <1>2, <2>1, <2>2, <2>3, OneHandlerStep
<1>7. CASE Arrives(h, r, "decide", i, "marking", Listed(i)) /\ Enqueue(r, i)
  <2>1. /\ \A s \in Runs : s # r => pending'[s] = pending[s]
        /\ run[r].tracked => pending'[r] # NoItem
    BY <1>1, <1>7, PolicyAssumption DEF Enqueue, NoItem, Items
  <2>2. /\ Touches(h, r) /\ Quiet(r) /\ req[h].pc = "idle" /\ req'[h].pc = "marking"
        /\ req'[h].kind = "decide" /\ h \notin orders /\ req'[h].run = r
        /\ \A g \in orders' : req'[g].run # r
    BY <1>2, <1>5, <1>7, <2>1, TermsTyped, ArrivalTouches
  <2>3. Underway(h)'
    BY <1>2, <1>5, <2>1, <2>2 DEF Underway, Stands, Final, Told
  <2>4. InFlight(h)'
    BY <2>2 DEF InFlight
  <2> QED
    BY <1>2, <2>2, <2>3, <2>4, OneHandlerStep
<1> QED
  BY <1>6, <1>7 DEF DecideRun

(* A rejection, while the run awaits its requester. *)
LEMMA SerialReject ==
  ASSUME RunInv, SerialInv, NEW h \in Handlers, NEW r \in Runs, r \notin disturbed', RejectRun(h, r)
  PROVE  SerialInv'
<1>1. session \in [Runs -> Session]
  BY DEF RunInv, TypeOK
<1>2. UNCHANGED <<run, pending, db, orders, faults, cancelled>> /\ run[r].known /\ AwaitsRequester(r)
  BY DEF RejectRun, Arrives, Orderly
<1>3. Quiet(r) /\ r \notin disturbed
  BY DEF RejectRun, Arrives, Orderly
<1>4. AtRest(r) /\ pending[r] = NoItem /\ ~Ordered(r) /\ ~Final(r)
  BY <1>2, <1>3, FoundAtRest DEF AtRest, AwaitsRequester
<1> USE DEF Kinds, Pcs
<1>5. CASE /\ SessionPut(r, [session[r] EXCEPT !.stage = "awaiting_selection"])
           /\ Arrives(h, r, "reject", NoItem, "done", NoTerms)
  <2>1. /\ \A s \in Runs : s # r => session'[s] = session[s]
        /\ session'[r].stage = "awaiting_selection"
    BY <1>1, <1>5 DEF SessionPut, Session
  <2>2. /\ Touches(h, r) /\ Quiet(r) /\ req[h].pc = "idle" /\ req'[h].pc = "done"
        /\ ~Ordered(r)'
    <3>1. NoItem \in Items \cup {NoItem} /\ "reject" \in Kinds /\ "done" \in Pcs /\ NoTerms \in Terms
      BY TermsTyped
    <3>2. Arrives(h, r, "reject", NoItem, "done", NoTerms)
      BY <1>5
    <3>3. \A s \in Runs : s # r => /\ run'[s] = run[s] /\ session'[s] = session[s]
                                  /\ pending'[s] = pending[s] /\ db'[s] = db[s]
      BY <1>2, <2>1
    <3> QED
      BY <1>2, <1>4, <3>1, <3>2, <3>3, ArrivalTouches
  <2>3. ~InFlight(h)'
    BY <2>2 DEF InFlight
  <2>4. AtRest(r)'
    BY <1>2, <1>4, <2>1, <2>2 DEF AtRest, Final, Told
  <2> QED
    BY <1>2, <2>2, <2>3, <2>4, OneHandlerStep
<1>6. CASE Arrives(h, r, "reject", NoItem, "cancelling", NoTerms) /\ UNCHANGED session
  <2>0. /\ "reject" \in Kinds /\ "cancelling" \in Pcs /\ NoItem \in Items \cup {NoItem}
        /\ NoTerms \in Terms
        /\ \A s \in Runs : s # r =>
             /\ run'[s] = run[s] /\ session'[s] = session[s]
             /\ pending'[s] = pending[s] /\ db'[s] = db[s]
    BY <1>2, <1>6, TermsTyped
  <2> HIDE DEF Kinds, Pcs
  <2>1. /\ Touches(h, r) /\ Quiet(r) /\ req[h].pc = "idle" /\ req'[h].pc = "cancelling"
        /\ req'[h].kind = "reject" /\ h \notin orders /\ req'[h].run = r
        /\ \A g \in orders' : req'[g].run # r
    BY <1>2, <1>4, <1>6, <2>0, ArrivalTouches
  <2>2. Underway(h)'
    BY <1>2, <1>4, <2>1 DEF Underway, Stands, Final, Told
  <2>3. InFlight(h)'
    BY <2>1 DEF InFlight
  <2> QED
    BY <1>2, <2>1, <2>2, <2>3, OneHandlerStep
<1> QED
  BY <1>5, <1>6 DEF RejectRun

(* The approver takes up what is queued. *)
LEMMA SerialApprover ==
  ASSUME RunInv, SerialInv, NEW h \in Handlers, NEW r \in Runs, r \notin disturbed',
         Approve(h, r) \/ Refuse(h, r)
  PROVE  SerialInv'
<1>1. pending[r] \in Items \cup {NoItem}
  BY DEF RunInv, TypeOK
<1>2. UNCHANGED <<run, session, pending, db, orders, faults, cancelled>> /\ pending[r] # NoItem
  BY DEF Approve, Refuse, Arrives
<1>3. run[r].known
  BY <1>2 DEF RunInv, QueueHasRun
<1>4. Quiet(r) /\ r \notin disturbed
  BY DEF Approve, Refuse, Arrives, Orderly
<1>5. ~Ordered(r) /\ ~Final(r) /\ session[r].stage \in {"none", "awaiting_rbac_approval"}
  BY <1>2, <1>3, <1>4, FoundAtRest DEF AtRest
<1> USE DEF Kinds, Pcs
<1>6. ASSUME NEW pc \in Pcs, NEW kind \in Kinds, Arrives(h, r, kind, pending[r], pc, Listed(pending[r])),
             \/ kind = "approve" /\ pc = (IF session[r].stage = "none" THEN "closing" ELSE "ordering")
             \/ kind = "refuse" /\ pc = "cancelling"
      PROVE  SerialInv'
  <2>1. /\ Touches(h, r) /\ Quiet(r) /\ req[h].pc = "idle" /\ req'[h].pc = pc
        /\ req'[h].kind = kind /\ h \notin orders /\ req'[h].run = r
        /\ req'[h].snap = session[r]
        /\ \A g \in orders' : req'[g].run # r
    BY <1>1, <1>2, <1>5, <1>6, TermsTyped, ArrivalTouches
  <2>2. Underway(h)'
    BY <1>2, <1>5, <1>6, <2>1 DEF Underway, Stands, Final, Told
  <2>3. InFlight(h)'
    BY <1>6, <2>1 DEF InFlight
  <2> QED
    BY <1>2, <1>3, <2>1, <2>2, <2>3, OneHandlerStep DEF InFlight
<1> QED
  BY <1>6 DEF Approve, Refuse

(* A request goes on to its next await. *)
LEMMA MoveTouches ==
  ASSUME RunInv, SerialInv, NEW h \in Handlers, req[h].run \notin disturbed,
         NEW from, NEW to \in Pcs, Goes(h, from, to),
         from \notin {"idle", "done"}, to # "idle",
         run' = run,
         \A s \in Runs : s # req[h].run =>
           /\ session'[s] = session[s] /\ pending'[s] = pending[s] /\ db'[s] = db[s],
         orders' = orders \/ orders' = orders \cup {h},
         faults' = 0 => faults = 0
  PROVE  /\ req[h].run \in Runs /\ Touches(h, req[h].run) /\ InFlight(h) /\ Underway(h)
         /\ req[h].pc = from /\ req'[h].pc = to
         /\ req'[h].kind = req[h].kind
         /\ req'[h].run = req[h].run
         /\ req'[h].snap = req[h].snap
         /\ run'[req[h].run].known
         /\ \A g \in orders' : req'[g].run = req[h].run => g = h
         /\ Ordered(req[h].run)' <=> h \in orders'
<1>1. /\ req' \in [Handlers -> Request]
      /\ \A g \in Handlers : g # h => req'[g] = req[g]
      /\ req[h].pc = from
      /\ req'[h].pc = to
      /\ req'[h].kind = req[h].kind
      /\ req'[h].run = req[h].run
      /\ req'[h].snap = req[h].snap
  BY GoesShape DEF RunInv
<1>2. req[h].run \in Runs /\ run[req[h].run].known
  BY <1>1 DEF RunInv, RequestHasRun
<1>3. InFlight(h)
  BY <1>1 DEF InFlight
<1>4. Underway(h) /\ orders \in SUBSET Handlers
  BY <1>2, <1>3 DEF SerialInv, RunSerial, RunInv, TypeOK
<1>5. Touches(h, req[h].run) /\ disturbed' = disturbed
  BY <1>1, <1>2 DEF Touches, Goes
<1>6. \A g \in orders : req[g].run = req[h].run => g = h
  BY <1>4 DEF Underway
<1>7. \A g \in orders' : req'[g].run = req[h].run => g = h
  BY <1>1, <1>4, <1>6
<1>8. Ordered(req[h].run)' <=> h \in orders'
  BY <1>1, <1>7 DEF Ordered
<1> QED
  BY <1>1, <1>2, <1>3, <1>4, <1>5, <1>7, <1>8

(* A status written, or lost by a fault. *)
LEMMA PersistShape ==
  ASSUME RunInv, NEW r \in Runs, NEW status, Persist(r, status)
  PROVE  /\ \A s \in Runs : s # r => db'[s] = db[s]
         /\ db'[r] = db[r] \/ db'[r] = status
         /\ faults' = 0 => faults = 0 /\ (run[r].tracked => db'[r] = status)
<1>1. db \in [Runs -> {"open", "pending_approval", "confirmed", "cancelled"}] /\ faults \in Nat
  BY DEF RunInv, TypeOK
<1> QED
  BY <1>1 DEF Persist, Fault

(* A PATCH of the status comes back. *)
LEMMA SerialPatch ==
  ASSUME RunInv, SerialInv, NEW h \in Handlers, req[h].run \notin disturbed,
         Mark(h) \/ MarkCancelled(h) \/ Record(h) \/ Close(h)
  PROVE  SerialInv'
<1> DEFINE r == req[h].run
<1>1. UNCHANGED <<run, session, pending, orders, erp, cancelled>>
  BY DEF Mark, MarkCancelled, Record, Close, Goes
<1>2. InFlight(h)
  BY DEF Mark, MarkCancelled, Record, Close, Goes, InFlight
<1>3. r \in Runs
  BY <1>2 DEF InFlight, RunInv, RequestHasRun
<1> USE DEF Pcs
<1>4. CASE Mark(h)
  <2> DEFINE to == IF req[h].kind = "run" THEN "done" ELSE "parking"
  <2>1. /\ \A s \in Runs : s # r => db'[s] = db[s]
        /\ db'[r] = db[r] \/ db'[r] = "pending_approval"
        /\ faults' = 0 => faults = 0 /\ (run[r].tracked => db'[r] = "pending_approval")
    BY <1>3, <1>4, PersistShape DEF Mark
  <2>2. to \in {"done", "parking"} /\ Goes(h, "marking", to)
    BY <1>4 DEF Mark
  <2> HIDE DEF to
  <2>3. /\ Touches(h, r) /\ Underway(h)
        /\ req[h].pc = "marking" /\ req'[h].pc = to
        /\ req'[h].kind = req[h].kind /\ req'[h].run = r /\ req'[h].snap = req[h].snap
        /\ run'[r].known
        /\ \A g \in orders' : req'[g].run = r => g = h
        /\ Ordered(r)' <=> h \in orders'
    BY <1>1, <1>3, <2>1, <2>2, MoveTouches
  <2>4. /\ h \notin orders' /\ ~Final(r)'
        /\ run[r].tracked => pending[r] # NoItem
    BY <1>1, <2>1, <2>3 DEF Underway, Final
  <2>5. CASE req[h].kind = "run"
    <3>1. to = "done" /\ ~InFlight(h)'
      BY <2>3, <2>5 DEF InFlight, to
    <3>2. session[r].stage = "awaiting_rbac_approval"
      BY <2>3, <2>5 DEF Underway
    <3>3. AtRest(r)'
      BY <1>1, <2>1, <2>3, <2>4, <3>2 DEF AtRest, Told, AwaitsRequester, Refused
    <3> QED
      BY <1>2, <1>3, <2>2, <2>3, <3>1, <3>3, OneHandlerStep
  <2>6. CASE req[h].kind # "run"
    <3>1. to = "parking" /\ InFlight(h)'
      BY <2>3, <2>6 DEF InFlight, to
    <3>2. Underway(h)'
      BY <1>1, <2>1, <2>3, <2>4, <2>6, <3>1 DEF Underway, Stands, Told
    <3> QED
      BY <1>2, <1>3, <2>3, <3>1, <3>2, OneHandlerStep
  <2> QED
    BY <2>5, <2>6
<1>5. CASE MarkCancelled(h)
  <2>1. /\ \A s \in Runs : s # r => db'[s] = db[s]
        /\ faults' = 0 => faults = 0 /\ (run[r].tracked => db'[r] = "cancelled")
    BY <1>3, <1>5, PersistShape DEF MarkCancelled
  <2>2. /\ Touches(h, r) /\ Underway(h)
        /\ req[h].pc = "cancelling" /\ req'[h].pc = "settling"
        /\ req'[h].kind = req[h].kind /\ req'[h].run = r /\ req'[h].snap = req[h].snap
        /\ run'[r].known
        /\ \A g \in orders' : req'[g].run = r => g = h
    BY <1>1, <1>3, <1>5, <2>1, MoveTouches DEF MarkCancelled
  <2>3. InFlight(h)'
    BY <2>2 DEF InFlight
  <2>4. Underway(h)'
    BY <1>1, <2>1, <2>2 DEF Underway, Stands, Final, Told
  <2> QED
    BY <1>2, <1>3, <2>2, <2>3, <2>4, OneHandlerStep
<1>6. CASE Record(h)
  <2>1. /\ \A s \in Runs : s # r => db'[s] = db[s]
        /\ faults' = 0 => faults = 0 /\ (run[r].tracked => db'[r] = "confirmed")
    BY <1>3, <1>6, PersistShape DEF Record
  <2>2. /\ Touches(h, r) /\ Underway(h)
        /\ req[h].pc = "recording" /\ req'[h].pc = "finishing"
        /\ req'[h].kind = req[h].kind /\ req'[h].run = r /\ req'[h].snap = req[h].snap
        /\ run'[r].known
        /\ \A g \in orders' : req'[g].run = r => g = h
    BY <1>1, <1>3, <1>6, <2>1, MoveTouches DEF Record
  <2>3. InFlight(h)'
    BY <2>2 DEF InFlight
  <2>4. Underway(h)'
    BY <1>1, <2>1, <2>2 DEF Underway, Stands, Final, Told
  <2> QED
    BY <1>2, <1>3, <2>2, <2>3, <2>4, OneHandlerStep
<1>7. CASE Close(h)
  <2> DEFINE to == IF req[h].snap.stage = "none" THEN "settling" ELSE "done"
  <2>1. /\ \A s \in Runs : s # r => db'[s] = db[s]
        /\ db'[r] = db[r] \/ db'[r] = "confirmed"
        /\ faults' = 0 => faults = 0 /\ (run[r].tracked => db'[r] = "confirmed")
    BY <1>3, <1>7, PersistShape DEF Close
  <2>2. to \in {"done", "settling"} /\ Goes(h, "closing", to)
    BY <1>7 DEF Close
  <2> HIDE DEF to
  <2>3. /\ Touches(h, r) /\ Underway(h)
        /\ req[h].pc = "closing" /\ req'[h].pc = to
        /\ req'[h].kind = req[h].kind /\ req'[h].run = r /\ req'[h].snap = req[h].snap
        /\ run'[r].known
        /\ \A g \in orders' : req'[g].run = r => g = h
        /\ Ordered(r)' <=> h \in orders'
    BY <1>1, <1>3, <2>1, <2>2, MoveTouches
  <2>4. req[h].kind = "approve" /\ session[r].stage \in {"none", "confirmed"}
    BY <2>3 DEF Underway, Stands
  <2>5. CASE req[h].snap.stage = "none"
    <3>1. to = "settling" /\ InFlight(h)'
      BY <2>3, <2>5 DEF InFlight, to
    <3>2. Underway(h)'
      BY <1>1, <2>1, <2>3, <2>4, <2>5, <3>1 DEF Underway, Stands, Told
    <3> QED
      BY <1>2, <1>3, <2>3, <3>1, <3>2, OneHandlerStep
  <2>6. CASE req[h].snap.stage # "none"
    <3>1. to = "done" /\ ~InFlight(h)'
      BY <2>3, <2>6 DEF InFlight, to
    <3>2. pending[r] = NoItem
      BY <2>3, <2>6 DEF Underway
    <3>3. AtRest(r)'
      BY <1>1, <2>1, <2>3, <2>4, <3>2 DEF AtRest, Told, AwaitsRequester
    <3> QED
      BY <1>2, <1>3, <2>2, <2>3, <3>1, <3>3, OneHandlerStep
  <2> QED
    BY <2>5, <2>6
<1> QED
  BY <1>4, <1>5, <1>6, <1>7

(* The stage goes into the session, the order being queued since it began. *)
LEMMA SerialPark ==
  ASSUME RunInv, SerialInv, NEW h \in Handlers, req[h].run \notin disturbed, Park(h)
  PROVE  SerialInv'
<1> DEFINE r == req[h].run
<1>1. Goes(h, "parking", "done") /\ req[h].pc = "parking" /\ InFlight(h)
      /\ UNCHANGED <<run, db, orders, erp, faults, cancelled>>
  BY DEF Park, Goes, InFlight
<1>2. r \in Runs
  BY <1>1 DEF InFlight, RunInv, RequestHasRun
<1>3. Underway(h)
  BY <1>1, <1>2 DEF SerialInv, RunSerial
<1>4. /\ SessionPut(r, [req[h].snap EXCEPT !.stage = "awaiting_rbac_approval"])
      /\ UNCHANGED pending
  BY <1>1, <1>3 DEF Park, Underway, Stands
<1>5. session \in [Runs -> Session] /\ req[h].snap \in Session
  BY DEF RunInv, TypeOK, Request
<1>6. /\ \A s \in Runs : s # r => session'[s] = session[s]
      /\ session'[r].stage = "awaiting_rbac_approval"
  BY <1>2, <1>4, <1>5 DEF SessionPut, Session
<1>7. /\ Touches(h, r) /\ req'[h].pc = "done" /\ req'[h].run = r
      /\ run'[r].known
      /\ Ordered(r)' <=> h \in orders'
  BY <1>1, <1>2, <1>4, <1>6, MoveTouches DEF Pcs
<1>8. ~InFlight(h)'
  BY <1>7 DEF InFlight
<1>9. AtRest(r)'
  BY <1>1, <1>3, <1>4, <1>6, <1>7 DEF AtRest, Underway, Final, Told, AwaitsRequester
<1> QED
  BY <1>1, <1>2, <1>7, <1>8, <1>9, OneHandlerStep

(* The session behind an order is shown as confirmed. *)
LEMMA SessionAfterStage ==
  ASSUME RunInv, NEW h \in Handlers, NEW o, req[h].pc # "idle",
         req[h].kind \in {"run", "decide", "approve"}
  PROVE  SessionAfter(h, o).stage = "confirmed"
<1>1. req[h].run \in Runs /\ req[h].snap \in Session /\ session[req[h].run] \in Session
  BY DEF RunInv, TypeOK, RequestHasRun, Request
<1>2. \A s \in Session : [s EXCEPT !.stage = "confirmed", !.order = o].stage = "confirmed"
  BY DEF Session
<1>3. CASE req[h].kind = "run"
  <2>1. SessionAfter(h, o) = [session[req[h].run] EXCEPT !.stage = "confirmed", !.order = o]
    BY <1>3 DEF SessionAfter
  <2> QED
    BY <1>1, <1>2, <2>1, Zenon
<1>4. CASE req[h].kind \in {"decide", "approve"}
  <2>1. SessionAfter(h, o) = [req[h].snap EXCEPT !.stage = "confirmed", !.order = o]
    BY <1>4 DEF SessionAfter
  <2> QED
    BY <1>1, <1>2, <2>1, Zenon
<1> QED
  BY <1>3, <1>4

(* A put of the session and a pop of the queue are of the handler's run.   *)
LEMMA PutShape ==
  ASSUME RunInv, NEW h \in Handlers, req[h].run \in Runs, NEW s,
         SessionPut(req[h].run, s), pending' = Dequeued(h)
  PROVE  /\ \A q \in Runs : q # req[h].run =>
              session'[q] = session[q] /\ pending'[q] = pending[q]
         /\ session'[req[h].run] = s
         /\ pending'[req[h].run] =
              IF req[h].kind \in {"approve", "refuse"} THEN NoItem ELSE pending[req[h].run]
BY DEF RunInv, TypeOK, SessionPut, Dequeued

(* The end of a rejection or a refusal, or of an approval without session. *)
LEMMA SerialSettle ==
  ASSUME RunInv, SerialInv, NEW h \in Handlers, req[h].run \notin disturbed, Settle(h)
  PROVE  SerialInv'
<1> DEFINE r == req[h].run
           s == SessionSettled(h)
<1>1. /\ Goes(h, "settling", "done") /\ req[h].pc = "settling" /\ InFlight(h)
      /\ SessionPut(r, s) /\ pending' = Dequeued(h)
      /\ UNCHANGED <<run, db, orders, erp, faults, cancelled>>
  BY DEF Settle, Goes, InFlight
<1>2. r \in Runs
  BY <1>1 DEF InFlight, RunInv, RequestHasRun
<1>3. Underway(h)
  BY <1>1, <1>2 DEF SerialInv, RunSerial
<1>4. req[h].kind \in {"reject", "refuse", "approve"} /\ h \notin orders
  BY <1>1, <1>3 DEF Underway, Stands
<1>5. req[h].snap \in Session
  BY DEF RunInv, TypeOK, Request
<1>6. s.stage = IF req[h].kind = "reject" THEN "rejected" ELSE session[r].stage
  BY <1>5 DEF SessionSettled, Session
<1> HIDE DEF s
<1>7. /\ \A q \in Runs : q # r => session'[q] = session[q] /\ pending'[q] = pending[q]
      /\ session'[r] = s
      /\ pending'[r] = IF req[h].kind \in {"approve", "refuse"} THEN NoItem ELSE pending[r]
  BY <1>1, <1>2, PutShape
<1>8. /\ Touches(h, r) /\ req'[h].pc = "done" /\ req'[h].run = r
      /\ req'[h].kind = req[h].kind
      /\ run'[r].known
      /\ Ordered(r)' <=> h \in orders'
  BY <1>1, <1>2, <1>7, MoveTouches DEF Pcs
<1>9. pending'[r] = NoItem
  BY <1>3, <1>4, <1>7 DEF Underway
<1>10. req[h].kind = "refuse" => Refused(r)'
  BY <1>8 DEF Refused
<1>11. AtRest(r)'
  <2>1. ~Ordered(r)'
    BY <1>1, <1>4, <1>8
  <2>2. Told(r)' => db'[r] # "pending_approval"
    BY <1>1, <1>3, <1>8 DEF Underway, Told
  <2>3. session'[r].stage = "awaiting_rbac_approval" => Refused(r)'
    BY <1>1, <1>3, <1>4, <1>6, <1>7, <1>10 DEF Underway
  <2>4. ~AwaitsRequester(r)'
    BY <1>1, <1>3, <1>4, <1>6, <1>7, <1>8 DEF Underway, AwaitsRequester
  <2> QED
    BY <1>8, <1>9, <2>1, <2>2, <2>3, <2>4 DEF AtRest
<1>12. ~InFlight(h)'
  BY <1>8 DEF InFlight
<1> QED
  BY <1>1, <1>2, <1>8, <1>11, <1>12, OneHandlerStep

(* The confirm is out, or was, for all the orchestrator knows. *)
LEMMA SerialConfirm ==
  ASSUME RunInv, SerialInv, NEW h \in Handlers, req[h].run \notin disturbed,
         Confirm(h) \/ \E reached \in BOOLEAN : ConfirmUnanswered(h, reached)
  PROVE  SerialInv'
<1> DEFINE r == req[h].run
<1>1. /\ Goes(h, "ordering", "recording") /\ InFlight(h)
      /\ orders' = orders \cup {h} \/ orders' = orders
      /\ UNCHANGED <<run, session, pending, db, erp, faults, cancelled>>
  BY DEF Confirm, ConfirmUnanswered, Goes, InFlight
<1>2. /\ r \in Runs /\ Touches(h, r) /\ Underway(h)
      /\ req[h].pc = "ordering" /\ req'[h].pc = "recording"
      /\ req'[h].kind = req[h].kind /\ req'[h].run = r /\ req'[h].snap = req[h].snap
      /\ run'[r].known
      /\ \A g \in orders' : req'[g].run = r => g = h
  BY <1>1, MoveTouches DEF Pcs
<1>3. InFlight(h)'
  BY <1>2 DEF InFlight
<1>4. Underway(h)'
  BY <1>1, <1>2 DEF Underway, Stands, Final, Told
<1> QED
  BY <1>1, <1>2, <1>3, <1>4, OneHandlerStep

(* The Beckn calls failed, perhaps after the confirm. *)
LEMMA SerialMockOrder ==
  ASSUME RunInv, SerialInv, NEW h \in Handlers, req[h].run \notin disturbed, NEW reached \in BOOLEAN,
         MockOrder(h, reached)
  PROVE  SerialInv'
<1> DEFINE r == req[h].run
           s == SessionAfter(h, "mock")
           to == IF req[h].kind = "approve" THEN "closing" ELSE "done"
<1>1. /\ Goes(h, "ordering", to) /\ req[h].pc = "ordering" /\ InFlight(h)
      /\ SessionPut(r, s) /\ pending' = Dequeued(h)
      /\ UNCHANGED <<run, db, cancelled>>
  BY DEF MockOrder, MockId, Goes, InFlight
<1>2. r \in Runs
  BY <1>1 DEF InFlight, RunInv, RequestHasRun
<1>3. /\ orders' = orders \/ orders' = orders \cup {h}
      /\ faults' = 0 => faults = 0 /\ orders' = orders
  BY DEF MockOrder, Fault, RunInv, TypeOK
<1>4. Underway(h)
  BY <1>1, <1>2 DEF SerialInv, RunSerial
<1>5. req[h].kind \in {"run", "decide", "approve"}
  BY <1>1, <1>4 DEF Underway, Stands
<1>6. s.stage = "confirmed"
  BY <1>1, <1>5, SessionAfterStage
<1> HIDE DEF s
<1>7. /\ \A q \in Runs : q # r => session'[q] = session[q] /\ pending'[q] = pending[q]
      /\ session'[r] = s
      /\ pending'[r] = IF req[h].kind \in {"approve", "refuse"} THEN NoItem ELSE pending[r]
  BY <1>1, <1>2, PutShape
<1>8. to \in Pcs /\ to # "idle"
  BY DEF Pcs
<1> HIDE DEF to
<1>9. /\ Touches(h, r) /\ req'[h].pc = to /\ req'[h].run = r
      /\ req'[h].kind = req[h].kind /\ req'[h].snap = req[h].snap
      /\ run'[r].known
      /\ \A g \in orders' : req'[g].run = r => g = h
      /\ Ordered(r)' <=> h \in orders'
  BY <1>1, <1>2, <1>3, <1>7, <1>8, MoveTouches
<1>10. pending'[r] = NoItem
  BY <1>1, <1>4, <1>5, <1>7 DEF Underway
<1>11. h \notin orders
  BY <1>1, <1>4 DEF Underway
<1>12. CASE req[h].kind = "approve"
  <2>1. to = "closing" /\ InFlight(h)'
    BY <1>9, <1>12 DEF InFlight, to
  <2>2. req[h].snap.stage # "none"
    BY <1>1, <1>4, <1>12 DEF Underway
  <2>3. Underway(h)'
    BY <1>1, <1>4, <1>6, <1>7, <1>9, <1>10, <1>12, <2>1, <2>2 DEF Underway, Stands, Final, Told
  <2> QED
    BY <1>1, <1>2, <1>8, <1>9, <2>1, <2>3, OneHandlerStep
<1>13. CASE req[h].kind # "approve"
  <2>1. to = "done" /\ ~InFlight(h)'
    BY <1>9, <1>13 DEF InFlight, to
  <2>2. Told(r)' => db'[r] # "pending_approval" /\ h \notin orders'
    BY <1>1, <1>3, <1>4, <1>9, <1>11, <1>13 DEF Underway, Told
  <2>3. AtRest(r)'
    BY <1>6, <1>7, <1>9, <1>10, <2>2 DEF AtRest, AwaitsRequester
  <2> QED
    BY <1>1, <1>2, <1>8, <1>9, <2>1, <2>3, OneHandlerStep
<1> QED
  BY <1>12, <1>13

(* The order is shown. *)
LEMMA SerialFinish ==
  ASSUME RunInv, SerialInv, NEW h \in Handlers, req[h].run \notin disturbed, Finish(h)
  PROVE  SerialInv'
<1> DEFINE r == req[h].run
           s == SessionAfter(h, h)
<1>1. /\ Goes(h, "finishing", "done") /\ req[h].pc = "finishing" /\ InFlight(h)
      /\ SessionPut(r, s) /\ pending' = Dequeued(h)
      /\ UNCHANGED <<run, db, orders, faults, cancelled>>
  BY DEF Finish, Goes, InFlight
<1>2. r \in Runs
  BY <1>1 DEF InFlight, RunInv, RequestHasRun
<1>3. Underway(h)
  BY <1>1, <1>2 DEF SerialInv, RunSerial
<1>4. req[h].kind \in {"run", "decide", "approve"}
  BY <1>1, <1>3 DEF Underway, Stands
<1>5. s.stage = "confirmed"
  BY <1>1, <1>4, SessionAfterStage
<1> HIDE DEF s
<1>6. /\ \A q \in Runs : q # r => session'[q] = session[q] /\ pending'[q] = pending[q]
      /\ session'[r] = s
      /\ pending'[r] = IF req[h].kind \in {"approve", "refuse"} THEN NoItem ELSE pending[r]
  BY <1>1, <1>2, PutShape
<1>7. /\ Touches(h, r) /\ req'[h].pc = "done" /\ req'[h].run = r
      /\ run'[r].known
  BY <1>1, <1>2, <1>6, MoveTouches DEF Pcs
<1>8. pending'[r] = NoItem
  BY <1>1, <1>3, <1>4, <1>6 DEF Underway
<1>9. AtRest(r)'
  BY <1>1, <1>3, <1>5, <1>6, <1>7, <1>8 DEF AtRest, AwaitsRequester, Underway, Told
<1>10. ~InFlight(h)'
  BY <1>7 DEF InFlight
<1> QED
  BY <1>1, <1>2, <1>7, <1>9, <1>10, OneHandlerStep

(* A run whose requests, orders and plan stay as they are. *)
LEMMA StillSerial ==
  ASSUME RunInv, SerialInv, NEW r \in Runs \ disturbed, UNCHANGED <<run, req, orders, faults>>,
         pending'[r] = pending[r],
         cancelled \subseteq cancelled',
         db'[r] = db[r] \/ (r \in cancelled' /\ run[r].known),
         \/ session'[r] = session[r]
         \/ /\ session'[r] = NoSession
            /\ \A h \in Handlers : InFlight(h) /\ req[h].run = r => req[h].kind # "run"
  PROVE  RunSerial(r)'
<1>1. RunSerial(r)
  BY DEF SerialInv
<1>2. session'[r].stage = session[r].stage \/ session'[r].stage = "none"
  BY DEF NoSession
<1>3. (Quiet(r)' <=> Quiet(r)) /\ (Ordered(r)' <=> Ordered(r)) /\ (Refused(r)' <=> Refused(r))
  BY DEF Quiet, InFlight, Ordered, Refused
<1>4. (Final(r)' => Final(r)) /\ (Told(r)' => Told(r) /\ db'[r] = db[r])
  BY DEF Final, Told
<1>5. AtRest(r) => AtRest(r)'
  BY <1>2, <1>3, <1>4 DEF AtRest, AwaitsRequester
<1>6. ASSUME NEW h \in Handlers, InFlight(h)', req'[h].run = r
      PROVE  Underway(h)'
  <2>1. InFlight(h) /\ req[h].run = r /\ req'[h] = req[h]
    BY <1>6 DEF InFlight
  <2>2. Underway(h)
    BY <1>1, <2>1 DEF RunSerial
  <2>3. req[h].kind = "run" => session'[r] = session[r]
    BY <2>1
  <2> QED
    BY <1>2, <1>4, <2>1, <2>2, <2>3 DEF Underway
<1> QED
  BY <1>1, <1>3, <1>5, <1>6 DEF RunSerial, InFlight

(* PATCH /cancel, and a session that expires. *)
LEMMA SerialCancelExpire ==
  ASSUME RunInv, SerialInv, NEW r \in Runs, Cancel(r) \/ Expire(r)
  PROVE  SerialInv'
<1>1. session \in [Runs -> Session] /\ cancelled \in SUBSET Runs
      /\ db \in [Runs -> {"open", "pending_approval", "confirmed", "cancelled"}]
  BY DEF RunInv, TypeOK
<1>2. disturbed' = disturbed
  BY DEF Cancel, Expire
<1> SUFFICES ASSUME NEW s \in Runs \ disturbed PROVE RunSerial(s)'
  BY <1>2 DEF SerialInv
<1>3. CASE Cancel(r)
  <2>1. /\ UNCHANGED <<run, session, pending, req, orders, faults>>
        /\ cancelled' = cancelled \cup {r}
        /\ run[r].known /\ (s # r => db'[s] = db[s])
    BY <1>1, <1>3 DEF Cancel
  <2> QED
    BY <1>1, <2>1, StillSerial
<1>4. CASE Expire(r)
  <2>1. /\ UNCHANGED <<run, pending, db, req, orders, faults, cancelled>>
        /\ s # r => session'[s] = session[s]
        /\ session'[r] = NoSession
        /\ \A h \in Handlers : InFlight(h) /\ req[h].run = r => req[h].kind # "run"
    BY <1>1, <1>4 DEF Expire, SessionPut
  <2> QED
    BY <1>1, <2>1, StillSerial
<1> QED
  BY <1>3, <1>4

(* A restart: nothing is in flight, queued or shown. *)
LEMMA SerialRestart ==
  ASSUME RunInv, SerialInv, Restart
  PROVE  SerialInv'
<1>1. UNCHANGED <<disturbed, cancelled>>
  BY DEF Restart
<1> SUFFICES ASSUME NEW r \in Runs \ disturbed PROVE RunSerial(r)'
  BY <1>1 DEF SerialInv
<1>2. /\ session'[r].stage = "none" /\ pending'[r] = NoItem /\ faults' # 0
      /\ UNCHANGED <<run, db, orders, erp>>
  BY DEF Restart, Fault, NoSession, RunInv, TypeOK
<1>3. ASSUME NEW h \in Handlers
      PROVE  ~InFlight(h)' /\ req'[h].run = req[h].run
  <2>1. req[h] \in Request
    BY DEF RunInv, TypeOK
  <2>2. req'[h] = IF InFlight(h) THEN [req[h] EXCEPT !.pc = "done"] ELSE req[h]
    BY DEF Restart
  <2> QED
    BY <2>1, <2>2 DEF Request, InFlight
<1>4. RunSerial(r) /\ orders \in SUBSET Handlers
  BY DEF SerialInv, RunInv, TypeOK
<1>5. AtRest(r)'
  BY <1>2 DEF AtRest, Told, AwaitsRequester
<1> QED
  BY <1>2, <1>3, <1>4, <1>5 DEF RunSerial

(* A request of a disturbed run, or one that disturbs it.                  *)
LEMMA DisturbedTouch ==
  ASSUME RunInv, SerialInv, NEW h \in Handlers, NEW r \in Runs, Touches(h, r), r \in disturbed'
  PROVE  SerialInv'
BY Elsewhere DEF SerialInv

(* A request is taken up. *)
Arrival(h, r) ==
  \/ \E mode \in Modes, env \in Envelopes, ml \in Items, tracked \in BOOLEAN :
       RunProcurement(h, r, mode, env, ml, tracked)
  \/ \E i \in Items : \E bargain \in Bargains \cup {Total[i]} : DecideRun(h, r, i, bargain)
  \/ \E i \in Items, gated \in BOOLEAN : Commit(h, r, i, gated)
  \/ RejectRun(h, r)
  \/ Approve(h, r)
  \/ Refuse(h, r)

LEMMA ArrivalTouchesRun ==
  ASSUME RunInv, NEW h \in Handlers, NEW r \in Runs, Arrival(h, r)
  PROVE  Touches(h, r) /\ db' = db
<1>1. run \in [Runs -> Plan] /\ session \in [Runs -> Session]
      /\ pending \in [Runs -> Items \cup {NoItem}] /\ req \in [Handlers -> Request]
  BY DEF RunInv, TypeOK
<1>2. req' \in [Handlers -> Request]
  BY NextIsKept DEF Kept, CoreTypes, Arrival, Next
<1>3. ASSUME NEW kind, NEW item, NEW pc, NEW terms, Arrives(h, r, kind, item, pc, terms)
      PROVE  /\ \A g \in Handlers : g # h => req'[g] = req[g]
             /\ req'[h].run = r /\ req[h].pc = "idle"
             /\ disturbed \subseteq disturbed' /\ cancelled' = cancelled
  BY <1>1, <1>3 DEF Arrives
<1>4. /\ \A g \in Handlers : g # h => req'[g] = req[g]
      /\ req'[h].run = r /\ req[h].pc = "idle"
      /\ disturbed \subseteq disturbed' /\ cancelled' = cancelled
  <2>1. CASE \E kind, item, pc, terms : Arrives(h, r, kind, item, pc, terms)
    BY <1>3, <2>1
  <2>2. ASSUME NEW mode, NEW env, NEW ml, NEW tracked, RunProcurement(h, r, mode, env, ml, tracked)
        PROVE  \E kind, item, pc, terms : Arrives(h, r, kind, item, pc, terms)
    BY <2>2, Zenon DEF RunProcurement
  <2>3. ASSUME NEW i, NEW bargain, DecideRun(h, r, i, bargain)
        PROVE  \E kind, item, pc, terms : Arrives(h, r, kind, item, pc, terms)
    BY <2>3, Zenon DEF DecideRun
  <2>4. ASSUME NEW i, NEW gated, Commit(h, r, i, gated)
        PROVE  \E kind, item, pc, terms : Arrives(h, r, kind, item, pc, terms)
    BY <2>4, Zenon DEF Commit
  <2>5. ASSUME RejectRun(h, r) \/ Approve(h, r) \/ Refuse(h, r)
        PROVE  \E kind, item, pc, terms : Arrives(h, r, kind, item, pc, terms)
    BY <2>5, Zenon DEF RejectRun, Approve, Refuse
  <2> QED
    BY <2>1, <2>2, <2>3, <2>4, <2>5, Zenon DEF Arrival
<1> DEFINE Mild == /\ UNCHANGED <<db, orders, faults>>
                   /\ \A s \in Runs : s # r => /\ run'[s] = run[s] /\ session'[s] = session[s]
                                               /\ pending'[s] = pending[s]
<1>5. Mild
  <2>1. ASSUME NEW mode, NEW env, NEW ml, NEW tracked, RunProcurement(h, r, mode, env, ml, tracked)
        PROVE  Mild
    BY <1>1, <2>1 DEF RunProcurement, SessionPut
  <2>2. ASSUME NEW i, NEW bargain, DecideRun(h, r, i, bargain)
        PROVE  Mild
    BY <1>1, <2>2 DEF DecideRun, Enqueue
  <2>3. ASSUME NEW i, NEW gated, Commit(h, r, i, gated)
        PROVE  Mild
    BY <2>3 DEF Commit
  <2>4. CASE RejectRun(h, r)
    BY <1>1, <2>4 DEF RejectRun, SessionPut
  <2>5. CASE Approve(h, r) \/ Refuse(h, r)
    BY <2>5 DEF Approve, Refuse
  <2> HIDE DEF Mild
  <2> QED
    BY <2>1, <2>2, <2>3, <2>4, <2>5, Zenon DEF Arrival
<1> QED
  BY <1>2, <1>4, <1>5 DEF Touches

(* A request goes on. *)
Progress(h) ==
  \/ BudgetAllows(h)
  \/ BudgetDenies(h)
  \/ Mark(h)
  \/ Park(h)
  \/ MarkCancelled(h)
  \/ Settle(h)
  \/ Confirm(h)
  \/ \E reached \in BOOLEAN : ConfirmUnanswered(h, reached)
  \/ \E reached \in BOOLEAN : MockOrder(h, reached)
  \/ Record(h)
  \/ Finish(h)
  \/ Close(h)

LEMMA ProgressTouchesRun ==
  ASSUME RunInv, NEW h \in Handlers, Progress(h)
  PROVE  /\ InFlight(h) /\ req[h].run \in Runs /\ Touches(h, req[h].run)
         /\ UNCHANGED <<disturbed, cancelled>>
<1> DEFINE r == req[h].run
<1>1. /\ session \in [Runs -> Session] /\ pending \in [Runs -> Items \cup {NoItem}]
      /\ req \in [Handlers -> Request] /\ req[h] \in Request /\ faults \in Nat
      /\ db \in [Runs -> {"open", "pending_approval", "confirmed", "cancelled"}]
  BY DEF RunInv, TypeOK
<1>2. req' \in [Handlers -> Request]
  BY NextIsKept DEF Kept, CoreTypes, Progress, Next
<1>3. PICK from, to : Goes(h, from, to) /\ from \notin {"idle", "done"}
  BY DEF Progress, BudgetAllows, BudgetDenies, Mark, Park, MarkCancelled, Settle, Confirm,
     ConfirmUnanswered, MockOrder, Record, Finish, Close
<1>4. /\ req[h].pc = from /\ req' = [req EXCEPT ![h] = [req[h] EXCEPT !.pc = to]]
      /\ UNCHANGED <<disturbed, cancelled>>
  BY <1>1, <1>3 DEF Goes
<1>5. req'[h].run = r /\ \A g \in Handlers : g # h => req'[g] = req[g]
  BY <1>1, <1>4 DEF Request
<1>6. InFlight(h) /\ r \in Runs
  BY <1>3, <1>4 DEF InFlight, RunInv, RequestHasRun
<1>7. ASSUME NEW status, Persist(r, status)
      PROVE  /\ \A s \in Runs : s # r => db'[s] = db[s]
             /\ faults' = 0 => faults = 0
  BY <1>6, <1>7, PersistShape
<1>8. run' = run
  BY DEF Progress, BudgetAllows, BudgetDenies, Mark, Park, MarkCancelled, Settle, Confirm,
     ConfirmUnanswered, MockOrder, Record, Finish, Close
<1>9. orders' = orders \/ orders' = orders \cup {h}
  BY DEF Progress, BudgetAllows, BudgetDenies, Mark, Park, MarkCancelled, Settle, Confirm,
     ConfirmUnanswered, MockOrder, Record, Finish, Close
<1>10. /\ \A s \in Runs : s # r => db'[s] = db[s]
       /\ faults' = 0 => faults = 0
  BY <1>1, <1>7 DEF Progress, BudgetAllows, BudgetDenies, Mark, Park, MarkCancelled, Settle,
     Confirm, ConfirmUnanswered, MockOrder, Record, Finish, Close, Fault
<1>11. \A s \in Runs : s # r => session'[s] = session[s]
  BY <1>1 DEF Progress, BudgetAllows, BudgetDenies, Mark, Park, MarkCancelled, Settle, Confirm,
     ConfirmUnanswered, MockOrder, Record, Finish, Close, SessionPut
<1>12. \A s \in Runs : s # r => pending'[s] = pending[s]
  BY <1>1 DEF Progress, BudgetAllows, BudgetDenies, Mark, Park, MarkCancelled, Settle, Confirm,
     ConfirmUnanswered, MockOrder, Record, Finish, Close, Dequeued, Enqueue
<1> QED
  BY <1>2, <1>4, <1>5, <1>6, <1>8, <1>9, <1>10, <1>11, <1>12 DEF Touches

(* What takes a request up in a run that stays orderly, or goes on with it. *)
LEMMA SerialArrival ==
  ASSUME RunInv, SerialInv, NEW h \in Handlers, NEW r \in Runs, Arrival(h, r)
  PROVE  SerialInv'
<1>1. CASE r \in disturbed'
  BY <1>1, ArrivalTouchesRun, DisturbedTouch
<1>2. CASE r \notin disturbed'
  <2>1. \A i \in Items, gated \in BOOLEAN : ~Commit(h, r, i, gated)
    BY <1>2 DEF Commit, Arrives, Orderly
  <2> QED
    BY <1>2, <2>1, SerialRun, SerialDecide, SerialReject, SerialApprover DEF Arrival
<1> QED
  BY <1>1, <1>2

LEMMA SerialProgress ==
  ASSUME RunInv, SerialInv, NEW h \in Handlers, Progress(h)
  PROVE  SerialInv'
<1>1. /\ InFlight(h) /\ req[h].run \in Runs /\ Touches(h, req[h].run)
      /\ UNCHANGED <<disturbed, cancelled>>
  BY ProgressTouchesRun
<1>2. CASE req[h].run \in disturbed
  BY <1>1, <1>2, DisturbedTouch
<1>3. CASE req[h].run \notin disturbed
  <2>1. Underway(h)
    BY <1>1, <1>3 DEF SerialInv, RunSerial
  <2>2. ~BudgetAllows(h) /\ ~BudgetDenies(h)
    BY <2>1 DEF Underway, Stands, BudgetAllows, BudgetDenies, Goes
  <2> QED
    BY <1>3, <2>2, SerialPatch, SerialPark, SerialSettle, SerialConfirm, SerialMockOrder,
       SerialFinish DEF Progress
<1> QED
  BY <1>2, <1>3

(* Every step. *)
LEMMA SerialNext ==
  ASSUME RunInv, SerialInv, [Next]_vars
  PROVE  SerialInv'
<1>1. CASE UNCHANGED vars
  <2>1. UNCHANGED <<run, session, pending, db, req, orders, faults, disturbed, cancelled>>
    BY <1>1 DEF vars
  <2> QED
    BY <2>1, StillSerial DEF SerialInv
<1>2. ASSUME Next PROVE SerialInv'
  <2>1. \/ \E h \in Handlers, r \in Runs : Arrival(h, r)
        \/ \E h \in Handlers : Progress(h)
        \/ \E r \in Runs : Cancel(r) \/ Expire(r)
        \/ Restart
    BY <1>2 DEF Next, Arrival, Progress
  <2> QED
    BY <2>1, SerialArrival, SerialProgress, SerialCancelExpire, SerialRestart
<1> QED
  BY <1>1, <1>2

LEMMA InitSerial ==
  ASSUME Init
  PROVE  SerialInv
<1>1. \A h \in Handlers : ~InFlight(h)
  BY DEF Init, NoRequest, InFlight
<1>2. \A r \in Runs : ~run[r].known /\ db[r] = "open"
  BY DEF Init, NoPlan
<1> QED
  BY <1>1, <1>2 DEF Init, SerialInv, RunSerial

(* SerialInv holds in every reachable state: of every run whose requests   *)
(* came one at a time and kept to its stages so far, whatever the requests *)
(* of other runs do.                                                       *)
THEOREM SerialInvariant == Spec => []SerialInv
<1>1. RunInv /\ SerialInv /\ [Next]_vars => SerialInv'
  BY SerialNext
<1>2. Init => SerialInv
  BY InitSerial
<1> QED
  BY <1>1, <1>2, RunInvariant, PTL DEF Spec

(* Such a run is ordered at most once, whatever fails, expires or restarts. *)
THEOREM OrderedOnce == Spec => []OneOrder
<1>1. RunInv /\ SerialInv => OneOrder
  BY DEF RunInv, TypeOK, RequestHasRun, SerialInv, RunSerial, OneOrder
<1> QED
  BY <1>1, SerialInvariant, RunInvariant, PTL

(* Queue, stage and database of such a run agree whenever nothing of it is *)
(* in flight, unless PATCH /cancel has overwritten its status.             *)
THEOREM QueueAgreesAlways == Spec => []QueueAgrees
<1>1. SerialInv => QueueAgrees
  BY DEF SerialInv, RunSerial, QueueAgrees, AtRest, Told
<1> QED
  BY <1>1, SerialInvariant, PTL

(* Who writes a status. *)
LEMMA StatusStep ==
  ASSUME RunInv, SerialInv, [Next]_vars, NEW r \in Runs \ (disturbed' \cup cancelled'), Final(r)
  PROVE  db'[r] = db[r]
<1>1. disturbed \subseteq disturbed'
  BY HistoryStep DEF RunInv, HistoriesGrow
<1>2. CASE db' = db
  BY <1>2
<1>3. ASSUME NEW h \in Handlers, NEW status, Persist(req[h].run, status), InFlight(h),
             req[h].pc \notin {"settling", "finishing"}
      PROVE  db'[r] = db[r]
  <2>1. req[h].run \in Runs
    BY <1>3 DEF InFlight, RunInv, RequestHasRun
  <2>2. req[h].run = r => Underway(h)
    BY <1>1, <1>3 DEF SerialInv, RunSerial
  <2>3. req[h].run # r
    BY <1>3, <2>2 DEF Underway
  <2> QED
    BY <1>3, <2>1, <2>3, PersistShape
<1>4. ASSUME NEW h \in Handlers, Mark(h) \/ MarkCancelled(h) \/ Record(h) \/ Close(h)
      PROVE  db'[r] = db[r]
  <2>1. InFlight(h) /\ req[h].pc \notin {"settling", "finishing"}
    BY <1>4 DEF Mark, MarkCancelled, Record, Close, Goes, InFlight
  <2>2. PICK status : Persist(req[h].run, status)
    BY <1>4 DEF Mark, MarkCancelled, Record, Close
  <2> QED
    BY <1>3, <2>1, <2>2
<1>5. \A h \in Handlers, s \in Runs : Arrival(h, s) => db' = db
  BY ArrivalTouchesRun
<1>6. \A h \in Handlers : Progress(h) =>
        db' = db \/ Mark(h) \/ MarkCancelled(h) \/ Record(h) \/ Close(h)
  <2>1. \A h \in Handlers, reached \in BOOLEAN :
          ConfirmUnanswered(h, reached) \/ MockOrder(h, reached) => db' = db
    BY DEF ConfirmUnanswered, MockOrder
  <2>2. \A h \in Handlers :
          BudgetAllows(h) \/ BudgetDenies(h) \/ Park(h) \/ Settle(h) \/ Confirm(h) \/ Finish(h)
            => db' = db
    BY DEF BudgetAllows, BudgetDenies, Park, Settle, Confirm, Finish
  <2> QED
    BY <2>1, <2>2 DEF Progress
<1>7. /\ \A s \in Runs : Cancel(s) => db'[r] = db[r]
      /\ \A s \in Runs : Expire(s) => db' = db
      /\ Restart => db' = db
  BY DEF Cancel, Expire, Restart, RunInv, TypeOK
<1>8. CASE UNCHANGED vars
  BY <1>8 DEF vars
<1>9. CASE Next
  <2>1. \/ \E h \in Handlers, s \in Runs : Arrival(h, s)
        \/ \E h \in Handlers : Progress(h)
        \/ \E s \in Runs : Cancel(s) \/ Expire(s)
        \/ Restart
    BY <1>9 DEF Next, Arrival, Progress
  <2> QED
    BY <1>2, <1>4, <1>5, <1>6, <1>7, <2>1
<1> QED
  BY <1>8, <1>9

(* A status of such a run that is one of the two last is not overwritten   *)
(* by anything but PATCH /cancel.                                          *)
THEOREM LifecycleIsRespected == Spec => LifecycleRespected
<1>1. RunInv /\ SerialInv /\ [Next]_vars =>
        [\A r \in Runs \ (disturbed' \cup cancelled') :
           db[r] \in {"confirmed", "cancelled"} => db'[r] = db[r]]_vars
  BY StatusStep, HistoryStep DEF Final, RunInv, HistoriesGrow
<1> QED
  BY <1>1, SerialInvariant, RunInvariant, PTL DEF Spec, LifecycleRespected
=============================================================================
