----------------------------- MODULE PolicyEngine -----------------------------
(***************************************************************************)
(* The decisions of services/orchestrator/src/policy_engine.py: from the   *)
(* execution mode, the envelope the ERP answered and the order's total to  *)
(* the item a run proposes and the stage it starts in, and the gate a      *)
(* human's choice passes before it is ordered.  All of it is pure.         *)
(*                                                                         *)
(* Offerings are their positions in the list that discovery returned.  An  *)
(* envelope says `preferred`: the offerings of preferred suppliers.  No    *)
(* envelope, an empty one and the fail-open one decide alike.              *)
(***************************************************************************)
EXTENDS Naturals

CONSTANTS
  NumItems,   \* offerings of a run
  Total,      \* Total[i]: catalogue price of offering i times the quantity
  Readable,   \* offerings whose price and quantity parse as numbers
  Threshold   \* the requester's approval_threshold

ASSUME PolicyAssumption ==
  /\ NumItems \in Nat \ {0}
  /\ Total \in [1 .. NumItems -> Nat]
  /\ Readable \subseteq 1 .. NumItems
  /\ Threshold \in Nat

Items == 1 .. NumItems
Modes == {"advisory", "hitl", "autonomous"}

Policy == [selection_required : BOOLEAN, approval_required : BOOLEAN, auto_commit : BOOLEAN]

Envelope == [approval_required : BOOLEAN, auto_commit_allowed : BOOLEAN, preferred : SUBSET Items]

NoEnvelope == [approval_required |-> FALSE, auto_commit_allowed |-> TRUE, preferred |-> {}]

(* _BASE_POLICIES *)
BasePolicy(mode) ==
  [selection_required |-> mode = "advisory",
   approval_required  |-> mode = "hitl",
   auto_commit        |-> mode = "autonomous"]

(* _apply_erp_overrides: the ERP takes autonomy away and never grants any. *)
ErpForcesApproval(env) == env.approval_required \/ ~env.auto_commit_allowed

OverriddenKeepsAutoCommit(policy, env) ==
  IF ErpForcesApproval(env) /\ policy.selection_required
  THEN [policy EXCEPT !.approval_required = TRUE, !.auto_commit = FALSE]
  ELSE policy

Overridden(policy, env) ==
  IF ErpForcesApproval(env) /\ ~policy.approval_required
  THEN [policy EXCEPT !.approval_required = TRUE, !.auto_commit = FALSE]
  ELSE policy

(* _adjust_recommendation: the first preferred offering, unless the user   *)
(* chooses anyway.                                                         *)
Adjusted(ml, env, policy) ==
  IF policy.selection_required \/ env.preferred = {}
  THEN ml
  ELSE CHOOSE i \in env.preferred : \A j \in env.preferred : i <= j

(* RecommendationDecision: the two fields that the workflow reads. *)
StartStages == {"awaiting_selection", "awaiting_approval", "awaiting_rbac_approval", "auto_commit"}

Decision == [final : Items, stage : StartStages]

(* order_total as the handlers compute it: what does not parse counts as 0. *)
TotalRead(i) == IF i \in Readable THEN Total[i] ELSE 0

OverThresholdStrict(i) == TotalRead(i) > Threshold + 1

OverThreshold(i) == TotalRead(i) > Threshold

(* _determine_stage; i is the item whose total is compared. *)
InitialStage(policy, i) ==
  CASE policy.selection_required -> "awaiting_selection"
    [] ~policy.selection_required /\ policy.approval_required -> "awaiting_approval"
    [] ~policy.selection_required /\ ~policy.approval_required ->
         IF OverThreshold(i) THEN "awaiting_rbac_approval" ELSE "auto_commit"

(* evaluate; the total is that of the model's recommendation. *)
Evaluate(mode, env, ml) ==
  LET policy == Overridden(BasePolicy(mode), env)
  IN  [final |-> Adjusted(ml, env, policy), stage |-> InitialStage(policy, ml)]

OnRejection(mode) == IF mode = "hitl" THEN "awaiting_selection" ELSE "rejected"

(* evaluate_commit: proceed, or escalate to an approver. *)
Proceeds(i, env) == env.auto_commit_allowed /\ ~OverThreshold(i)
=============================================================================
