----------------------------- MODULE CounterOffer -----------------------------
(***************************************************************************)
(* How the negotiation engine draws up a counter-offer, and the shield that *)
(* stands before the wire (services/negotiation_engine/src/strategy.py,    *)
(* guardrails.py).  Pure functions.  Discounts are whole percents.         *)
(***************************************************************************)
EXTENDS Integers

AbsoluteMax == 20  \* ABSOLUTE_MAX_DISCOUNT_PCT, guardrail G1

(* What the memory says of a supplier (memory.py; without Qdrant a text    *)
(* made up from the supplier's id, of one of three kinds), and how that    *)
(* modulates the ask, in tenths.  A text that speaks of rejections too     *)
(* counts as one of rejections.                                            *)
Histories == {"accepts", "rejects", "cold_start"}

Gamma(history) ==
  CASE history \in {"rejects", "cold_start"} -> 7
    [] history = "accepts" -> 11
    [] history = "none" -> 10

(* A ranked candidate: its price, its supplier's history, and whether it   *)
(* meets the lead time and quantity of the policy (G5, G6), which no round *)
(* changes.                                                                *)
Offers == [price : Nat, history : Histories, fits : BOOLEAN]

(* A target: an offer, or none. *)
Targets == [price : Nat, history : Histories \cup {"none"}, fits : BOOLEAN]

(* The policy of a session: the caps of category and supplier (G2, G3; at  *)
(* AbsoluteMax or above they change nothing) and the budgeted unit price,  *)
(* 0 if there is none.                                                     *)
Policies == [category_max : Nat, supplier_max : Nat, budget : Nat]

Categories == {"commodity", "specialized", "unknown", "it_equipment", "medical"}

AdvisoryOnly(category) == category \in {"it_equipment", "medical"}

Base(category) == IF category = "commodity" THEN 10 ELSE IF AdvisoryOnly(category) THEN 0 ELSE 5

Alpha(category) ==
  CASE category = "commodity"    -> 100
    [] category = "specialized"  -> 70
    [] category = "unknown"      -> 60
    [] category = "it_equipment" -> 50
    [] category = "medical"      -> 40

Least(a, b) == IF a <= b THEN a ELSE b
Greatest(a, b) == IF a >= b THEN a ELSE b

EffectiveMax(policy) == Least(AbsoluteMax, Least(policy.category_max, policy.supplier_max))

(* Without a budget the supplier's own price stands for it. *)
GapPct(price, policy) ==
  IF policy.budget = 0 THEN 0 ELSE Greatest(0, ((price - policy.budget) * 100) \div policy.budget)

RawTarget(category, offer, policy) ==
  (Greatest(Base(category), (GapPct(offer.price, policy) * Alpha(category)) \div 100) * Gamma(offer.history)) \div 10

(* compute_target_discount: clamped to the tightest of the caps. *)
TargetDiscount(category, offer, policy) ==
  IF AdvisoryOnly(category) THEN 0
  ELSE Least(Greatest(0, Least(RawTarget(category, offer, policy), EffectiveMax(policy))), AbsoluteMax)

Counters == [discount : Nat, price : Nat, fits : BOOLEAN]

NoCounter == [discount |-> 0, price |-> 0, fits |-> FALSE]

Draft(category, offer, policy) ==
  LET d == TargetDiscount(category, offer, policy)
  IN  [discount |-> d, price |-> (offer.price * (100 - d)) \div 100, fits |-> offer.fits]

(* validate_counter_offer raises no violation. *)
Validates(counter, policy) ==
  /\ counter.discount \in 0..EffectiveMax(policy)
  /\ counter.fits
=============================================================================
