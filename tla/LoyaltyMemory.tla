--------------------------- MODULE LoyaltyMemory ---------------------------
(***************************************************************************)
(* How past orders move a ranking (_apply_memory_adjustments and the       *)
(* recommendation _enrich_with_memory makes of it).  Scores are in         *)
(* hundredths; a past order is worth 3 of them when it is fresh and less   *)
(* with age, so a hit is a provider and a worth in 0..3.                   *)
(***************************************************************************)
EXTENDS Integers, Sequences, SequencesExt, FiniteSetsExt

MaxDelta == 10              \* max_delta = 0.10
MaxOrders == 5              \* max_orders_per_provider

(* The hits of a provider that count: the first MaxOrders of them. *)
History(hits, provider) ==
    LET own == SelectSeq(hits, LAMBDA h : h.provider = provider)
    IN  SubSeq(own, 1, IF Len(own) < MaxOrders THEN Len(own) ELSE MaxOrders)

Bonus(hits, provider) ==
    LET raw == FoldLeft(LAMBDA sum, h : sum + h.worth, 0, History(hits, provider))
    IN  IF raw < MaxDelta THEN raw ELSE MaxDelta

(* The item that leads a ranking, the earlier one of equals (the sort is   *)
(* stable).                                                                *)
Leader(ranking, score) ==
    LET best == Max({score[i] : i \in DOMAIN score})
    IN  SelectSeq(ranking, LAMBDA i : score[i] = best)[1]

(* Without hits, and when the leader stays the leader, the recommendation  *)
(* stays what it was, which need not be the leader of this ranking.        *)
Enriched(ranking, score, maker, recommended, hits) ==
    LET lifted == [i \in DOMAIN score |-> score[i] + Bonus(hits, maker[i])]
        leader == Leader(ranking, lifted)
    IN  IF hits = <<>> \/ leader = ranking[1] THEN recommended ELSE leader
=============================================================================
