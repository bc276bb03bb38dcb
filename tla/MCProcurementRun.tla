--------------------------- MODULE MCProcurementRun ---------------------------
(* Model-checking instances of ProcurementRun. *)
EXTENDS ProcurementRun, TLC

CONSTANTS r1, h1, h2, h3, h4

OneRun  == {r1}

ThreeHandlers == {h1, h2, h3}
FourHandlers  == {h1, h2, h3, h4}

(* One offering exactly at the threshold, one just above it; or two just   *)
(* above it, of which the second has a price that does not parse and so    *)
(* counts as within.                                                       *)
AtAndAbove     == <<5, 6>>
AboveAndUnread == <<6, 6>>

Both  == {1, 2}
First == {1}

(* No negotiated prices, and one above the threshold. *)
NoBargains == {}
OneBargain == {7}

(* No envelope; one that asks for an approval, which a requester may give;  *)
(* one that demands an approver's; one that prefers the dearer offering.    *)
AllEnvelopes ==
  {NoEnvelope,
   [NoEnvelope EXCEPT !.approval_required = TRUE],
   [NoEnvelope EXCEPT !.auto_commit_allowed = FALSE],
   [NoEnvelope EXCEPT !.preferred = {2}]}

(* None, and one that forbids the auto commit. *)
PlainAndForbidding == {NoEnvelope, [NoEnvelope EXCEPT !.auto_commit_allowed = FALSE]}

(* Once a request overlapped another, or left the stages, the run claims no *)
(* more: such states are checked and not followed.                         *)
OrderlySoFar == disturbed = {}

(* Requests are interchangeable. *)
SymmetryOne  == Permutations(ThreeHandlers)
Symmetry4 == Permutations(FourHandlers)
=============================================================================
