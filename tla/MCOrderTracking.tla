---------------------------- MODULE MCOrderTracking ----------------------------
(* Model-checking instances of OrderTracking. *)
EXTENDS OrderTracking, TLC

CONSTANTS g1, g2

TwoPages == {g1, g2}
Symmetric == Permutations(Pages)
=============================================================================
