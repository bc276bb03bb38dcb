----------------------------- MODULE MCBecknClient -----------------------------
(* Model-checking instances of BecknClient. *)
EXTENDS BecknClient

CONSTANTS c1, c2, order, probe1

TwoCalls == {c1, c2}
OneProbe == {probe1}
OrderAndProbe == {order, probe1}
ActionsUsed == {"select", "discover", "status"}
=============================================================================
