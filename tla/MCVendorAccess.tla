---------------------------- MODULE MCVendorAccess ----------------------------
(* Model-checking instances of VendorAccess: SAP, Oracle, and both. *)
EXTENDS VendorAccess

CONSTANTS sap, oracle, p1, p2, k1

Both == {sap, oracle}
KindOf == [v \in Vendors |-> IF v = sap THEN "sap" ELSE "oracle"]
TwoRows == {p1, p2}
(* One row each would never meet at a lock: both are SAP's. *)
Sap == [p \in Pushes |-> sap]
OneCheck == {k1}
=============================================================================
