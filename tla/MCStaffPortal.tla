--------------------------- MODULE MCStaffPortal ---------------------------
(* Constant values for the run of StaffPortal: a transfer with two risky     *)
(* legs, of which a list shows the newer one.                                *)
EXTENDS StaffPortal

CONSTANTS t1, alice, bob

MCLegs == {<<t1, alice>>, <<t1, bob>>}
=============================================================================
