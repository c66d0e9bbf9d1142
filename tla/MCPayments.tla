----------------------------- MODULE MCPayments -----------------------------
(* Constant values for the run of Payments.                                 *)
EXTENDS Payments, TLC

Symmetry == Permutations(Accounts)
=============================================================================
