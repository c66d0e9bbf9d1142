----------------------------- MODULE MCSessions -----------------------------
(* Constant values for the run of Sessions.                                 *)
EXTENDS Sessions, TLC

Symmetry == Permutations(Requests) \cup Permutations(Roles) \cup Permutations(Users)
=============================================================================
