----------------------------- MODULE MCCounter ------------------------------
(* Constant values for the run of Counter and Directory together.           *)
EXTENDS Counter, TLC

Symmetry == Permutations(Users) \cup Permutations(Emails) \cup Permutations(Requests)
              \cup Permutations(Calls)
=============================================================================
