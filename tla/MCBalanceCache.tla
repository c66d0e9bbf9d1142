--------------------------- MODULE MCBalanceCache ---------------------------
(* The users and requests of the run are interchangeable.                    *)
EXTENDS BalanceCache, TLC

MCSymmetry == Permutations(Users) \cup Permutations(Readers)
=============================================================================
