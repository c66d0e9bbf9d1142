---------------------------- MODULE MCDocuments ----------------------------
(* Constant values for the run of Documents: two scans of one cheque and a *)
(* different one; a faultless analysis and one of a page that could not be *)
(* read.                                                                   *)
EXTENDS Documents, TLC

CONSTANTS scan, rescan, other, clerk, customer

MCDistance == [p \in Images \X Images |->
                 IF p[1] = p[2] THEN 0 ELSE IF other \in {p[1], p[2]} THEN 7 ELSE 6]

Clean == [tampering |-> 0, amount |-> 2, date |-> 2, layout |-> 2, quality |-> 2,
          signature |-> 1, readable |-> TRUE]

MCAnalyses == {Clean, [Clean EXCEPT !.amount = 1, !.date = 1, !.layout = 1, !.readable = FALSE]}

MCChunk == [s \in {"quantum", "quantum-ibm"} |-> IF s = "quantum" THEN 2 ELSE 4]
MCMinShots == [s \in {"quantum", "quantum-ibm"} |-> 1]

Symmetry == Permutations({scan, rescan})
=============================================================================
