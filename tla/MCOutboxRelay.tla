---------------------------- MODULE MCOutboxRelay ----------------------------
(* Constant values for the runs of OutboxRelay.                            *)
EXTENDS OutboxRelay

CONSTANTS p1, p2

MCEvents == 1..MaxRows

\* All keys but the first in one partition.
MCPartitionOf ==
  LET first == CHOOSE k \in Keys : TRUE
  IN  [k \in Keys |-> IF k = first THEN p1 ELSE p2]
=============================================================================
