--------------------------- MODULE MCEventPipeline ---------------------------
(* Constant values for the run of EventPipeline: every second event is a    *)
(* cancellation, which concerns all accounts.                               *)
EXTENDS EventPipeline

CONSTANTS p1, garbage

MCEvents      == (1..MaxRows) \cup {garbage}
MCPartitionOf == [k \in Keys |-> p1]
MCAffected    == [e \in Events |-> IF e = garbage THEN {}
                                   ELSE IF e % 2 = 1 THEN Keys ELSE Accounts]
=============================================================================
