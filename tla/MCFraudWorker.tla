---------------------------- MODULE MCFraudWorker ----------------------------
(* Constant values for the runs of FraudWorker: one transfer, whose scores   *)
(* depend on whether Redis answers.                                          *)
EXTENDS FraudWorker

CONSTANTS t1, alice, bob

MCBothLegs == [t \in Transactions |-> {alice, bob}]
MCVerdicts == [t \in Transactions |-> {"Low", "High"}]
=============================================================================
