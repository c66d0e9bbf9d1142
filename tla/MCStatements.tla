---------------------------- MODULE MCStatements ----------------------------
(* The run of Statements gives all constants their values in its cfg.       *)
EXTENDS Statements
=============================================================================
