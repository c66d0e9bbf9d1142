------------------------------ MODULE EventLog ------------------------------
(***************************************************************************)
(* The Kafka topics between account-service and its consumers, as far as   *)
(* the outbox relay and audit-service tell: partitions that are only       *)
(* appended to.  A row of the outbox is the event its messages carry, so a *)
(* message is the id of a row, or garbage that others have put there.      *)
(***************************************************************************)
EXTENDS Integers, Sequences, FiniteSets

CONSTANTS
  Partitions,  \* partitions of transaction.events and transaction.cancelled
  Events,      \* what messages carry
  Poison,      \* messages that are not JSON
  MaxLog       \* bound: messages in a partition when others produce

ASSUME LogAssumption == Poison \subseteq Events /\ MaxLog \in Nat

VARIABLE log  \* the messages of each partition

\* Other producers append what cannot be parsed.
Produce(p, e) ==
  /\ Len(log[p]) < MaxLog
  /\ log' = [log EXCEPT ![p] = Append(@, e)]
=============================================================================
