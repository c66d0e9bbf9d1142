----------------------------- MODULE EventTrail -----------------------------
(***************************************************************************)
(* What the event pipeline promises, without relay, Kafka or consumer:     *)
(* every event that was written with a money operation gets all its audit  *)
(* rows in one step and once, and no others, unless it is abandoned.       *)
(***************************************************************************)
EXTENDS Naturals

CONSTANTS
  Ids,        \* events
  Accounts,
  AccountsOf  \* [Ids -> set of accounts], those an event is audited for

VARIABLES
  written,    \* events of committed money operations
  abandoned,  \* events the relay gave up on
  trail       \* [Ids -> [Accounts -> Nat]], rows in the audit log

vars == <<written, abandoned, trail>>

Blank     == [a \in Accounts |-> 0]
RowsOf(i) == [a \in Accounts |-> IF a \in AccountsOf[i] THEN 1 ELSE 0]

Init ==
  /\ written = {}
  /\ abandoned = {}
  /\ trail = [i \in Ids |-> Blank]

Write(i) ==
  /\ i \notin written
  /\ written' = written \cup {i}
  /\ UNCHANGED <<abandoned, trail>>

Record(i) ==
  /\ i \in written /\ trail[i] = Blank
  /\ trail' = [trail EXCEPT ![i] = RowsOf(i)]
  /\ UNCHANGED <<written, abandoned>>

\* Several events may be given up at once.  An abandoned event may have reached
\* Kafka after all.
Abandon(ids) ==
  /\ ids # {} /\ ids \subseteq written \ abandoned
  /\ abandoned' = abandoned \cup ids
  /\ UNCHANGED <<written, trail>>

Next ==
  \/ \E i \in Ids : Write(i) \/ Record(i)
  \/ \E ids \in SUBSET Ids : Abandon(ids)

\* A written event that has no rows yet gets them, or is given up.
Settle(i) ==
  /\ i \notin abandoned /\ trail[i] # RowsOf(i)
  /\ Record(i) \/ \E ids \in SUBSET Ids : i \in ids /\ Abandon(ids)

Safety == Init /\ [][Next]_vars

Spec == Safety /\ \A i \in Ids : WF_vars(Settle(i))
=============================================================================
