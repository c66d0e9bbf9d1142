---------------------------- MODULE FraudWorker ----------------------------
(***************************************************************************)
(* The consumer of services/fraud-service: it scores both legs of every    *)
(* transaction, opens alerts for risky ones, publishes transaction.scored  *)
(* and closes the alerts of cancelled transactions.  Each statement of the *)
(* handler is a step, since it commits by itself and the worker may fail   *)
(* between any two.                                                        *)
(*                                                                         *)
(* poll moves a worker's position past the message it returns; commit      *)
(* without arguments commits the positions of all its partitions.          *)
(*                                                                         *)
(* An operator marked "Mutant" is the definition below it with a plausible *)
(* bug; no specification uses it.                                          *)
(***************************************************************************)
EXTENDS Integers, Sequences

CONSTANTS
  Workers,         \* fraud-service processes
  Transactions,    \* transactions the ledger has committed
  Accounts,
  Legs,            \* [Transactions -> set of accounts]
  Verdicts,        \* [Transactions -> set of risk levels]: what scoring may
                   \* say, with and without the Redis window of the account
  EventPartition,  \* transaction.events
  CancelPartition, \* transaction.cancelled
  NoWorker, NoTask,
  MaxLog,          \* bound: messages in a partition
  MaxErrors,       \* bound: handlers that raise
  MaxTimeouts,     \* bound: flushes that time out
  MaxMoves         \* bound: crashes and rebalances

Partitions == {EventPartition, CancelPartition}
Levels     == {"Low", "Medium", "High", "Critical"}
Risky      == {"High", "Critical"}
Leg        == {l \in Transactions \X Accounts : l[2] \in Legs[l[1]]}

ASSUME FraudAssumption ==
  /\ Legs \in [Transactions -> SUBSET Accounts]
  /\ Verdicts \in [Transactions -> SUBSET Levels \ {{}}]
  /\ EventPartition # CancelPartition
  /\ NoWorker \notin Workers
  /\ MaxLog \in Nat /\ MaxErrors \in Nat /\ MaxTimeouts \in Nat /\ MaxMoves \in Nat

VARIABLES
  log,        \* messages: a leg, a cancelled transaction, or garbage
  cancelled,  \* ledger_db.cancelled_transactions
  scores,     \* fraud_scores: [Leg -> level, "none" without a row]
  alerts,     \* fraud_alerts: [Leg -> status, "none" without a row]
  buffer,     \* scored events in each worker's producer queue
  scored,     \* events that reached transaction.scored
  committed,  \* the group's next offset in each partition
  owner,      \* the worker a partition is assigned to
  position,   \* the next offset its owner polls
  task,       \* what each worker is handling
  resolved,   \* history: transactions whose cancellation was handled
  errors, timeouts, moves  \* counters behind the bounds

bounds == <<errors, timeouts, moves>>
group  == <<committed, owner, position>>
tables == <<scores, alerts, resolved>>
vars   == <<log, cancelled, tables, buffer, scored, group, task, bounds>>

Message ==
  [type : {"tx"}, leg : Leg] \cup [type : {"cancelled"}, tx : Transactions]
    \cup [type : {"garbage"}]

Steps == {"score", "alert", "publish", "flush", "resolve", "commit"}
Task  == [message : Message, step : Steps, level : Levels \cup {"none"},
          partition : Partitions]

ASSUME NoTaskAssumption == NoTask \notin Task

-----------------------------------------------------------------------------
(* The world around the worker.                                            *)

\* The relay publishes a leg, possibly again.
PublishEvent(l) ==
  /\ Len(log[EventPartition]) < MaxLog
  /\ log' = [log EXCEPT ![EventPartition] = Append(@, [type |-> "tx", leg |-> l])]
  /\ UNCHANGED <<cancelled, tables, buffer, scored, group, task, bounds>>

PublishGarbage ==
  /\ Len(log[EventPartition]) < MaxLog
  /\ log' = [log EXCEPT ![EventPartition] = Append(@, [type |-> "garbage"])]
  /\ UNCHANGED <<cancelled, tables, buffer, scored, group, task, bounds>>

\* cancelTransaction of account-service commits the registry row ...
Cancel(t) ==
  /\ t \notin cancelled
  /\ cancelled' = cancelled \cup {t}
  /\ UNCHANGED <<log, tables, buffer, scored, group, task, bounds>>

\* ... and the relay publishes its event later, in no order with the legs'.
PublishCancellation(t) ==
  /\ t \in cancelled
  /\ Len(log[CancelPartition]) < MaxLog
  /\ log' = [log EXCEPT ![CancelPartition] = Append(@, [type |-> "cancelled", tx |-> t])]
  /\ UNCHANGED <<cancelled, tables, buffer, scored, group, task, bounds>>

-----------------------------------------------------------------------------
(* The worker.                                                             *)

\* Mutant: auto.offset.reset = latest.
LatestPosition(p) == IF committed[p] = 1 THEN Len(log[p]) + 1 ELSE committed[p]

\* auto.offset.reset = earliest
StartPosition(p) == committed[p]

Assign(w, p) ==
  /\ owner[p] = NoWorker
  /\ task[w] = NoTask
  /\ owner' = [owner EXCEPT ![p] = w]
  /\ position' = [position EXCEPT ![p] = StartPosition(p)]
  /\ UNCHANGED <<log, cancelled, tables, buffer, scored, committed, task, bounds>>

FirstStep(m) == CASE m.type = "tx" -> "score"
                  [] m.type = "cancelled" -> "resolve"
                  [] m.type = "garbage" -> "commit"

Poll(w, p) ==
  /\ owner[p] = w /\ task[w] = NoTask
  /\ position[p] <= Len(log[p])
  /\ position' = [position EXCEPT ![p] = @ + 1]
  /\ LET m == log[p][position[p]]
     IN  task' = [task EXCEPT ![w] = [message |-> m, step |-> FirstStep(m), level |-> "none",
                                      partition |-> p]]
  /\ UNCHANGED <<log, cancelled, tables, buffer, scored, committed, owner, bounds>>

At(w, step) == task[w] # NoTask /\ task[w].step = step

Goto(w, step) == task' = [task EXCEPT ![w].step = step]

\* score_event, then insert_score; the verdict of this delivery decides about
\* the alert, whatever the row says.
InsertScore(w) ==
  /\ At(w, "score")
  /\ LET l == task[w].message.leg
     IN  \E v \in Verdicts[l[1]] :
           /\ scores' = [scores EXCEPT ![l] = IF @ = "none" THEN v ELSE @]
           /\ task' = [task EXCEPT ![w] = [@ EXCEPT
                         !.level = v, !.step = IF v \in Risky THEN "alert" ELSE "publish"]]
  /\ UNCHANGED <<log, cancelled, alerts, resolved, buffer, scored, group, bounds>>

\* Mutant.
AlwaysOpen(t) == "OPEN"

\* The status a new alert gets from the cancellation registry.
InitialStatus(t) == IF t \in cancelled THEN "CANCELLED" ELSE "OPEN"

InsertAlert(w) ==
  /\ At(w, "alert")
  /\ LET l == task[w].message.leg
     IN  alerts' = [alerts EXCEPT ![l] = IF @ = "none" THEN InitialStatus(l[1]) ELSE @]
  /\ Goto(w, "publish")
  /\ UNCHANGED <<log, cancelled, scores, resolved, buffer, scored, group, bounds>>

Produce(w) ==
  /\ At(w, "publish")
  /\ buffer' = [buffer EXCEPT ![w] = @ \cup {task[w].message.leg}]
  /\ Goto(w, "flush")
  /\ UNCHANGED <<log, cancelled, tables, scored, group, bounds>>

Deliver(w) == /\ scored' = scored \cup buffer[w]
              /\ buffer' = [buffer EXCEPT ![w] = {}]

\* flush(5): its result, the number of events left in the queue, is ignored.
Flush(w) ==
  /\ At(w, "flush")
  /\ \/ Deliver(w) /\ UNCHANGED timeouts
     \/ /\ timeouts < MaxTimeouts
        /\ timeouts' = timeouts + 1
        /\ UNCHANGED <<buffer, scored>>
  /\ Goto(w, "commit")
  /\ UNCHANGED <<log, cancelled, tables, group, errors, moves>>

\* The producer's own thread.
DeliverLate(w) ==
  /\ buffer[w] # {} /\ ~At(w, "flush")
  /\ Deliver(w)
  /\ UNCHANGED <<log, cancelled, tables, group, task, bounds>>

\* Mutant.
CloseAny(t, status) ==
  [l \in Leg |-> IF l[1] = t /\ alerts[l] # "none" THEN status ELSE alerts[l]]

\* resolve_alerts: every OPEN alert of the transaction.
Close(t, status) ==
  [l \in Leg |-> IF l[1] = t /\ alerts[l] = "OPEN" THEN status ELSE alerts[l]]

ResolveAlerts(w) ==
  /\ At(w, "resolve")
  /\ LET t == task[w].message.tx
     IN  alerts' = Close(t, "CANCELLED") /\ resolved' = resolved \cup {t}
  /\ Goto(w, "commit")
  /\ UNCHANGED <<log, cancelled, scores, buffer, scored, group, bounds>>

\* commit(asynchronous=False); it raises when the group took the partition.
CommitPosition(w) ==
  /\ At(w, "commit")
  /\ committed' = [p \in Partitions |->
                     IF owner[p] = w /\ owner[task[w].partition] = w
                     THEN position[p] ELSE committed[p]]
  /\ task' = [task EXCEPT ![w] = NoTask]
  /\ UNCHANGED <<log, cancelled, tables, buffer, scored, owner, position, bounds>>

\* A statement of the handler raises: logged, not committed, and on to the
\* next poll; but a ValueError is taken for garbage and committed.
HandlerRaises(w) ==
  /\ task[w] # NoTask /\ task[w].step \in {"score", "alert", "publish", "resolve"}
  /\ errors < MaxErrors
  /\ errors' = errors + 1
  /\ task' = [task EXCEPT ![w] = NoTask] \/ Goto(w, "commit")
  /\ UNCHANGED <<log, cancelled, tables, buffer, scored, group, timeouts, moves>>

\* The worker crashes, or loses its partitions while it goes on.
LosePartitions(w) ==
  /\ moves < MaxMoves
  /\ \E p \in Partitions : owner[p] = w
  /\ moves' = moves + 1
  /\ owner' = [p \in Partitions |-> IF owner[p] = w THEN NoWorker ELSE owner[p]]
  /\ \/ UNCHANGED <<task, buffer>>
     \/ /\ task' = [task EXCEPT ![w] = NoTask]
        /\ buffer' = [buffer EXCEPT ![w] = {}]
  /\ UNCHANGED <<log, cancelled, tables, scored, committed, position, errors, timeouts>>

\* POST /fraud/alerts/:id/dismiss, by staff.
Dismiss(t) ==
  /\ \E l \in Leg : l[1] = t /\ alerts[l] = "OPEN"
  /\ alerts' = Close(t, "DISMISSED")
  /\ UNCHANGED <<log, cancelled, scores, resolved, buffer, scored, group, task, bounds>>

-----------------------------------------------------------------------------

Init ==
  /\ log = [p \in Partitions |-> <<>>]
  /\ cancelled = {}
  /\ scores = [l \in Leg |-> "none"]
  /\ alerts = [l \in Leg |-> "none"]
  /\ buffer = [w \in Workers |-> {}]
  /\ scored = {}
  /\ committed = [p \in Partitions |-> 1]
  /\ owner = [p \in Partitions |-> NoWorker]
  /\ position = [p \in Partitions |-> 1]
  /\ task = [w \in Workers |-> NoTask]
  /\ resolved = {}
  /\ errors = 0 /\ timeouts = 0 /\ moves = 0

Handle(w) ==
  \/ InsertScore(w) \/ InsertAlert(w) \/ Produce(w) \/ Flush(w)
  \/ ResolveAlerts(w) \/ CommitPosition(w)

Next ==
  \/ \E l \in Leg : PublishEvent(l)
  \/ PublishGarbage
  \/ \E t \in Transactions : Cancel(t) \/ PublishCancellation(t) \/ Dismiss(t)
  \/ \E w \in Workers, p \in Partitions : Assign(w, p) \/ Poll(w, p)
  \/ \E w \in Workers : Handle(w) \/ DeliverLate(w) \/ HandlerRaises(w) \/ LosePartitions(w)

Spec == Init /\ [][Next]_vars

-----------------------------------------------------------------------------
(* Properties.                                                             *)

\* Every variable keeps its type; scores and alerts keep to the CHECKs of
\* their tables.
TypeOK ==
  /\ log \in [Partitions -> Seq(Message)]
  /\ cancelled \in SUBSET Transactions /\ resolved \in SUBSET cancelled
  /\ scores \in [Leg -> Levels \cup {"none"}]
  /\ alerts \in [Leg -> {"none", "OPEN", "CANCELLED", "DISMISSED"}]
  /\ buffer \in [Workers -> SUBSET Leg] /\ scored \in SUBSET Leg
  /\ committed \in [Partitions -> Nat \ {0}] /\ position \in [Partitions -> Nat \ {0}]
  /\ owner \in [Partitions -> Workers \cup {NoWorker}]
  /\ task \in [Workers -> Task \cup {NoTask}]
  /\ errors \in 0..MaxErrors /\ timeouts \in 0..MaxTimeouts /\ moves \in 0..MaxMoves

\* The message at an offset the group has committed.
Passed(m) == \E p \in Partitions : \E o \in 1..(committed[p] - 1) : log[p][o] = m
PassedLegs == {l \in Leg : Passed([type |-> "tx", leg |-> l])}

\* Once a cancellation was handled no alert of its transaction is OPEN again,
\* in whatever order legs, duplicates and cancellations are consumed.
CancelledStaysClosed == \A l \in Leg : l[1] \in resolved => alerts[l] # "OPEN"

\* A closed alert keeps its verdict: a dismissal is not turned into a
\* cancellation, nor reopened by a redelivery.
ClosedAlertsStay ==
  [][\A l \in Leg : alerts[l] \in {"CANCELLED", "DISMISSED"} => alerts'[l] = alerts[l]]_vars

\* Every leg behind the committed offset has a score, every cancellation there
\* was handled.
CommittedIsHandled ==
  /\ \A l \in PassedLegs : scores[l] # "none"
  /\ \A t \in Transactions : Passed([type |-> "cancelled", tx |-> t]) => t \in resolved

\* Crashes, rebalances, zombies and garbage lose nothing: only a handler that raised
\* leaves a message unhandled behind the committed offset, and only that or a flush
\* that timed out leaves a scored event unpublished there.
OnlyErrorsSkip ==
  /\ errors = 0 => CommittedIsHandled
  /\ errors = 0 /\ timeouts = 0 => PassedLegs \subseteq scored

=============================================================================
