---------------------------- MODULE AuditWorker ----------------------------
(***************************************************************************)
(* services/audit-service: a consumer group that writes one row of         *)
(* audit_logs per (transaction, account, event) and commits an offset only *)
(* after the rows are durable.                                             *)
(*                                                                         *)
(* A worker handles one message at a time (kafkajs, one partition at a     *)
(* time).  Its session may expire while it handles one: the partition      *)
(* moves to another worker and the first one still runs, as a zombie whose *)
(* offset commits the broker refuses.                                      *)
(*                                                                         *)
(* An operator marked "Mutant" is the definition below it with a plausible *)
(* bug; no specification uses it.                                          *)
(***************************************************************************)
EXTENDS EventLog

CONSTANTS
  Workers,     \* audit-service processes
  Accounts,
  Affected,    \* [Events -> set of accounts]: one for a transaction event, all
               \* that were compensated for a cancellation, none to ignore it
  NoWorker, NoTask,
  MaxDbFaults,  \* bound: database errors
  MaxMoves      \* bound: crashes and expired sessions

ASSUME AuditAssumption ==
  /\ Affected \in [Events -> SUBSET Accounts]
  /\ NoWorker \notin Workers
  /\ MaxDbFaults \in Nat /\ MaxMoves \in Nat

VARIABLES
  committed,  \* the group's next offset in each partition
  owner,      \* the worker a partition is assigned to
  position,   \* the next offset its owner will fetch
  task,       \* what each worker is handling
  audit,      \* [event and account -> rows in audit_logs]
  dbFaults, moves  \* counters behind the bounds

workerVars == <<committed, owner, position, task, audit, dbFaults, moves>>

Task == [partition : Partitions, offset : Nat, stored : BOOLEAN]

\* toRows: the keys of the rows of event e.
Rows(e) == IF e \in Poison THEN {} ELSE {<<e, a>> : a \in Affected[e]}
RowKeys == Events \X Accounts

EventOf(t) == log[t.partition][t.offset]

-----------------------------------------------------------------------------

\* A partition without an owner goes to a worker that is between two messages:
\* a worker joins the group again only then.
Assign(w, p) ==
  /\ owner[p] = NoWorker
  /\ task[w] = NoTask
  /\ owner' = [owner EXCEPT ![p] = w]
  /\ position' = [position EXCEPT ![p] = committed[p]]
  /\ UNCHANGED <<log, committed, task, audit, dbFaults, moves>>

Fetch(w, p) ==
  /\ owner[p] = w
  /\ task[w] = NoTask
  /\ position[p] <= Len(log[p])
  /\ task' = [task EXCEPT ![w] = [partition |-> p, offset |-> position[p], stored |-> FALSE]]
  /\ UNCHANGED <<log, committed, owner, position, audit, dbFaults, moves>>

\* Mutant.
InsertFirst(rows) ==
  LET first == IF rows = {} THEN {} ELSE {CHOOSE k \in rows : TRUE}
  IN  audit' = [k \in RowKeys |-> IF k \in first /\ audit[k] = 0 THEN 1 ELSE audit[k]]

\* insertRows: all rows of a message in one transaction, ON CONFLICT DO NOTHING.
InsertRows(rows) ==
  audit' = [k \in RowKeys |-> IF k \in rows /\ audit[k] = 0 THEN 1 ELSE audit[k]]

Store(w) ==
  /\ task[w] # NoTask /\ ~task[w].stored
  /\ EventOf(task[w]) \notin Poison
  /\ InsertRows(Rows(EventOf(task[w])))
  /\ task' = [task EXCEPT ![w].stored = TRUE]
  /\ UNCHANGED <<log, committed, owner, position, dbFaults, moves>>

\* insertRows throws, before or after its COMMIT took effect; the message is
\* handled again from its offset.
StoreFails(w) ==
  /\ task[w] # NoTask /\ ~task[w].stored
  /\ EventOf(task[w]) \notin Poison
  /\ dbFaults < MaxDbFaults
  /\ dbFaults' = dbFaults + 1
  /\ UNCHANGED audit \/ InsertRows(Rows(EventOf(task[w])))
  /\ task' = [task EXCEPT ![w] = NoTask]
  /\ UNCHANGED <<log, committed, owner, position, moves>>

\* The offset may be committed; a poison message has nothing to store.
Done(t) == t.stored \/ EventOf(t) \in Poison

\* Mutant.
SameOffset(t) == t.offset

NextOffset(t) == t.offset + 1

\* commitOffsets; a zombie's commit is refused and it starts over.
CommitOffset(w) ==
  /\ task[w] # NoTask /\ Done(task[w])
  /\ LET p == task[w].partition
     IN  IF owner[p] = w
         THEN /\ committed' = [committed EXCEPT ![p] = NextOffset(task[w])]
              /\ position' = [position EXCEPT ![p] = NextOffset(task[w])]
         ELSE UNCHANGED <<committed, position>>
  /\ task' = [task EXCEPT ![w] = NoTask]
  /\ UNCHANGED <<log, owner, audit, dbFaults, moves>>

\* The group takes w's partitions away: its session expired while it goes on,
\* or it crashed and its task is gone.
LosePartitions(w) ==
  /\ moves < MaxMoves
  /\ \E p \in Partitions : owner[p] = w
  /\ moves' = moves + 1
  /\ owner' = [p \in Partitions |-> IF owner[p] = w THEN NoWorker ELSE owner[p]]
  /\ UNCHANGED task \/ task' = [task EXCEPT ![w] = NoTask]
  /\ UNCHANGED <<log, committed, position, audit, dbFaults>>

-----------------------------------------------------------------------------

WorkerInit ==
  /\ committed = [p \in Partitions |-> 1]
  /\ owner = [p \in Partitions |-> NoWorker]
  /\ position = [p \in Partitions |-> 1]
  /\ task = [w \in Workers |-> NoTask]
  /\ audit = [k \in RowKeys |-> 0]
  /\ dbFaults = 0
  /\ moves = 0

Handle(w) == Store(w) \/ CommitOffset(w)

WorkerNext ==
  \/ \E w \in Workers, p \in Partitions : Assign(w, p) \/ Fetch(w, p)
  \/ \E w \in Workers : Handle(w) \/ StoreFails(w) \/ LosePartitions(w)

-----------------------------------------------------------------------------
(* Properties.                                                             *)

\* Every variable keeps its type; no key ever has two rows (the primary key of
\* audit_logs).
WorkerTypeOK ==
  /\ committed \in [Partitions -> Nat] /\ position \in [Partitions -> Nat]
  /\ owner \in [Partitions -> Workers \cup {NoWorker}]
  /\ task \in [Workers -> Task \cup {NoTask}]
  /\ audit \in [RowKeys -> {0, 1}]
  /\ dbFaults \in 0..MaxDbFaults /\ moves \in 0..MaxMoves

=============================================================================
