---------------------------- MODULE OutboxRelay ----------------------------
(***************************************************************************)
(* The outbox relay of services/account-service: every replica repeats a   *)
(* tick that claims pending rows FOR UPDATE SKIP LOCKED, publishes them    *)
(* one by one and marks them, all inside one database transaction.         *)
(*                                                                         *)
(* A publication is outside that transaction: when the transaction rolls   *)
(* back (a serialization conflict, a lost connection, a crash of the       *)
(* replica) the marks are gone and the messages stay in Kafka.  A restart  *)
(* needs no action of its own, since a replica keeps nothing across ticks. *)
(*                                                                         *)
(* A row's created_at is the start of the transaction that inserts it, so  *)
(* its place in that order is taken before anybody can see it.             *)
(*                                                                         *)
(* An operator marked "Mutant" is the definition below it with a plausible *)
(* bug; no specification uses it.                                          *)
(***************************************************************************)
EXTENDS EventLog

CONSTANTS
  Replicas,      \* account-service processes that run a relay
  Keys,          \* partition keys of events: account ids
  PartitionOf,   \* [Keys -> Partitions], the default partitioner
  Batch,         \* OUTBOX_BATCH
  MaxAttempts,   \* OUTBOX_MAX_ATTEMPTS
  MaxRows,       \* bound: money operations ever begun
  MaxFaults,     \* bound: publications that fail
  MaxRollbacks   \* bound: ticks that roll back

Ids == 1..MaxRows

ASSUME RelayAssumption ==
  /\ Ids \subseteq Events \ Poison
  /\ PartitionOf \in [Keys -> Partitions]
  /\ Batch \in Nat \ {0} /\ MaxAttempts \in Nat \ {0}
  /\ MaxRows \in Nat /\ MaxFaults \in Nat /\ MaxRollbacks \in Nat

VARIABLES
  outbox,     \* rows of event_outbox, in created_at order; OPEN until committed
  todo,       \* rows each replica has claimed and not handled yet
  marks,      \* rows as its open transaction has marked them
  excused,    \* history: how often a row's publication was undone or unclear
  skipped,    \* history: rows that could not be claimed when a replica claimed its batch
  faults, rollbacks  \* counters behind the bounds

relayVars == <<outbox, todo, marks, excused, skipped, faults, rollbacks>>
vars == <<log, relayVars>>

Row == [key : Keys, status : {"OPEN", "PENDING", "SENT", "FAILED"}, attempts : 0..MaxAttempts]
NoMarks == [i \in {} |-> 0]

-----------------------------------------------------------------------------

Idle(r) == todo[r] = {} /\ marks[r] = NoMarks

\* The rows an open tick holds locked.
Locked(r) == todo[r] \cup DOMAIN marks[r]

\* Mutant.
ClaimableUnlocked(i) == outbox[i].status = "PENDING"

\* Mutant.
ClaimableFresh(i) ==
  outbox[i].status = "PENDING" /\ outbox[i].attempts = 0 /\ \A s \in Replicas : i \notin Locked(s)

Claimable(i) == outbox[i].status = "PENDING" /\ \A s \in Replicas : i \notin Locked(s)

Pending == {i \in DOMAIN outbox : Claimable(i)}

\* Mutant.
Newest(ids) == {i \in ids : Cardinality({j \in ids : j > i}) < Batch}

\* ORDER BY created_at LIMIT OUTBOX_BATCH
Oldest(ids) == {i \in ids : Cardinality({j \in ids : j < i}) < Batch}

\* Rows that are not there yet, or locked by another tick.
Unclaimable == {i \in DOMAIN outbox : outbox[i].status \in {"OPEN", "PENDING"} /\ ~Claimable(i)}

\* claimPendingBatch: the oldest pending rows no other tick has locked.
ClaimBatch(r) ==
  /\ Idle(r)
  /\ Pending # {}
  /\ todo' = [todo EXCEPT ![r] = Oldest(Pending)]
  /\ skipped' = [skipped EXCEPT ![r] = Unclaimable]
  /\ UNCHANGED <<outbox, marks, log, excused, faults, rollbacks>>

Sent(i) == [outbox[i] EXCEPT !.status = "SENT"]

\* markFailed
Failed(i) ==
  [outbox[i] EXCEPT !.attempts = @ + 1,
                    !.status = IF outbox[i].attempts + 1 >= MaxAttempts
                               THEN "FAILED" ELSE "PENDING"]

Mark(r, i, row) ==
  /\ marks' = [marks EXCEPT ![r] = [j \in DOMAIN marks[r] \cup {i} |->
                                      IF j = i THEN row ELSE marks[r][j]]]
  /\ todo' = [todo EXCEPT ![r] = @ \ {i}]

Land(i) == log' = [log EXCEPT ![PartitionOf[outbox[i].key]] = Append(@, i)]

\* Rows are published in the order of the batch.
Due(r, i) == i \in todo[r] /\ \A j \in todo[r] : i <= j

\* publishOne, then markSent
Publish(r, i) ==
  /\ Due(r, i)
  /\ Land(i) /\ Mark(r, i, Sent(i))
  /\ UNCHANGED <<outbox, excused, skipped, faults, rollbacks>>

\* Mutant.
PublishFailsSilently(r, i) ==
  /\ Due(r, i)
  /\ faults < MaxFaults
  /\ faults' = faults + 1
  /\ Mark(r, i, Sent(i))
  /\ UNCHANGED <<outbox, log, excused, skipped, rollbacks>>

\* send gives up after its own retries, then markFailed.  The broker may have
\* the message all the same.  The tick goes on with the next row.
PublishFails(r, i) ==
  /\ Due(r, i)
  /\ faults < MaxFaults
  /\ faults' = faults + 1
  /\ Mark(r, i, Failed(i))
  /\ \/ UNCHANGED <<log, excused>>
     \/ Land(i) /\ excused' = [excused EXCEPT ![i] = @ + 1]
  /\ UNCHANGED <<outbox, skipped, rollbacks>>

\* COMMIT of the tick, also when its acknowledgement is lost.
Commit(r) ==
  /\ todo[r] = {} /\ marks[r] # NoMarks
  /\ outbox' = [i \in DOMAIN outbox |-> IF i \in DOMAIN marks[r] THEN marks[r][i]
                                                                 ELSE outbox[i]]
  /\ marks' = [marks EXCEPT ![r] = NoMarks]
  /\ skipped' = [skipped EXCEPT ![r] = {}]
  /\ UNCHANGED <<todo, log, excused, faults, rollbacks>>

\* The transaction aborts and is run again, or the replica dies.
Rollback(r) ==
  /\ ~Idle(r)
  /\ rollbacks < MaxRollbacks
  /\ rollbacks' = rollbacks + 1
  /\ excused' = [i \in Ids |-> IF i \in DOMAIN marks[r] /\ marks[r][i].status = "SENT"
                               THEN excused[i] + 1 ELSE excused[i]]
  /\ todo' = [todo EXCEPT ![r] = {}]
  /\ marks' = [marks EXCEPT ![r] = NoMarks]
  /\ skipped' = [skipped EXCEPT ![r] = {}]
  /\ UNCHANGED <<outbox, log, faults>>

\* A money operation begins; it may wait for the lock of its account.
Begin(k) ==
  /\ Len(outbox) < MaxRows
  /\ outbox' = Append(outbox, [key |-> k, status |-> "OPEN", attempts |-> 0])
  /\ UNCHANGED <<todo, marks, log, excused, skipped, faults, rollbacks>>

\* enqueue, committed together with the ledger rows of the operation, if it is.
Enqueue(i) ==
  /\ outbox[i].status = "OPEN"
  /\ outbox' = [outbox EXCEPT ![i].status = "PENDING"]
  /\ UNCHANGED <<todo, marks, log, excused, skipped, faults, rollbacks>>

-----------------------------------------------------------------------------

Init ==
  /\ outbox = <<>>
  /\ todo = [r \in Replicas |-> {}]
  /\ marks = [r \in Replicas |-> NoMarks]
  /\ log = [p \in Partitions |-> <<>>]
  /\ excused = [i \in Ids |-> 0]
  /\ skipped = [r \in Replicas |-> {}]
  /\ faults = 0
  /\ rollbacks = 0

Tick(r) ==
  \/ ClaimBatch(r) \/ Commit(r)
  \/ \E i \in todo[r] : Publish(r, i) \/ PublishFails(r, i)

Next ==
  \/ \E k \in Keys : Begin(k)
  \/ \E i \in DOMAIN outbox : Enqueue(i)
  \/ \E r \in Replicas : Tick(r) \/ Rollback(r)

\* startRelay sets the timer again after every tick, so a tick that can go on
\* does; nothing makes faults or rollbacks happen.
Fairness == \A r \in Replicas : WF_vars(Tick(r))

Spec == Init /\ [][Next]_vars /\ Fairness

-----------------------------------------------------------------------------
(* Properties.                                                             *)

\* Every variable keeps its type; no row is tried more than MaxAttempts times.
TypeOK ==
  /\ outbox \in Seq(Row) /\ Len(outbox) <= MaxRows
  /\ todo \in [Replicas -> SUBSET Ids]
  /\ marks \in [Replicas -> UNION {[ids -> Row] : ids \in SUBSET Ids}]
  /\ log \in [Partitions -> Seq(Events)]
  /\ excused \in [Ids -> Nat]
  /\ skipped \in [Replicas -> SUBSET Ids]
  /\ faults \in 0..MaxFaults /\ rollbacks \in 0..MaxRollbacks

Copies(i) ==
  LET p == PartitionOf[outbox[i].key]
  IN  Cardinality({n \in DOMAIN log[p] : log[p][n] = i})

\* A row's status is honest: SENT means Kafka has the message, FAILED that all
\* attempts were used, PENDING that some are left.
StatusIsHonest ==
  \A i \in DOMAIN outbox :
    CASE outbox[i].status = "SENT"    -> Copies(i) > 0
      [] outbox[i].status = "FAILED"  -> outbox[i].attempts = MaxAttempts
      [] outbox[i].status = "PENDING" -> outbox[i].attempts < MaxAttempts
      [] outbox[i].status = "OPEN"    -> Copies(i) = 0

\* Several replicas relay at once without publishing a row twice: every copy
\* after the first is owed to a rollback or to a send whose outcome was unclear.
NoDoublePublishing == \A i \in DOMAIN outbox : Copies(i) <= 1 + excused[i]

Committed(i) == i \in DOMAIN outbox /\ outbox[i].status # "OPEN"
Settled(i)   == i \in DOMAIN outbox /\ outbox[i].status \in {"SENT", "FAILED"}

\* The relay never leaves a committed row behind: each is sent or given up.
EveryRowSettled == \A i \in Ids : Committed(i) ~> Settled(i)

\* Events of one account reach Kafka in the order they were created, but for known
\* causes: an event overtakes an older one only if a send of that one failed, or if
\* it was still uncommitted, or in another replica's batch, when the batch of the
\* overtaking event was claimed.
OvertakingHasACause ==
  [][\A r \in Replicas : \A i \in DOMAIN marks'[r] \ DOMAIN marks[r] : \A j \in 1..(i - 1) :
       marks'[r][i].status = "SENT" /\ outbox[j].key = outbox[i].key
       => \/ Copies(j) > 0
          \/ outbox[j].attempts > 0 \/ j \in DOMAIN marks[r]
          \/ j \in skipped[r]]_vars

=============================================================================
