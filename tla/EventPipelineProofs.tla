------------------------- MODULE EventPipelineProofs -------------------------
(***************************************************************************)
(* Proofs about the way of an event: first of the relay's safety           *)
(* properties, for any replicas, keys, partitions, batches and numbers of  *)
(* attempts, and any order of ticks, failures and rollbacks; then that the *)
(* pipeline, whose relay part is OutboxRelay unchanged, implements         *)
(* EventTrail step by step, for any workers and any order of their steps.  *)
(***************************************************************************)
EXTENDS EventPipeline, SequenceTheorems, FiniteSetTheorems, TLAPS

-----------------------------------------------------------------------------
(* The inductive invariant.                                                *)

\* Claimed rows are pending, and claimed once.
LocksFit ==
  \A r \in Replicas :
    /\ \A i \in Locked(r) : i \in DOMAIN outbox /\ outbox[i].status = "PENDING"
    /\ \A i \in todo[r] : i \notin DOMAIN marks[r]
    /\ \A s \in Replicas \ {r} : \A i \in Locked(r) : i \notin Locked(s)

\* What a row's status promises.
Honest(i, row) ==
  /\ row.status = "SENT" => Copies(i) > 0
  /\ row.status = "FAILED" => row.attempts = MaxAttempts
  /\ row.status = "PENDING" => row.attempts < MaxAttempts
  /\ row.status = "OPEN" => Copies(i) = 0 /\ row.attempts = 0

RowsFit == \A i \in DOMAIN outbox : Honest(i, outbox[i])

MarksFit ==
  \A r \in Replicas : \A i \in DOMAIN marks[r] :
    /\ Honest(i, marks[r][i])
    /\ marks[r][i].status # "OPEN" /\ marks[r][i].key = outbox[i].key

\* Of the rows only committed ones are in Kafka.
LogFits ==
  \A p \in Partitions : \A n \in DOMAIN log[p] :
    \/ log[p][n] \in Poison
    \/ log[p][n] \in DOMAIN outbox /\ outbox[log[p][n]].status # "OPEN"

\* A copy that is neither excused nor told by the row is told by a mark.
Told(i) ==
  \/ outbox[i].status = "SENT"
  \/ \E r \in Replicas : i \in DOMAIN marks[r] /\ marks[r][i].status = "SENT"

CopiesTold ==
  \A i \in DOMAIN outbox : /\ Copies(i) <= 1 + excused[i]
                           /\ ~Told(i) => Copies(i) <= excused[i]

\* Of the older rows a batch has left out only those that were settled or
\* could not be claimed.
InBatch(r, j) == j \in skipped[r] \cup Locked(r) \/ outbox[j].status \in {"SENT", "FAILED"}

BatchesFit == \A r \in Replicas : \A i \in todo[r] : \A j \in 1..(i - 1) : InBatch(r, j)

Inv ==
  /\ TypeOK
  /\ LocksFit /\ RowsFit /\ MarksFit /\ LogFits /\ CopiesTold /\ BatchesFit

-----------------------------------------------------------------------------
(* Lemmas about data.                                                      *)

At(s, x) == {n \in DOMAIN s : s[n] = x}

\* The number of places of an element is a number, and an append makes it one more.
LEMMA Places ==
  ASSUME NEW S, NEW s \in Seq(S), NEW x
  PROVE  IsFiniteSet(At(s, x)) /\ Cardinality(At(s, x)) \in Nat
<1>1. DOMAIN s = 1..Len(s) /\ Len(s) \in Nat
  BY LenProperties
<1>2. IsFiniteSet(1..Len(s)) /\ At(s, x) \subseteq 1..Len(s)
  BY <1>1, FS_Interval DEF At
<1> QED BY <1>2, FS_Subset, FS_CardinalityType

LEMMA AppendCounts ==
  ASSUME NEW S, NEW s \in Seq(S), NEW e \in S, NEW x
  PROVE  Cardinality(At(Append(s, e), x)) = Cardinality(At(s, x)) + (IF e = x THEN 1 ELSE 0)
<1> DEFINE t == Append(s, e)
<1>1. /\ DOMAIN s = 1..Len(s) /\ Len(s) \in Nat
      /\ DOMAIN t = 1..(Len(s) + 1) /\ t[Len(s) + 1] = e
      /\ \A n \in 1..Len(s) : t[n] = s[n]
  BY LenProperties
<1> HIDE DEF t
<1>2. IsFiniteSet(At(s, x)) /\ Cardinality(At(s, x)) \in Nat
  BY Places
<1>3. CASE e = x
  <2>1. At(t, x) = At(s, x) \cup {Len(s) + 1} /\ Len(s) + 1 \notin At(s, x)
    BY <1>1, <1>3 DEF At
  <2>2. Cardinality(At(s, x) \cup {Len(s) + 1}) = Cardinality(At(s, x)) + 1
    BY <1>2, <2>1, FS_AddElement
  <2> QED BY <1>3, <2>1, <2>2 DEF t
<1>4. CASE e # x
  <2>1. At(t, x) = At(s, x)
    BY <1>1, <1>4 DEF At
  <2> QED BY <1>2, <1>4, <2>1 DEF t
<1> QED BY <1>3, <1>4

\* Whatever is older than one of the oldest is one of them.
LEMMA OldestFirst ==
  ASSUME NEW n \in Nat, NEW ids, ids \subseteq 1..n, NEW i \in Oldest(ids),
         NEW j \in ids, j < i
  PROVE  j \in Oldest(ids)
<1> DEFINE Older(k) == {l \in ids : l < k}
<1>1. i \in ids /\ i \in Nat /\ j \in Nat /\ \A l \in ids : l \in Nat
  BY DEF Oldest
<1>2. Older(j) \subseteq Older(i)
  <2> SUFFICES ASSUME NEW l \in ids, l < j
               PROVE  l < i
    OBVIOUS
  <2> QED BY <1>1
<1>3. IsFiniteSet(Older(i))
  <2>1. IsFiniteSet(1..n)
    BY FS_Interval
  <2>2. Older(i) \in SUBSET (1..n)
    OBVIOUS
  <2> QED BY <2>1, <2>2, FS_Subset
<1>4. /\ Cardinality(Older(j)) <= Cardinality(Older(i))
      /\ Cardinality(Older(i)) \in Nat /\ Cardinality(Older(j)) \in Nat
  <2>1. Older(j) \in SUBSET Older(i)
    BY <1>2
  <2> HIDE DEF Older
  <2> QED BY <1>3, <2>1, FS_Subset, FS_CardinalityType
<1>5. Cardinality(Older(i)) < Batch /\ Batch \in Nat
  BY RelayAssumption DEF Oldest
<1>6. Cardinality(Older(j)) < Batch
  <2> HIDE DEF Older
  <2> QED BY <1>4, <1>5
<1> QED BY <1>6 DEF Oldest

\* What the types say.
LEMMA Reads ==
  ASSUME TypeOK
  PROVE  /\ Len(outbox) \in 0..MaxRows /\ DOMAIN outbox = 1..Len(outbox)
         /\ \A i \in DOMAIN outbox : /\ outbox[i] \in Row /\ i \in Ids
                                     /\ i \in Events /\ i \notin Poison
                                     /\ outbox[i].attempts \in Nat
                                     /\ PartitionOf[outbox[i].key] \in Partitions
         /\ \A p \in Partitions : log[p] \in Seq(Events)
         /\ \A r \in Replicas : /\ DOMAIN marks[r] \subseteq Ids
                                /\ marks[r] \in [DOMAIN marks[r] -> Row]
                                /\ \A i \in DOMAIN marks[r] : marks[r][i] \in Row
<1>1. Len(outbox) \in 0..MaxRows /\ DOMAIN outbox = 1..Len(outbox)
  BY LenProperties, RelayAssumption DEF TypeOK
<1>2. ASSUME NEW i \in DOMAIN outbox
      PROVE  /\ outbox[i] \in Row /\ i \in Ids /\ outbox[i].attempts \in Nat
             /\ i \in Events /\ i \notin Poison
             /\ PartitionOf[outbox[i].key] \in Partitions
  <2>1. outbox[i] \in Row /\ i \in Ids
    BY <1>1, RelayAssumption DEF TypeOK, Ids
  <2> QED BY <2>1, RelayAssumption DEF Row
<1>3. ASSUME NEW r \in Replicas
      PROVE  /\ DOMAIN marks[r] \subseteq Ids /\ marks[r] \in [DOMAIN marks[r] -> Row]
             /\ \A i \in DOMAIN marks[r] : marks[r][i] \in Row
  <2>1. PICK ids \in SUBSET Ids : marks[r] \in [ids -> Row]
    BY DEF TypeOK
  <2> QED BY <2>1
<1> QED BY <1>1, <1>2, <1>3 DEF TypeOK

\* The copies of a row are a number.
LEMMA CopiesAre ==
  ASSUME TypeOK, NEW i \in DOMAIN outbox
  PROVE  /\ Copies(i) = Cardinality(At(log[PartitionOf[outbox[i].key]], i))
         /\ Copies(i) \in Nat
<1>1. Copies(i) = Cardinality(At(log[PartitionOf[outbox[i].key]], i))
  BY DEF Copies, At
<1> QED BY <1>1, Reads, Places

LEMMA CopiesKept ==
  ASSUME NEW i, outbox'[i].key = outbox[i].key, UNCHANGED log
  PROVE  Copies(i)' = Copies(i)
  BY DEF Copies

LEMMA CopiesLand ==
  ASSUME TypeOK, NEW k \in DOMAIN outbox, Land(k), UNCHANGED outbox, NEW i \in DOMAIN outbox
  PROVE  /\ Copies(i)' = Copies(i) + (IF i = k THEN 1 ELSE 0)
         /\ log' \in [Partitions -> Seq(Events)]
<1> DEFINE q == PartitionOf[outbox[k].key]
           p == PartitionOf[outbox[i].key]
<1>1. q \in Partitions /\ p \in Partitions /\ k \in Events /\ i \in Events
  BY Reads
<1>2. /\ log' = [log EXCEPT ![q] = Append(@, k)]
      /\ log' \in [Partitions -> Seq(Events)]
      /\ log[p] \in Seq(Events) /\ log'[p] = IF p = q THEN Append(log[p], k) ELSE log[p]
  BY <1>1 DEF TypeOK, Land
<1>3. Copies(i)' = Cardinality(At(log'[p], i)) /\ Copies(i) = Cardinality(At(log[p], i))
  BY DEF Copies, At
<1>4. Copies(i) \in Nat
  BY CopiesAre
<1> HIDE DEF q, p
<1>5. CASE i = k
  <2>1. p = q
    BY <1>5 DEF p, q
  <2>2. Cardinality(At(Append(log[p], k), i)) = Cardinality(At(log[p], i)) + 1
    BY <1>1, <1>2, <1>5, AppendCounts
  <2> QED BY <1>2, <1>3, <1>5, <2>1, <2>2
<1>6. CASE i # k
  <2>1. Cardinality(At(Append(log[p], k), i)) = Cardinality(At(log[p], i)) + 0
    BY <1>1, <1>2, <1>6, AppendCounts
  <2> QED BY <1>2, <1>3, <1>4, <1>6, <2>1
<1> QED BY <1>2, <1>5, <1>6

-----------------------------------------------------------------------------
(* Money operations.                                                       *)

LEMMA BeginInv ==
  ASSUME Inv, NEW k \in Keys, Begin(k)
  PROVE  Inv'
<1> DEFINE new == [key |-> k, status |-> "OPEN", attempts |-> 0]
<1>0. PICK n : n = Len(outbox) + 1
  OBVIOUS
<1>1. /\ TypeOK /\ Len(outbox) < MaxRows /\ outbox' = Append(outbox, new)
      /\ UNCHANGED <<todo, marks, log, excused, skipped, faults, rollbacks>>
  BY DEF Inv, Begin
<1>2. new \in Row /\ new.status = "OPEN" /\ new.key = k /\ new.key \in Keys
  BY RelayAssumption DEF Row
<1> HIDE DEF new
<1>3. /\ outbox' \in Seq(Row) /\ Len(outbox') = n /\ n = Len(outbox) + 1 /\ Len(outbox) \in Nat
      /\ DOMAIN outbox = 1..Len(outbox) /\ DOMAIN outbox' = 1..n
      /\ outbox'[n] = new /\ \A i \in DOMAIN outbox : outbox'[i] = outbox[i]
  BY <1>0, <1>1, <1>2, LenProperties DEF TypeOK
<1>4. TypeOK'
  BY <1>1, <1>3, RelayAssumption DEF TypeOK
<1>5. \A i \in DOMAIN outbox : Copies(i)' = Copies(i)
  BY <1>1, <1>3, CopiesKept
<1>6. Copies(n)' = 0
  <2> DEFINE p == PartitionOf[k]
  <2>1. Copies(n)' = Cardinality(At(log[p], n))
    BY <1>1, <1>2, <1>3 DEF Copies, At
  <2>2. p \in Partitions
    BY RelayAssumption
  <2>3. n \notin DOMAIN outbox /\ n \notin Poison
    BY <1>1, <1>3, RelayAssumption DEF Ids
  <2>4. At(log[p], n) = {}
    BY <2>2, <2>3 DEF Inv, LogFits, At
  <2> QED BY <2>1, <2>4, FS_EmptySet
<1>7. DOMAIN outbox' = DOMAIN outbox \cup {n} /\ n \notin DOMAIN outbox
  BY <1>3
<1>8. LocksFit'
  BY <1>1, <1>3, <1>7 DEF Inv, LocksFit, Locked
<1>9. RowsFit' /\ MarksFit'
  <2>1. \A r \in Replicas : \A i \in DOMAIN marks[r] : i \in DOMAIN outbox
    BY DEF Inv, LocksFit, Locked
  <2>2. \A i \in DOMAIN outbox : \A row : Honest(i, row) => Honest(i, row)'
    BY <1>5 DEF Honest
  <2>3. Honest(n, new)'
    BY <1>2, <1>6 DEF Honest, new
  <2>4. RowsFit'
    BY <1>3, <1>7, <2>2, <2>3 DEF Inv, RowsFit, Honest
  <2> QED BY <1>1, <1>3, <1>5, <2>1, <2>4 DEF Inv, MarksFit, Honest
<1>10. LogFits'
  BY <1>1, <1>3, <1>7 DEF Inv, LogFits
<1>11. CopiesTold'
  <2>1. \A i \in DOMAIN outbox : Told(i)' <=> Told(i)
    BY <1>1, <1>3 DEF Told
  <2>2. n \in Ids /\ excused[n] \in Nat
    BY <1>1, <1>3, RelayAssumption DEF TypeOK, Ids
  <2> QED BY <1>1, <1>5, <1>6, <1>7, <2>1, <2>2 DEF Inv, CopiesTold
<1>12. BatchesFit'
  <2> SUFFICES ASSUME NEW r \in Replicas, NEW i \in todo[r], NEW j \in 1..(i - 1)
               PROVE  InBatch(r, j)'
    BY <1>1 DEF BatchesFit
  <2>1. i \in DOMAIN outbox /\ InBatch(r, j)
    BY DEF Inv, LocksFit, Locked, BatchesFit
  <2>2. outbox'[j] = outbox[j]
    BY <1>3, <2>1
  <2> QED BY <1>1, <2>1, <2>2 DEF InBatch, Locked
<1> QED BY <1>4, <1>8, <1>9, <1>10, <1>11, <1>12 DEF Inv

LEMMA EnqueueInv ==
  ASSUME Inv, NEW k \in DOMAIN outbox, Enqueue(k)
  PROVE  Inv'
<1>1. /\ TypeOK /\ outbox[k].status = "OPEN"
      /\ outbox' = [outbox EXCEPT ![k].status = "PENDING"]
      /\ UNCHANGED <<todo, marks, log, excused, skipped, faults, rollbacks>>
  BY DEF Inv, Enqueue
<1>2. /\ DOMAIN outbox = 1..Len(outbox) /\ outbox[k] \in Row
      /\ DOMAIN outbox' = DOMAIN outbox
      /\ \A i \in DOMAIN outbox \ {k} : outbox'[i] = outbox[i]
      /\ outbox'[k] \in Row /\ outbox'[k].status = "PENDING"
      /\ outbox'[k].key = outbox[k].key /\ outbox'[k].attempts = outbox[k].attempts
  BY <1>1, Reads DEF Row
<1>3. Len(outbox') = Len(outbox) /\ outbox' \in Seq(Row)
  BY <1>1, <1>2 DEF TypeOK
<1>4. TypeOK'
  BY <1>1, <1>3 DEF TypeOK
<1>5. \A i \in DOMAIN outbox : Copies(i)' = Copies(i)
  BY <1>1, <1>2, CopiesKept
<1>6. \A r \in Replicas : k \notin Locked(r)
  BY <1>1 DEF Inv, LocksFit
<1>7. LocksFit'
  BY <1>1, <1>2, <1>6 DEF Inv, LocksFit, Locked
<1>8. \A i \in DOMAIN outbox : \A row : Honest(i, row)' <=> Honest(i, row)
  BY <1>5 DEF Honest
<1>9. RowsFit'
  <2>1. Honest(k, outbox'[k])
    BY <1>1, <1>2, RelayAssumption DEF Inv, RowsFit, Honest
  <2> QED BY <1>2, <1>5, <2>1 DEF Inv, RowsFit, Honest
<1>10. MarksFit'
  <2>1. \A r \in Replicas : \A i \in DOMAIN marks[r] : i \in DOMAIN outbox \ {k}
    BY <1>6 DEF Inv, LocksFit, Locked
  <2> QED BY <1>1, <1>2, <1>5, <2>1 DEF Inv, MarksFit, Honest
<1>11. LogFits'
  BY <1>1, <1>2 DEF Inv, LogFits
<1>12. CopiesTold'
  <2>1. \A i \in DOMAIN outbox : Told(i)' <=> Told(i)
    BY <1>1, <1>2 DEF Told
  <2> QED BY <1>1, <1>2, <1>5, <2>1 DEF Inv, CopiesTold
<1>13. BatchesFit'
  <2> SUFFICES ASSUME NEW r \in Replicas, NEW i \in todo[r], NEW j \in 1..(i - 1)
               PROVE  InBatch(r, j)'
    BY <1>1 DEF BatchesFit
  <2>1. InBatch(r, j) /\ i \in DOMAIN outbox /\ j \in DOMAIN outbox
    BY <1>2, Reads DEF Inv, LocksFit, Locked, BatchesFit
  <2> QED BY <1>1, <1>2, <2>1 DEF InBatch, Locked
<1> QED BY <1>4, <1>7, <1>9, <1>10, <1>11, <1>12, <1>13 DEF Inv

-----------------------------------------------------------------------------
(* Ticks.                                                                  *)

LEMMA ClaimBatchInv ==
  ASSUME Inv, NEW r \in Replicas, ClaimBatch(r)
  PROVE  Inv'
<1>1. /\ TypeOK /\ todo[r] = {} /\ marks[r] = NoMarks
      /\ todo' = [todo EXCEPT ![r] = Oldest(Pending)]
      /\ skipped' = [skipped EXCEPT ![r] = Unclaimable]
      /\ UNCHANGED <<outbox, marks, log, excused, faults, rollbacks>>
  BY DEF Inv, ClaimBatch, Idle
<1>2. /\ Oldest(Pending) \subseteq Pending /\ Pending \subseteq DOMAIN outbox
      /\ DOMAIN outbox \subseteq Ids /\ DOMAIN outbox = 1..Len(outbox) /\ Len(outbox) \in Nat
  BY <1>1, Reads, RelayAssumption DEF Oldest, Pending
<1>3. /\ todo'[r] = Oldest(Pending) /\ skipped'[r] = Unclaimable
      /\ \A s \in Replicas \ {r} : todo'[s] = todo[s] /\ skipped'[s] = skipped[s]
  BY <1>1 DEF TypeOK
<1>4. TypeOK'
  BY <1>1, <1>2 DEF TypeOK, Unclaimable
<1>5. LocksFit'
  <2>1. \A i \in Oldest(Pending) : /\ i \in DOMAIN outbox /\ outbox[i].status = "PENDING"
                                   /\ \A s \in Replicas : i \notin Locked(s)
    BY <1>2 DEF Pending, Claimable
  <2>2. Locked(r)' = Oldest(Pending) \cup DOMAIN marks[r]
    BY <1>1, <1>3 DEF Locked
  <2>3. \A s \in Replicas \ {r} : Locked(s)' = Locked(s)
    BY <1>1, <1>3 DEF Locked
  <2>4. DOMAIN marks[r] \subseteq Locked(r)
    BY DEF Locked
  <2>5. \A i \in Locked(r)' : i \in DOMAIN outbox /\ outbox[i].status = "PENDING"
    BY <2>1, <2>2, <2>4 DEF Inv, LocksFit
  <2>6. \A s \in Replicas \ {r} : \A i \in Locked(r)' : i \notin Locked(s)
    BY <2>1, <2>2, <2>4 DEF Inv, LocksFit
  <2>7. \A i \in todo'[r] : i \notin DOMAIN marks[r]
    BY <1>3, <2>1, <2>4
  <2>8. \A s \in Replicas :
          /\ \A i \in Locked(s)' : i \in DOMAIN outbox /\ outbox[i].status = "PENDING"
          /\ \A i \in todo'[s] : i \notin DOMAIN marks[s]
    BY <1>3, <2>3, <2>5, <2>7 DEF Inv, LocksFit
  <2>9. \A s, q \in Replicas : s # q => \A i \in Locked(s)' : i \notin Locked(q)'
    BY <2>3, <2>6 DEF Inv, LocksFit
  <2> QED BY <1>1, <2>8, <2>9 DEF LocksFit
<1>6. RowsFit' /\ MarksFit' /\ LogFits' /\ CopiesTold'
  BY <1>1 DEF Inv, RowsFit, MarksFit, Honest, LogFits, CopiesTold, Told, Copies
<1>7. BatchesFit'
  <2> SUFFICES ASSUME NEW s \in Replicas, NEW i \in todo'[s], NEW j \in 1..(i - 1)
               PROVE  InBatch(s, j)'
    BY DEF BatchesFit
  <2>1. CASE s # r
    BY <1>1, <1>3, <2>1 DEF Inv, BatchesFit, InBatch, Locked
  <2>2. CASE s = r
    <3>1. i \in Oldest(Pending) /\ i \in DOMAIN outbox /\ j \in DOMAIN outbox /\ j < i
      BY <1>2, <1>3, <2>2
    <3>2. outbox[j].status \in {"OPEN", "PENDING", "SENT", "FAILED"}
      BY <1>1, <3>1, Reads DEF Row
    <3>3. CASE Claimable(j)
      <4>1. j \in Oldest(Pending)
        BY <1>2, <3>1, <3>3, OldestFirst DEF Pending
      <4> QED BY <1>3, <2>2, <4>1 DEF InBatch, Locked
    <3>4. CASE ~Claimable(j) /\ outbox[j].status \in {"OPEN", "PENDING"}
      BY <1>3, <2>2, <3>1, <3>4 DEF InBatch, Unclaimable
    <3> QED BY <1>1, <3>2, <3>3, <3>4 DEF InBatch
  <2> QED BY <2>1, <2>2
<1> QED BY <1>4, <1>5, <1>6, <1>7 DEF Inv

\* A row goes from the batch to the marks, and stays locked.
LEMMA MarkFacts ==
  ASSUME Inv, NEW r \in Replicas, NEW i \in todo[r], NEW row \in Row, Mark(r, i, row),
         UNCHANGED <<outbox, skipped>>
  PROVE  /\ todo' \in [Replicas -> SUBSET Ids]
         /\ marks' \in [Replicas -> UNION {[ids -> Row] : ids \in SUBSET Ids}]
         /\ \A s \in Replicas \ {r} : todo'[s] = todo[s] /\ marks'[s] = marks[s]
         /\ todo'[r] = todo[r] \ {i} /\ DOMAIN marks'[r] = DOMAIN marks[r] \cup {i}
         /\ marks'[r][i] = row /\ \A j \in DOMAIN marks[r] : marks'[r][j] = marks[r][j]
         /\ LocksFit' /\ BatchesFit'
<1> DEFINE new == [j \in DOMAIN marks[r] \cup {i} |-> IF j = i THEN row ELSE marks[r][j]]
<1>1. /\ TypeOK /\ i \in Ids /\ i \notin DOMAIN marks[r] /\ DOMAIN marks[r] \subseteq Ids
      /\ \A j \in DOMAIN marks[r] : marks[r][j] \in Row
  BY Reads DEF Inv, TypeOK, LocksFit
<1>2. /\ marks' = [marks EXCEPT ![r] = new] /\ todo' = [todo EXCEPT ![r] = todo[r] \ {i}]
  BY DEF Mark
<1>3. /\ DOMAIN new = DOMAIN marks[r] \cup {i} /\ new[i] = row
      /\ \A j \in DOMAIN marks[r] : new[j] = marks[r][j]
      /\ new \in UNION {[ids -> Row] : ids \in SUBSET Ids}
  <2>1. new \in [DOMAIN marks[r] \cup {i} -> Row]
    BY <1>1
  <2>2. DOMAIN marks[r] \cup {i} \in SUBSET Ids
    BY <1>1
  <2> QED BY <1>1, <2>1, <2>2
<1> HIDE DEF new
<1>4. /\ todo' \in [Replicas -> SUBSET Ids]
      /\ marks' \in [Replicas -> UNION {[ids -> Row] : ids \in SUBSET Ids}]
      /\ \A s \in Replicas \ {r} : todo'[s] = todo[s] /\ marks'[s] = marks[s]
      /\ todo'[r] = todo[r] \ {i} /\ marks'[r] = new
  BY <1>1, <1>2, <1>3 DEF TypeOK
<1>5. \A s \in Replicas : Locked(s)' = Locked(s)
  <2> SUFFICES ASSUME NEW s \in Replicas PROVE Locked(s)' = Locked(s)
    OBVIOUS
  <2>1. CASE s = r
    BY <1>3, <1>4, <2>1 DEF Locked
  <2>2. CASE s # r
    BY <1>4, <2>2 DEF Locked
  <2> QED BY <2>1, <2>2
<1>6. LocksFit'
  <2> SUFFICES ASSUME NEW s \in Replicas
               PROVE  \A j \in todo'[s] : j \notin DOMAIN marks'[s]
    BY <1>5 DEF Inv, LocksFit
  <2>1. CASE s = r
    BY <1>3, <1>4, <2>1 DEF Inv, LocksFit
  <2>2. CASE s # r
    BY <1>4, <2>2 DEF Inv, LocksFit
  <2> QED BY <2>1, <2>2
<1>7. BatchesFit'
  <2>1. \A s \in Replicas : todo'[s] \subseteq todo[s]
    BY <1>4
  <2> QED BY <1>5, <2>1 DEF Inv, BatchesFit, InBatch
<1> QED BY <1>3, <1>4, <1>6, <1>7

\* The row that is due: not published yet for all its replica knows.
LEMMA DueFacts ==
  ASSUME Inv, NEW r \in Replicas, NEW i \in todo[r]
  PROVE  /\ i \in DOMAIN outbox /\ outbox[i] \in Row /\ outbox[i].status = "PENDING"
         /\ ~Told(i) /\ Copies(i) <= excused[i] /\ Copies(i) \in Nat /\ excused[i] \in Nat
         /\ Sent(i) \in Row /\ Sent(i).status = "SENT" /\ Sent(i).key = outbox[i].key
         /\ Failed(i) \in Row /\ Failed(i).status \in {"FAILED", "PENDING"}
         /\ Failed(i).key = outbox[i].key
         /\ Failed(i).status = "FAILED" => Failed(i).attempts = MaxAttempts
         /\ Failed(i).status = "PENDING" => Failed(i).attempts < MaxAttempts
<1>1. i \in DOMAIN outbox /\ outbox[i].status = "PENDING" /\ i \in Locked(r)
  BY DEF Inv, LocksFit, Locked
<1>2. outbox[i] \in Row /\ i \in Ids /\ outbox[i].attempts \in Nat /\ Copies(i) \in Nat
  BY <1>1, Reads, CopiesAre DEF Inv
<1>3. outbox[i].attempts < MaxAttempts /\ MaxAttempts \in Nat
  BY <1>1, RelayAssumption DEF Inv, RowsFit, Honest
<1>4. ~Told(i)
  BY <1>1 DEF Told, Inv, LocksFit, Locked
<1>5. Copies(i) <= excused[i] /\ excused[i] \in Nat
  BY <1>1, <1>2, <1>4 DEF Inv, CopiesTold, TypeOK
<1>6. /\ Sent(i) \in Row /\ Sent(i).status = "SENT" /\ Sent(i).key = outbox[i].key
  BY <1>2 DEF Sent, Row
<1>7. /\ Failed(i) \in Row /\ Failed(i).key = outbox[i].key
      /\ Failed(i).attempts = outbox[i].attempts + 1
      /\ Failed(i).status = IF outbox[i].attempts + 1 >= MaxAttempts THEN "FAILED" ELSE "PENDING"
  <2> DEFINE a  == outbox[i].attempts + 1
             st == IF a >= MaxAttempts THEN "FAILED" ELSE "PENDING"
  <2>1. a \in 0..MaxAttempts /\ st \in {"FAILED", "PENDING"}
    BY <1>2, <1>3
  <2>2. Failed(i) = [outbox[i] EXCEPT !.attempts = a, !.status = st]
    BY DEF Failed
  <2> HIDE DEF a, st
  <2>3. Failed(i) \in Row /\ Failed(i).key = outbox[i].key /\ Failed(i).attempts = a
        /\ Failed(i).status = st
    BY <1>2, <2>1, <2>2 DEF Row
  <2> QED BY <2>3 DEF a, st
<1> QED BY <1>1, <1>2, <1>3, <1>4, <1>5, <1>6, <1>7

\* Marks, and with them one more copy or none.
LEMMA PublishedInv ==
  ASSUME Inv, NEW r \in Replicas, NEW i \in todo[r], NEW row \in Row, Mark(r, i, row),
         TypeOK', UNCHANGED <<outbox, skipped>>,
         Land(i) \/ UNCHANGED log,
         excused' \in [Ids -> Nat],
         \A j \in Ids : excused[j] <= excused'[j],
         row.key = outbox[i].key, row.status # "OPEN",
         row.status = "SENT" => Land(i),
         row.status = "FAILED" => row.attempts = MaxAttempts,
         row.status = "PENDING" => row.attempts < MaxAttempts,
         row.status # "SENT" /\ ~UNCHANGED log => excused'[i] = excused[i] + 1
  PROVE  Inv'
<1>1. /\ \A s \in Replicas \ {r} : todo'[s] = todo[s] /\ marks'[s] = marks[s]
      /\ todo'[r] = todo[r] \ {i} /\ DOMAIN marks'[r] = DOMAIN marks[r] \cup {i}
      /\ marks'[r][i] = row /\ \A j \in DOMAIN marks[r] : marks'[r][j] = marks[r][j]
      /\ LocksFit' /\ BatchesFit'
  BY MarkFacts
<1>2. /\ TypeOK /\ i \in DOMAIN outbox /\ outbox[i].status = "PENDING" /\ ~Told(i)
      /\ Copies(i) <= excused[i] /\ Copies(i) \in Nat /\ excused[i] \in Nat
  BY DueFacts DEF Inv
<1>3. ASSUME NEW j \in DOMAIN outbox
      PROVE  /\ Copies(j)' \in Nat /\ Copies(j) \in Nat /\ Copies(j) <= Copies(j)'
             /\ j # i => Copies(j)' = Copies(j)
             /\ UNCHANGED log => Copies(j)' = Copies(j)
             /\ Land(i) => Copies(j)' = Copies(j) + (IF j = i THEN 1 ELSE 0)
  <2>1. UNCHANGED log => Copies(j)' = Copies(j)
    BY CopiesKept
  <2>2. Land(i) => Copies(j)' = Copies(j) + (IF j = i THEN 1 ELSE 0)
    BY <1>2, CopiesLand
  <2>3. Copies(j) \in Nat
    BY <1>2, CopiesAre
  <2> QED BY <2>1, <2>2, <2>3
<1>4. RowsFit'
  <2> SUFFICES ASSUME NEW j \in DOMAIN outbox
               PROVE  Honest(j, outbox[j])'
    BY DEF RowsFit
  <2>1. Honest(j, outbox[j]) /\ (outbox[j].status = "OPEN" => j # i)
    BY <1>2 DEF Inv, RowsFit
  <2> QED BY <1>3, <2>1 DEF Honest
<1>5. MarksFit'
  <2> SUFFICES ASSUME NEW s \in Replicas, NEW j \in DOMAIN marks'[s]
               PROVE  /\ Honest(j, marks[s][j])'
                      /\ marks'[s][j].status # "OPEN" /\ marks'[s][j].key = outbox[j].key
    BY DEF MarksFit
  <2>1. CASE s = r /\ j = i
    BY <1>1, <1>2, <1>3, <2>1 DEF Honest
  <2>2. CASE ~(s = r /\ j = i)
    <3>1. j \in DOMAIN marks[s] /\ marks'[s][j] = marks[s][j]
      BY <1>1, <2>2
    <3>2. j \in DOMAIN outbox
      BY <3>1 DEF Inv, LocksFit, Locked
    <3>3. Honest(j, marks[s][j]) /\ marks[s][j].status # "OPEN" /\ marks[s][j].key = outbox[j].key
      BY <3>1 DEF Inv, MarksFit
    <3> QED BY <1>3, <3>1, <3>2, <3>3 DEF Honest
  <2> QED BY <2>1, <2>2
<1>6. LogFits'
  <2>1. CASE UNCHANGED log
    BY <2>1 DEF Inv, LogFits
  <2>2. CASE Land(i)
    <3> DEFINE q == PartitionOf[outbox[i].key]
    <3>1. q \in Partitions /\ \A p \in Partitions : log[p] \in Seq(Events)
      BY <1>2, Reads
    <3>2. \A p \in Partitions : log'[p] = IF p = q THEN Append(log[p], i) ELSE log[p]
      BY <1>2, <2>2, <3>1 DEF Land, TypeOK
    <3> HIDE DEF q
    <3>3. ASSUME NEW p \in Partitions, NEW n \in DOMAIN log'[p]
          PROVE  log'[p][n] = i \/ (n \in DOMAIN log[p] /\ log'[p][n] = log[p][n])
      <4>1. CASE p = q
        <5>1. log'[p] = Append(log[p], i) /\ log[p] \in Seq(Events) /\ i \in Events
          BY <1>2, <3>1, <3>2, <4>1, Reads
        <5>2. DOMAIN log'[p] = 1..(Len(log[p]) + 1) /\ DOMAIN log[p] = 1..Len(log[p])
          BY <5>1, LenProperties
        <5> QED BY <3>3, <5>1, <5>2, LenProperties
      <4>2. CASE p # q
        BY <3>2, <3>3, <4>2
      <4> QED BY <4>1, <4>2
    <3> QED BY <1>2, <3>3 DEF Inv, LogFits
  <2> QED BY <2>1, <2>2
<1>7. CopiesTold'
  <2> SUFFICES ASSUME NEW j \in DOMAIN outbox
               PROVE  /\ Copies(j)' <= 1 + excused'[j]
                      /\ ~Told(j)' => Copies(j)' <= excused'[j]
    BY DEF CopiesTold
  <2>1. /\ j \in Ids /\ excused[j] \in Nat /\ excused'[j] \in Nat /\ excused[j] <= excused'[j]
        /\ Copies(j) <= 1 + excused[j] /\ (~Told(j) => Copies(j) <= excused[j])
    BY <1>2, Reads DEF Inv, TypeOK, CopiesTold
  <2>2. Told(j) => Told(j)'
    BY <1>1 DEF Told
  <2>3. CASE j # i
    BY <1>3, <2>1, <2>2, <2>3
  <2>4. CASE j = i
    <3>1. row.status = "SENT" => Told(i)'
      BY <1>1 DEF Told
    <3>2. UNCHANGED log \/ Copies(i)' = Copies(i) + 1
      BY <1>3, <2>4
    <3> QED BY <1>2, <1>3, <2>1, <2>4, <3>1, <3>2
  <2> QED BY <2>3, <2>4
<1> QED BY <1>1, <1>4, <1>5, <1>6, <1>7 DEF Inv

LEMMA PublishInv ==
  ASSUME Inv, NEW r \in Replicas, NEW i \in todo[r], Publish(r, i)
  PROVE  Inv'
<1>1. /\ TypeOK /\ Land(i) /\ Mark(r, i, Sent(i))
      /\ UNCHANGED <<outbox, excused, skipped, faults, rollbacks>>
  BY DEF Inv, Publish
<1>2. PICK row \in Row : row = Sent(i) /\ row.status = "SENT" /\ row.key = outbox[i].key
  BY DueFacts
<1>3. i \in DOMAIN outbox /\ log' \in [Partitions -> Seq(Events)]
  BY <1>1, DueFacts, CopiesLand
<1>4. Mark(r, i, row)
  BY <1>1, <1>2
<1>5. /\ todo' \in [Replicas -> SUBSET Ids]
      /\ marks' \in [Replicas -> UNION {[ids -> Row] : ids \in SUBSET Ids}]
  BY <1>1, <1>4, MarkFacts
<1>6. TypeOK'
  BY <1>1, <1>3, <1>5 DEF TypeOK
<1>7. excused' \in [Ids -> Nat] /\ \A j \in Ids : excused[j] <= excused'[j]
  BY <1>1 DEF TypeOK
<1> QED BY <1>1, <1>2, <1>4, <1>6, <1>7, PublishedInv

LEMMA PublishFailsInv ==
  ASSUME Inv, NEW r \in Replicas, NEW i \in todo[r], PublishFails(r, i)
  PROVE  Inv'
<1>1. /\ TypeOK /\ faults < MaxFaults /\ faults' = faults + 1 /\ Mark(r, i, Failed(i))
      /\ \/ UNCHANGED <<log, excused>>
         \/ Land(i) /\ excused' = [excused EXCEPT ![i] = @ + 1]
      /\ UNCHANGED <<outbox, skipped, rollbacks>>
  BY DEF Inv, PublishFails
<1>2. PICK row \in Row :
        /\ row = Failed(i) /\ row.status \in {"FAILED", "PENDING"} /\ row.key = outbox[i].key
        /\ row.status = "FAILED" => row.attempts = MaxAttempts
        /\ row.status = "PENDING" => row.attempts < MaxAttempts
  BY DueFacts
<1>3. i \in DOMAIN outbox /\ i \in Ids /\ log' \in [Partitions -> Seq(Events)]
  BY <1>1, DueFacts, CopiesLand, Reads DEF TypeOK
<1>4. Mark(r, i, row)
  BY <1>1, <1>2
<1>5. /\ todo' \in [Replicas -> SUBSET Ids]
      /\ marks' \in [Replicas -> UNION {[ids -> Row] : ids \in SUBSET Ids}]
  BY <1>1, <1>4, MarkFacts
<1>6. /\ excused' \in [Ids -> Nat] /\ \A j \in Ids : excused[j] <= excused'[j]
      /\ ~UNCHANGED log => Land(i) /\ excused'[i] = excused[i] + 1
  <2>1. \A j \in Ids : excused[j] \in Nat
    BY <1>1 DEF TypeOK
  <2>2. CASE UNCHANGED <<log, excused>>
    BY <1>1, <2>1, <2>2 DEF TypeOK
  <2>3. CASE Land(i) /\ excused' = [excused EXCEPT ![i] = @ + 1]
    <3>1. \A j \in Ids : excused'[j] = IF j = i THEN excused[i] + 1 ELSE excused[j]
      BY <1>1, <2>3 DEF TypeOK
    <3>2. \A j \in Ids : excused[j] <= excused'[j]
      BY <1>3, <2>1, <3>1
    <3>3. excused' \in [Ids -> Nat]
      BY <1>1, <1>3, <2>1, <2>3 DEF TypeOK
    <3> QED BY <1>3, <2>3, <3>1, <3>2, <3>3
  <2> QED BY <1>1, <2>2, <2>3
<1>7. faults' \in 0..MaxFaults
  BY <1>1, RelayAssumption DEF TypeOK
<1>8. TypeOK'
  BY <1>1, <1>3, <1>5, <1>6, <1>7 DEF TypeOK
<1> QED BY <1>1, <1>2, <1>4, <1>6, <1>8, PublishedInv

\* The rows become what the marks said.
LEMMA CommitInv ==
  ASSUME Inv, NEW r \in Replicas, Commit(r)
  PROVE  Inv'
<1> DEFINE M == DOMAIN marks[r]
<1>1. /\ TypeOK /\ todo[r] = {}
      /\ outbox' = [i \in DOMAIN outbox |-> IF i \in M THEN marks[r][i] ELSE outbox[i]]
      /\ marks' = [marks EXCEPT ![r] = NoMarks]
      /\ skipped' = [skipped EXCEPT ![r] = {}]
      /\ UNCHANGED <<todo, log, excused, faults, rollbacks>>
  BY DEF Inv, Commit
<1>2. \A i \in M : /\ i \in DOMAIN outbox /\ outbox[i].status = "PENDING"
                   /\ marks[r][i] \in Row /\ marks[r][i].key = outbox[i].key
                   /\ marks[r][i].status # "OPEN" /\ Honest(i, marks[r][i])
  BY <1>1, Reads DEF Inv, LocksFit, Locked, MarksFit
<1>3. /\ DOMAIN outbox' = DOMAIN outbox
      /\ \A i \in M : outbox'[i] = marks[r][i]
      /\ \A i \in DOMAIN outbox \ M : outbox'[i] = outbox[i]
      /\ \A i \in DOMAIN outbox : outbox'[i] \in Row /\ outbox'[i].key = outbox[i].key
  BY <1>1, <1>2, Reads
<1>4. outbox' \in Seq(Row) /\ Len(outbox') = Len(outbox)
  <2>1. DOMAIN outbox = 1..Len(outbox) /\ Len(outbox) \in Nat
    BY <1>1, Reads, RelayAssumption
  <2>2. outbox' \in [1..Len(outbox) -> Row]
    BY <1>1, <1>3, <2>1
  <2>3. outbox' \in Seq(Row)
    BY <2>1, <2>2, SeqDef
  <2> QED BY <1>3, <2>1, <2>3, LenProperties
<1>5. /\ DOMAIN NoMarks = {} /\ NoMarks \in UNION {[ids -> Row] : ids \in SUBSET Ids}
  <2>1. NoMarks \in [{} -> Row] /\ {} \in SUBSET Ids
    BY DEF NoMarks
  <2> QED BY <2>1
<1>6. /\ marks' \in [Replicas -> UNION {[ids -> Row] : ids \in SUBSET Ids}]
      /\ marks'[r] = NoMarks /\ skipped'[r] = {}
      /\ \A s \in Replicas \ {r} : marks'[s] = marks[s] /\ skipped'[s] = skipped[s]
  BY <1>1, <1>5 DEF TypeOK
<1>7. TypeOK'
  BY <1>1, <1>4, <1>6 DEF TypeOK
<1>8. \A i \in DOMAIN outbox : Copies(i)' = Copies(i)
  BY <1>1, <1>3, CopiesKept
<1>9. /\ Locked(r)' = {} /\ \A s \in Replicas \ {r} : Locked(s)' = Locked(s)
      /\ \A s \in Replicas \ {r} : \A i \in Locked(s) : i \in DOMAIN outbox \ M
  BY <1>1, <1>5, <1>6 DEF Inv, LocksFit, Locked
<1>10. LocksFit'
  <2> SUFFICES ASSUME NEW s \in Replicas
               PROVE  /\ \A i \in Locked(s)' : i \in DOMAIN outbox /\ outbox'[i].status = "PENDING"
                      /\ \A i \in todo[s] : i \notin DOMAIN marks'[s]
                      /\ \A q \in Replicas \ {s} : \A i \in Locked(s)' : i \notin Locked(q)'
    BY <1>1, <1>3 DEF LocksFit
  <2>1. CASE s = r
    BY <1>1, <1>9, <2>1
  <2>2. CASE s # r
    BY <1>3, <1>6, <1>9, <2>2 DEF Inv, LocksFit
  <2> QED BY <2>1, <2>2
<1>11. RowsFit'
  <2> SUFFICES ASSUME NEW i \in DOMAIN outbox
               PROVE  Honest(i, outbox[i])'
    BY <1>3 DEF RowsFit
  <2>1. Honest(i, outbox[i])
    BY DEF Inv, RowsFit
  <2>2. CASE i \in M
    BY <1>2, <1>3, <1>8, <2>2 DEF Honest
  <2>3. CASE i \notin M
    BY <1>3, <1>8, <2>1, <2>3 DEF Honest
  <2> QED BY <2>2, <2>3
<1>12. MarksFit'
  <2> SUFFICES ASSUME NEW s \in Replicas \ {r}, NEW i \in DOMAIN marks[s]
               PROVE  /\ Honest(i, marks[s][i])'
                      /\ marks[s][i].status # "OPEN" /\ marks[s][i].key = outbox'[i].key
    BY <1>5, <1>6 DEF MarksFit
  <2>1. i \in DOMAIN outbox
    BY <1>9 DEF Locked
  <2>2. Honest(i, marks[s][i]) /\ marks[s][i].status # "OPEN" /\ marks[s][i].key = outbox[i].key
    BY DEF Inv, MarksFit
  <2> QED BY <1>3, <1>6, <1>8, <2>1, <2>2 DEF Honest
<1>13. LogFits'
  BY <1>1, <1>2, <1>3 DEF Inv, LogFits
<1>14. CopiesTold'
  <2>1. ASSUME NEW i \in DOMAIN outbox, Told(i) PROVE Told(i)'
    <3>1. CASE outbox[i].status = "SENT"
      BY <1>2, <1>3, <3>1 DEF Told
    <3>2. ASSUME NEW s \in Replicas, i \in DOMAIN marks[s], marks[s][i].status = "SENT"
          PROVE  Told(i)'
      <4>1. CASE s = r
        BY <1>3, <3>2, <4>1 DEF Told
      <4>2. CASE s # r
        BY <1>6, <3>2, <4>2 DEF Told
      <4> QED BY <4>1, <4>2
    <3> QED BY <2>1, <3>1, <3>2 DEF Told
  <2> QED BY <1>1, <1>3, <1>8, <2>1 DEF Inv, CopiesTold
<1>15. BatchesFit'
  <2> SUFFICES ASSUME NEW s \in Replicas \ {r}, NEW i \in todo[s], NEW j \in 1..(i - 1)
               PROVE  InBatch(s, j)'
    BY <1>1 DEF BatchesFit
  <2>1. InBatch(s, j)
    BY DEF Inv, BatchesFit
  <2>2. i \in DOMAIN outbox /\ j \in DOMAIN outbox
    BY <1>1, <1>9, Reads, RelayAssumption DEF Locked
  <2>3. outbox[j].status \in {"SENT", "FAILED"} => outbox'[j] = outbox[j]
    BY <1>2, <1>3, <2>2
  <2> QED BY <1>6, <1>9, <2>1, <2>3 DEF InBatch
<1> QED BY <1>7, <1>10, <1>11, <1>12, <1>13, <1>14, <1>15 DEF Inv

\* The marks are gone; the copies they told of are owed to the rollback.
LEMMA RollbackInv ==
  ASSUME Inv, NEW r \in Replicas, Rollback(r)
  PROVE  Inv'
<1>1. /\ TypeOK /\ rollbacks < MaxRollbacks /\ rollbacks' = rollbacks + 1
      /\ excused' = [i \in Ids |-> IF i \in DOMAIN marks[r] /\ marks[r][i].status = "SENT"
                                   THEN excused[i] + 1 ELSE excused[i]]
      /\ todo' = [todo EXCEPT ![r] = {}]
      /\ marks' = [marks EXCEPT ![r] = NoMarks]
      /\ skipped' = [skipped EXCEPT ![r] = {}]
      /\ UNCHANGED <<outbox, log, faults>>
  BY DEF Inv, Rollback
<1>2. /\ DOMAIN NoMarks = {} /\ NoMarks \in UNION {[ids -> Row] : ids \in SUBSET Ids}
  <2>1. NoMarks \in [{} -> Row] /\ {} \in SUBSET Ids
    BY DEF NoMarks
  <2> QED BY <2>1
<1>3. /\ marks' \in [Replicas -> UNION {[ids -> Row] : ids \in SUBSET Ids}]
      /\ marks'[r] = NoMarks /\ todo'[r] = {}
      /\ \A s \in Replicas \ {r} : /\ marks'[s] = marks[s] /\ todo'[s] = todo[s]
                                   /\ skipped'[s] = skipped[s]
  BY <1>1, <1>2 DEF TypeOK
<1>4. /\ rollbacks' \in 0..MaxRollbacks /\ excused' \in [Ids -> Nat]
      /\ \A i \in Ids : excused[i] \in Nat /\ excused[i] <= excused'[i]
  BY <1>1, RelayAssumption DEF TypeOK
<1>5. TypeOK'
  BY <1>1, <1>3, <1>4 DEF TypeOK
<1>6. Locked(r)' = {} /\ \A s \in Replicas \ {r} : Locked(s)' = Locked(s)
  BY <1>2, <1>3 DEF Locked
<1>7. LocksFit'
  <2> SUFFICES ASSUME NEW s \in Replicas
               PROVE  /\ \A i \in Locked(s)' : i \in DOMAIN outbox /\ outbox[i].status = "PENDING"
                      /\ \A i \in todo'[s] : i \notin DOMAIN marks'[s]
                      /\ \A q \in Replicas \ {s} : \A i \in Locked(s)' : i \notin Locked(q)'
    BY <1>1 DEF LocksFit
  <2>1. CASE s = r
    BY <1>3, <1>6, <2>1
  <2>2. CASE s # r
    BY <1>3, <1>6, <2>2 DEF Inv, LocksFit
  <2> QED BY <2>1, <2>2
<1>8. \A i : Copies(i)' = Copies(i)
  BY <1>1 DEF Copies
<1>9. RowsFit' /\ MarksFit' /\ LogFits'
  BY <1>1, <1>2, <1>3, <1>8 DEF Inv, RowsFit, MarksFit, Honest, LogFits
<1>10. CopiesTold'
  <2> SUFFICES ASSUME NEW i \in DOMAIN outbox
               PROVE  /\ Copies(i) <= 1 + excused'[i]
                      /\ ~Told(i)' => Copies(i) <= excused'[i]
    BY <1>1, <1>8 DEF CopiesTold
  <2>1. i \in Ids /\ Copies(i) \in Nat
    BY <1>1, Reads, CopiesAre
  <2>2. Copies(i) <= 1 + excused[i] /\ (~Told(i) => Copies(i) <= excused[i])
    BY DEF Inv, CopiesTold
  <2>3. excused'[i] \in Nat /\ excused[i] \in Nat /\ excused[i] <= excused'[i]
    BY <1>4, <2>1
  <2>4. CASE i \in DOMAIN marks[r] /\ marks[r][i].status = "SENT"
    <3>1. excused'[i] = excused[i] + 1
      BY <1>1, <2>1, <2>4
    <3> QED BY <2>1, <2>2, <2>3, <3>1
  <2>5. CASE ~(i \in DOMAIN marks[r] /\ marks[r][i].status = "SENT")
    <3>1. Told(i) => Told(i)'
      BY <1>1, <1>3, <2>5 DEF Told
    <3> QED BY <2>1, <2>2, <2>3, <3>1
  <2> QED BY <2>4, <2>5
<1>11. BatchesFit'
  <2> SUFFICES ASSUME NEW s \in Replicas \ {r}, NEW i \in todo[s], NEW j \in 1..(i - 1)
               PROVE  InBatch(s, j)'
    BY <1>3 DEF BatchesFit
  <2>1. InBatch(s, j)
    BY DEF Inv, BatchesFit
  <2> QED BY <1>1, <1>3, <1>6, <2>1 DEF InBatch
<1> QED BY <1>5, <1>7, <1>9, <1>10, <1>11 DEF Inv

-----------------------------------------------------------------------------
(* Theorems.                                                               *)

LEMMA InitInv == Init => Inv
<1> SUFFICES ASSUME Init PROVE Inv
  OBVIOUS
<1>1. NoMarks \in UNION {[ids -> Row] : ids \in SUBSET Ids} /\ DOMAIN NoMarks = {}
  <2>1. NoMarks \in [{} -> Row] /\ {} \in SUBSET Ids
    BY DEF NoMarks
  <2> QED BY <2>1
<1>2. DOMAIN outbox = {} /\ \A p \in Partitions : DOMAIN log[p] = {}
  BY DEF Init
<1>3. TypeOK
  <2>1. outbox = <<>> /\ outbox \in Seq(Row) /\ Len(outbox) <= MaxRows
    BY RelayAssumption DEF Init
  <2>2. marks \in [Replicas -> UNION {[ids -> Row] : ids \in SUBSET Ids}]
    BY <1>1 DEF Init
  <2>3. log \in [Partitions -> Seq(Events)]
    BY DEF Init
  <2> QED BY <2>1, <2>2, <2>3, RelayAssumption DEF Init, TypeOK
<1>4. RowsFit /\ LogFits /\ CopiesTold
  BY <1>2 DEF RowsFit, LogFits, CopiesTold
<1>5. LocksFit /\ MarksFit /\ BatchesFit
  BY <1>1 DEF Init, LocksFit, Locked, MarksFit, BatchesFit
<1> QED BY <1>3, <1>4, <1>5 DEF Inv

LEMMA StutterInv == Inv /\ UNCHANGED vars => Inv'
<1> SUFFICES ASSUME Inv, UNCHANGED vars PROVE Inv'
  OBVIOUS
<1>1. \A i : Copies(i)' = Copies(i)
  BY DEF vars, relayVars, Copies
<1>2. TypeOK' /\ LocksFit' /\ LogFits' /\ BatchesFit'
  BY DEF vars, relayVars, Inv, TypeOK, LocksFit, Locked, LogFits, BatchesFit, InBatch
<1>3. RowsFit' /\ MarksFit' /\ CopiesTold'
  BY <1>1 DEF vars, relayVars, Inv, RowsFit, MarksFit, Honest, CopiesTold, Told
<1> QED BY <1>2, <1>3 DEF Inv

LEMMA StepInv == Inv /\ [Next]_vars => Inv'
<1> SUFFICES ASSUME Inv, Next PROVE Inv'
  BY StutterInv
<1>1. CASE \E k \in Keys : Begin(k)
  BY <1>1, BeginInv
<1>2. CASE \E i \in DOMAIN outbox : Enqueue(i)
  BY <1>2, EnqueueInv
<1>3. ASSUME NEW r \in Replicas, Tick(r) PROVE Inv'
  BY <1>3, ClaimBatchInv, CommitInv, PublishInv, PublishFailsInv DEF Tick
<1>4. ASSUME NEW r \in Replicas, Rollback(r) PROVE Inv'
  BY <1>4, RollbackInv
<1> QED BY <1>1, <1>2, <1>3, <1>4 DEF Next

THEOREM Invariant == Spec => []Inv
  BY InitInv, StepInv, PTL DEF Spec

LEMMA StatusFollows == Inv => StatusIsHonest
<1> SUFFICES ASSUME Inv, NEW i \in DOMAIN outbox
             PROVE  CASE outbox[i].status = "SENT"    -> Copies(i) > 0
                      [] outbox[i].status = "FAILED"  -> outbox[i].attempts = MaxAttempts
                      [] outbox[i].status = "PENDING" -> outbox[i].attempts < MaxAttempts
                      [] outbox[i].status = "OPEN"    -> Copies(i) = 0
  BY DEF StatusIsHonest
<1>1. outbox[i].status \in {"OPEN", "PENDING", "SENT", "FAILED"} /\ Honest(i, outbox[i])
  BY Reads DEF Inv, RowsFit, Row
<1> QED BY <1>1 DEF Honest

LEMMA OnceFollows == Inv => NoDoublePublishing
  BY DEF Inv, CopiesTold, NoDoublePublishing

\* What a row says of itself is true, whatever marks were rolled back.
THEOREM StatusesAreHonest == Spec => []StatusIsHonest
  BY StatusFollows, Invariant, PTL

\* Any number of replicas relay at once and publish a row once: a further copy is
\* owed to a rollback or to a send whose outcome was unclear.
THEOREM PublishedOnce == Spec => []NoDoublePublishing
  BY OnceFollows, Invariant, PTL

\* An account's events overtake each other only for the known causes.
THEOREM OvertakingIsCaused == Spec => OvertakingHasACause
<1> DEFINE Caused(r, i, j) == \/ Copies(j) > 0
                              \/ outbox[j].attempts > 0 \/ j \in DOMAIN marks[r]
                              \/ j \in skipped[r]
<1>1. ASSUME Inv, [Next]_vars, NEW r \in Replicas,
             NEW i \in DOMAIN marks'[r] \ DOMAIN marks[r], NEW j \in 1..(i - 1),
             marks'[r][i].status = "SENT"
      PROVE  Caused(r, i, j)
  <2>1. DOMAIN NoMarks = {}
    BY DEF NoMarks
  <2>2. ~UNCHANGED marks
    BY <1>1
  <2>3. PICK s \in Replicas : Tick(s) \/ Rollback(s)
    BY <1>1, <2>2 DEF Next, vars, relayVars, Begin, Enqueue
  <2>4. ~ClaimBatch(s)
    BY <2>2 DEF ClaimBatch
  <2>5. ~(marks' = [marks EXCEPT ![s] = NoMarks])
    BY <1>1, <2>1 DEF Inv, TypeOK
  <2>6. PICK k \in todo[s] : Publish(s, k) \/ PublishFails(s, k)
    BY <2>3, <2>4, <2>5 DEF Tick, Commit, Rollback
  <2>7. k \in DOMAIN outbox /\ Sent(k) \in Row /\ Failed(k) \in Row /\ Failed(k).status # "SENT"
    BY <1>1, DueFacts
  <2>8. s = r /\ k = i
    BY <1>1, <2>6, <2>7, MarkFacts DEF Publish, PublishFails
  <2>9. i \in todo[r] /\ j \notin todo[r]
    BY <1>1, <2>6, <2>7, <2>8, Reads DEF Inv, Publish, PublishFails, Due
  <2>10. InBatch(r, j) /\ j \in DOMAIN outbox
    BY <1>1, <2>7, <2>8, <2>9, Reads DEF Inv, BatchesFit
  <2>11. CASE j \in skipped[r] \cup Locked(r)
    BY <2>9, <2>11 DEF Locked
  <2>12. CASE outbox[j].status = "SENT"
    BY <1>1, <2>10, <2>12 DEF Inv, RowsFit, Honest
  <2>13. CASE outbox[j].status = "FAILED"
    BY <1>1, <2>10, <2>13, RelayAssumption DEF Inv, RowsFit, Honest
  <2> QED BY <2>10, <2>11, <2>12, <2>13 DEF InBatch
<1>2. Inv /\ [Next]_vars =>
        [\A r \in Replicas : \A i \in DOMAIN marks'[r] \ DOMAIN marks[r] : \A j \in 1..(i - 1) :
           marks'[r][i].status = "SENT" /\ outbox[j].key = outbox[i].key
           => \/ Copies(j) > 0
              \/ outbox[j].attempts > 0 \/ j \in DOMAIN marks[r]
              \/ j \in skipped[r]]_vars
  BY <1>1
<1> QED BY <1>2, Invariant, PTL DEF Spec, OvertakingHasACause

-----------------------------------------------------------------------------
(* The pipeline: the audit workers' part of the invariant.                 *)

\* What a worker handles is in the log.
OffsetsFit ==
  /\ \A p \in Partitions : committed[p] > 0 /\ position[p] > 0
  /\ \A w \in Workers :
       task[w] # NoTask => task[w].offset \in DOMAIN log[task[w].partition]

\* Of an event the audit log has all rows or none.
AuditIsWhole ==
  \A e \in Events : \/ \A a \in Accounts : audit[<<e, a>>] = 0
                    \/ \A a \in Accounts : audit[<<e, a>>] = IF a \in Affected[e] THEN 1 ELSE 0

PipelineInv == Inv /\ WorkerTypeOK /\ OffsetsFit /\ AuditIsWhole

\* What others put into Kafka is no copy of a row.
LEMMA GarbageInv ==
  ASSUME Inv, Garbage
  PROVE  Inv'
<1>1. PICK p \in Partitions, e \in Poison : log' = [log EXCEPT ![p] = Append(@, e)]
  BY DEF Garbage, Produce
<1>2. TypeOK /\ e \in Events /\ UNCHANGED relayVars
  BY LogAssumption DEF Inv, Garbage
<1>3. ASSUME NEW q \in Partitions
      PROVE  /\ log[q] \in Seq(Events)
             /\ log'[q] = IF q = p THEN Append(log[q], e) ELSE log[q]
  BY <1>1, <1>2 DEF TypeOK
<1>4. TypeOK'
  BY <1>1, <1>2, <1>3 DEF TypeOK, relayVars
<1>5. ASSUME NEW i \in DOMAIN outbox
      PROVE  Copies(i)' = Copies(i)
  <2> DEFINE q == PartitionOf[outbox[i].key]
  <2>1. q \in Partitions /\ i # e
    BY <1>2, Reads
  <2>2. Copies(i) = Cardinality(At(log[q], i)) /\ Copies(i) \in Nat
    BY <1>2, CopiesAre
  <2>3. Copies(i)' = Cardinality(At(log'[q], i))
    BY <1>2 DEF Copies, At, relayVars
  <2> HIDE DEF q
  <2>4. Cardinality(At(Append(log[q], e), i)) = Cardinality(At(log[q], i)) + 0
    BY <1>2, <1>3, <2>1, AppendCounts
  <2> QED BY <1>3, <2>1, <2>2, <2>3, <2>4
<1>6. LogFits'
  <2> SUFFICES ASSUME NEW q \in Partitions, NEW n \in DOMAIN log'[q]
               PROVE  log'[q][n] = e \/ (n \in DOMAIN log[q] /\ log'[q][n] = log[q][n])
    BY <1>2 DEF Inv, LogFits, relayVars
  <2>1. CASE q = p
    <3>1. DOMAIN Append(log[q], e) = 1..(Len(log[q]) + 1) /\ DOMAIN log[q] = 1..Len(log[q])
      BY <1>2, <1>3, LenProperties
    <3>2. log'[q] = Append(log[q], e) /\ log[q] \in Seq(Events) /\ e \in Events
      BY <1>2, <1>3, <2>1
    <3> QED BY <3>1, <3>2, LenProperties
  <2>2. CASE q # p
    BY <1>3, <2>2
  <2> QED BY <2>1, <2>2
<1>7. LocksFit' /\ BatchesFit'
  BY <1>2 DEF Inv, LocksFit, Locked, BatchesFit, InBatch, relayVars
<1>8. RowsFit' /\ CopiesTold'
  BY <1>2, <1>5 DEF Inv, RowsFit, Honest, CopiesTold, Told, relayVars
<1>9. MarksFit'
  <2>1. \A r \in Replicas : \A i \in DOMAIN marks[r] : i \in DOMAIN outbox
    BY DEF Inv, LocksFit, Locked
  <2> QED BY <1>2, <1>5, <2>1 DEF Inv, MarksFit, Honest, relayVars
<1> QED BY <1>4, <1>6, <1>7, <1>8, <1>9 DEF Inv

\* To the relay the pipeline is its own specification, but for garbage.
LEMMA PipelineRelays == [PipelineNext]_pipelineVars => [Next]_vars \/ Garbage
  BY DEF PipelineNext, RelayStep, AuditStep, pipelineVars, vars,
         WorkerNext, Handle, Assign, Fetch, Store, StoreFails, CommitOffset, LosePartitions

\* Relay and garbage only append to the log.
LEMMA LogGrows ==
  ASSUME Inv, [Next]_vars \/ Garbage, NEW p \in Partitions, NEW n \in DOMAIN log[p]
  PROVE  n \in DOMAIN log'[p]
<1>1. ASSUME NEW q, NEW e \in Events, log' = [log EXCEPT ![q] = Append(@, e)]
      PROVE  n \in DOMAIN log'[p]
  <2>1. log[p] \in Seq(Events) /\ log'[p] = IF p = q THEN Append(log[p], e) ELSE log[p]
    BY <1>1 DEF Inv, TypeOK
  <2>2. DOMAIN Append(log[p], e) = 1..(Len(log[p]) + 1) /\ DOMAIN log[p] = 1..Len(log[p])
    BY <2>1, LenProperties
  <2> QED BY <2>1, <2>2, LenProperties
<1>2. ASSUME NEW r \in Replicas, NEW i \in todo[r], Land(i) PROVE n \in DOMAIN log'[p]
  <2>1. i \in Events
    BY DueFacts, Reads DEF Inv
  <2> QED BY <1>1, <1>2, <2>1 DEF Land
<1>3. CASE Garbage
  BY <1>1, <1>3, LogAssumption DEF Garbage, Produce
<1>4. ASSUME NEW r \in Replicas, Tick(r) PROVE n \in DOMAIN log'[p]
  BY <1>2, <1>4 DEF Tick, ClaimBatch, Commit, Publish, PublishFails
<1> QED BY <1>3, <1>4 DEF Next, vars, Begin, Enqueue, Rollback

\* The rows of an event appear together, whatever was there.
LEMMA InsertsWhole ==
  ASSUME WorkerTypeOK, AuditIsWhole, NEW e \in Events \ Poison, InsertRows(Rows(e))
  PROVE  /\ audit' \in [RowKeys -> {0, 1}] /\ AuditIsWhole'
         /\ \A f \in Events \ {e}, a \in Accounts : audit'[<<f, a>>] = audit[<<f, a>>]
         /\ \A a \in Accounts : audit'[<<e, a>>] = IF a \in Affected[e] THEN 1 ELSE 0
<1>1. audit \in [RowKeys -> {0, 1}]
  BY DEF WorkerTypeOK
<1>2. audit' = [k \in RowKeys |-> IF k \in Rows(e) /\ audit[k] = 0 THEN 1 ELSE audit[k]]
  BY DEF InsertRows
<1>3. audit' \in [RowKeys -> {0, 1}]
  BY <1>1, <1>2
<1>4. ASSUME NEW f \in Events, NEW a \in Accounts
      PROVE  /\ <<f, a>> \in RowKeys
             /\ <<f, a>> \in Rows(e) <=> f = e /\ a \in Affected[e]
  BY DEF Rows, RowKeys
<1>5. \A f \in Events \ {e}, a \in Accounts : audit'[<<f, a>>] = audit[<<f, a>>]
  BY <1>2, <1>4
<1>6. ASSUME NEW a \in Accounts
      PROVE  audit'[<<e, a>>] = IF a \in Affected[e] THEN 1 ELSE 0
  <2>1. audit[<<e, a>>] \in {0, 1}
    BY <1>1, <1>4
  <2>2. a \notin Affected[e] => audit[<<e, a>>] = 0
    BY DEF AuditIsWhole
  <2> QED BY <1>2, <1>4, <2>1, <2>2
<1>7. AuditIsWhole'
  <2> SUFFICES ASSUME NEW f \in Events
               PROVE  \/ \A a \in Accounts : audit'[<<f, a>>] = 0
                      \/ \A a \in Accounts :
                           audit'[<<f, a>>] = IF a \in Affected[f] THEN 1 ELSE 0
    BY DEF AuditIsWhole
  <2>1. CASE f = e
    BY <1>6, <2>1
  <2>2. CASE f # e
    BY <1>5, <2>2 DEF AuditIsWhole
  <2> QED BY <2>1, <2>2
<1> QED BY <1>3, <1>5, <1>6, <1>7

\* A message under way is garbage or a committed event.
LEMMA HandledIsWritten ==
  ASSUME PipelineInv, NEW w \in Workers, task[w] # NoTask, EventOf(task[w]) \notin Poison
  PROVE  /\ task[w] \in Task /\ EventOf(task[w]) \in Events \ Poison
         /\ EventOf(task[w]) \in Written /\ EventOf(task[w]) \in Ids
<1>1. task[w] \in Task /\ task[w].offset \in DOMAIN log[task[w].partition]
  BY DEF PipelineInv, WorkerTypeOK, OffsetsFit
<1>2. EventOf(task[w]) \in Written
  BY <1>1 DEF PipelineInv, Inv, LogFits, Task, EventOf, Written
<1> QED BY <1>1, <1>2, Reads DEF PipelineInv, Inv, Written

LEMMA PipelineInitInv == PipelineInit => PipelineInv
<1> SUFFICES ASSUME PipelineInit PROVE PipelineInv
  OBVIOUS
<1>1. Inv
  BY InitInv DEF PipelineInit
<1>2. WorkerTypeOK
  BY AuditAssumption DEF PipelineInit, WorkerInit, WorkerTypeOK
<1>3. OffsetsFit
  BY DEF PipelineInit, WorkerInit, OffsetsFit
<1>4. AuditIsWhole
  BY DEF PipelineInit, WorkerInit, AuditIsWhole, RowKeys
<1> QED BY <1>1, <1>2, <1>3, <1>4 DEF PipelineInv

LEMMA AssignInv ==
  ASSUME PipelineInv, NEW w \in Workers, NEW p \in Partitions, Assign(w, p)
  PROVE  WorkerTypeOK' /\ OffsetsFit' /\ AuditIsWhole'
<1>1. WorkerTypeOK'
  BY DEF PipelineInv, WorkerTypeOK, Assign
<1>2. OffsetsFit'
  BY DEF PipelineInv, WorkerTypeOK, OffsetsFit, Assign
<1>3. AuditIsWhole'
  BY DEF PipelineInv, AuditIsWhole, Assign
<1> QED BY <1>1, <1>2, <1>3

LEMMA FetchInv ==
  ASSUME PipelineInv, NEW w \in Workers, NEW p \in Partitions, Fetch(w, p)
  PROVE  WorkerTypeOK' /\ OffsetsFit' /\ AuditIsWhole'
<1> DEFINE new == [partition |-> p, offset |-> position[p], stored |-> FALSE]
<1>1. /\ position[p] \in Nat /\ position[p] > 0 /\ position[p] <= Len(log[p])
      /\ task \in [Workers -> Task \cup {NoTask}] /\ task' = [task EXCEPT ![w] = new]
      /\ UNCHANGED <<log, committed, owner, position, audit, dbFaults, moves>>
  BY DEF PipelineInv, WorkerTypeOK, OffsetsFit, Fetch
<1>2. new \in Task /\ new.partition = p /\ new.offset = position[p]
  BY <1>1 DEF Task
<1>3. position[p] \in DOMAIN log[p]
  <2>1. log[p] \in Seq(Events)
    BY DEF PipelineInv, Inv, TypeOK
  <2> QED BY <1>1, <2>1, LenProperties
<1> HIDE DEF new
<1>4. WorkerTypeOK'
  BY <1>1, <1>2 DEF PipelineInv, WorkerTypeOK
<1>5. OffsetsFit'
  BY <1>1, <1>2, <1>3 DEF PipelineInv, OffsetsFit
<1>6. AuditIsWhole'
  BY <1>1 DEF PipelineInv, AuditIsWhole
<1> QED BY <1>4, <1>5, <1>6

LEMMA StoreInv ==
  ASSUME PipelineInv, NEW w \in Workers, Store(w)
  PROVE  WorkerTypeOK' /\ OffsetsFit' /\ AuditIsWhole'
<1>1. /\ task[w] # NoTask /\ EventOf(task[w]) \notin Poison /\ InsertRows(Rows(EventOf(task[w])))
      /\ task' = [task EXCEPT ![w] = [task[w] EXCEPT !.stored = TRUE]]
      /\ UNCHANGED <<log, committed, owner, position, dbFaults, moves>>
  BY DEF Store
<1>2. task[w] \in Task /\ EventOf(task[w]) \in Events \ Poison
  BY <1>1, HandledIsWritten
<1>3. audit' \in [RowKeys -> {0, 1}] /\ AuditIsWhole'
  BY <1>1, <1>2, InsertsWhole DEF PipelineInv
<1>4. /\ [task[w] EXCEPT !.stored = TRUE] \in Task
      /\ [task[w] EXCEPT !.stored = TRUE].offset = task[w].offset
      /\ [task[w] EXCEPT !.stored = TRUE].partition = task[w].partition
  BY <1>2 DEF Task
<1>5. WorkerTypeOK'
  BY <1>1, <1>3, <1>4 DEF PipelineInv, WorkerTypeOK
<1>6. OffsetsFit'
  BY <1>1, <1>4 DEF PipelineInv, WorkerTypeOK, OffsetsFit
<1> QED BY <1>3, <1>5, <1>6

LEMMA StoreFailsInv ==
  ASSUME PipelineInv, NEW w \in Workers, StoreFails(w)
  PROVE  WorkerTypeOK' /\ OffsetsFit' /\ AuditIsWhole'
<1>1. /\ task[w] # NoTask /\ EventOf(task[w]) \notin Poison
      /\ UNCHANGED audit \/ InsertRows(Rows(EventOf(task[w])))
      /\ dbFaults < MaxDbFaults /\ dbFaults' = dbFaults + 1
      /\ task' = [task EXCEPT ![w] = NoTask]
      /\ UNCHANGED <<log, committed, owner, position, moves>>
  BY DEF StoreFails
<1>2. EventOf(task[w]) \in Events \ Poison
  BY <1>1, HandledIsWritten
<1>3. audit' \in [RowKeys -> {0, 1}] /\ AuditIsWhole'
  <2>1. CASE UNCHANGED audit
    BY <2>1 DEF PipelineInv, WorkerTypeOK, AuditIsWhole
  <2>2. CASE InsertRows(Rows(EventOf(task[w])))
    BY <1>2, <2>2, InsertsWhole DEF PipelineInv
  <2> QED BY <1>1, <2>1, <2>2
<1>4. WorkerTypeOK'
  BY <1>1, <1>3, AuditAssumption DEF PipelineInv, WorkerTypeOK
<1>5. OffsetsFit'
  BY <1>1 DEF PipelineInv, WorkerTypeOK, OffsetsFit
<1> QED BY <1>3, <1>4, <1>5

LEMMA CommitOffsetInv ==
  ASSUME PipelineInv, NEW w \in Workers, CommitOffset(w)
  PROVE  WorkerTypeOK' /\ OffsetsFit' /\ AuditIsWhole'
<1> DEFINE p == task[w].partition
           n == NextOffset(task[w])
<1>1. /\ task[w] \in Task /\ p \in Partitions /\ n \in Nat /\ n > 0
      /\ task' = [task EXCEPT ![w] = NoTask]
      /\ UNCHANGED <<log, owner, audit, dbFaults, moves>>
  BY DEF PipelineInv, WorkerTypeOK, CommitOffset, Task, NextOffset
<1>2. \/ UNCHANGED <<committed, position>>
      \/ committed' = [committed EXCEPT ![p] = n] /\ position' = [position EXCEPT ![p] = n]
  BY DEF CommitOffset
<1> HIDE DEF p, n
<1>3. WorkerTypeOK'
  BY <1>1, <1>2 DEF PipelineInv, WorkerTypeOK
<1>4. OffsetsFit'
  BY <1>1, <1>2 DEF PipelineInv, WorkerTypeOK, OffsetsFit
<1>5. AuditIsWhole'
  BY <1>1 DEF PipelineInv, AuditIsWhole
<1> QED BY <1>3, <1>4, <1>5

LEMMA LosePartitionsInv ==
  ASSUME PipelineInv, NEW w \in Workers, LosePartitions(w)
  PROVE  WorkerTypeOK' /\ OffsetsFit' /\ AuditIsWhole'
<1>1. WorkerTypeOK'
  BY AuditAssumption DEF PipelineInv, WorkerTypeOK, LosePartitions
<1>2. OffsetsFit'
  BY DEF PipelineInv, WorkerTypeOK, OffsetsFit, LosePartitions
<1>3. AuditIsWhole'
  BY DEF PipelineInv, AuditIsWhole, LosePartitions
<1> QED BY <1>1, <1>2, <1>3

LEMMA PipelineStepInv == PipelineInv /\ [PipelineNext]_pipelineVars => PipelineInv'
<1> SUFFICES ASSUME PipelineInv, [PipelineNext]_pipelineVars PROVE PipelineInv'
  OBVIOUS
<1>1. Inv' /\ ([Next]_vars \/ Garbage)
  BY PipelineRelays, StepInv, GarbageInv DEF PipelineInv
<1>2. CASE UNCHANGED workerVars
  <2>1. WorkerTypeOK' /\ AuditIsWhole'
    BY <1>2 DEF PipelineInv, WorkerTypeOK, AuditIsWhole, workerVars
  <2>2. \A w \in Workers : task[w] # NoTask => task[w].partition \in Partitions
    BY DEF PipelineInv, WorkerTypeOK, Task
  <2>3. OffsetsFit'
    BY <1>1, <1>2, <2>2, LogGrows DEF PipelineInv, OffsetsFit, workerVars
  <2> QED BY <1>1, <2>1, <2>3 DEF PipelineInv
<1>3. CASE WorkerNext
  BY <1>1, <1>3, AssignInv, FetchInv, StoreInv, StoreFailsInv, CommitOffsetInv,
     LosePartitionsInv DEF PipelineInv, WorkerNext, Handle
<1> QED BY <1>2, <1>3 DEF PipelineNext, RelayStep, AuditStep, Garbage, pipelineVars

THEOREM PipelineInvariant == PipelineSpec => []PipelineInv
  BY PipelineInitInv, PipelineStepInv, PTL DEF PipelineSpec

-----------------------------------------------------------------------------
(* The refinement of EventTrail.                                           *)

\* Of the relay's steps the trail sees an event written when its row is
\* committed, and events abandoned when a tick that gave them up commits.
LEMMA RelayRefines ==
  ASSUME Inv, [Next]_vars \/ Garbage, UNCHANGED workerVars
  PROVE  [Trail!Next]_(Trail!vars)
<1>0. UNCHANGED Recorded
  BY DEF Recorded, workerVars
<1>1. CASE UNCHANGED outbox
  BY <1>0, <1>1 DEF Trail!vars, Written, Abandoned
<1>2. ASSUME NEW k \in Keys, Begin(k) PROVE UNCHANGED <<Written, Abandoned>>
  <2> DEFINE new == [key |-> k, status |-> "OPEN", attempts |-> 0]
  <2>1. outbox' = Append(outbox, new) /\ new.status = "OPEN" /\ outbox \in Seq(Row)
    BY <1>2 DEF Begin, Inv, TypeOK
  <2>2. new \in Row
    BY RelayAssumption DEF Row
  <2> HIDE DEF new
  <2>3. /\ DOMAIN outbox' = DOMAIN outbox \cup {Len(outbox) + 1}
        /\ \A i \in DOMAIN outbox : outbox'[i] = outbox[i]
        /\ outbox'[Len(outbox) + 1] = new
    BY <2>1, <2>2, LenProperties
  <2> QED BY <2>1, <2>3 DEF Written, Abandoned
<1>3. ASSUME NEW k \in DOMAIN outbox, Enqueue(k) PROVE Trail!Write(k) /\ k \in Ids
  <2>1. /\ DOMAIN outbox' = DOMAIN outbox /\ outbox[k] \in Row /\ k \in Ids
        /\ outbox[k].status = "OPEN" /\ outbox'[k].status = "PENDING"
        /\ \A i \in DOMAIN outbox \ {k} : outbox'[i] = outbox[i]
    BY <1>3, Reads DEF Enqueue, Inv, Row
  <2>2. Written' = Written \cup {k} /\ Abandoned' = Abandoned /\ k \notin Written
    BY <2>1 DEF Written, Abandoned
  <2> QED BY <1>0, <2>1, <2>2 DEF Trail!Write
<1>4. ASSUME NEW r \in Replicas, Commit(r)
      PROVE  [Trail!Next]_(Trail!vars)
  <2> DEFINE ids == {i \in DOMAIN marks[r] : marks[r][i].status = "FAILED"}
  <2>1. outbox' = [i \in DOMAIN outbox |-> IF i \in DOMAIN marks[r] THEN marks[r][i]
                                                                   ELSE outbox[i]]
    BY <1>4 DEF Commit
  <2>2. \A i \in DOMAIN marks[r] : /\ i \in DOMAIN outbox /\ outbox[i].status = "PENDING"
                                  /\ marks[r][i].status # "OPEN"
    BY DEF Inv, LocksFit, Locked, MarksFit
  <2>3. Written' = Written
    BY <2>1, <2>2 DEF Written
  <2>4. Abandoned' = Abandoned \cup ids
    BY <2>1, <2>2 DEF Abandoned
  <2>5. ids \subseteq Written \ Abandoned /\ ids \in SUBSET Ids
    BY <2>2, Reads DEF Inv, Written, Abandoned
  <2> HIDE DEF ids
  <2>6. CASE ids = {}
    BY <1>0, <2>3, <2>4, <2>6 DEF Trail!vars
  <2>7. CASE ids # {}
    <3>1. Trail!Abandon(ids)
      BY <1>0, <2>3, <2>4, <2>5, <2>7 DEF Trail!Abandon
    <3> QED BY <2>5, <3>1 DEF Trail!Next
  <2> QED BY <2>6, <2>7
<1>5. ASSUME NEW r \in Replicas, Tick(r) PROVE UNCHANGED outbox \/ Commit(r)
  BY <1>5 DEF Tick, ClaimBatch, Publish, PublishFails
<1>6. UNCHANGED outbox \/ (\E k \in Keys : Begin(k)) \/ (\E k \in DOMAIN outbox : Enqueue(k))
      \/ \E r \in Replicas : Commit(r)
  BY <1>5 DEF Next, vars, relayVars, Garbage, Rollback
<1>7. CASE \E k \in Keys : Begin(k)
  BY <1>0, <1>2, <1>7 DEF Trail!vars
<1>8. CASE \E k \in DOMAIN outbox : Enqueue(k)
  BY <1>3, <1>8 DEF Trail!Next
<1> QED BY <1>1, <1>4, <1>6, <1>7, <1>8

\* Of the workers' steps it sees the rows of a written event appear.
LEMMA AuditRefines ==
  ASSUME PipelineInv, AuditStep
  PROVE  [Trail!Next]_(Trail!vars)
<1>0. UNCHANGED <<Written, Abandoned>>
  BY DEF AuditStep, relayVars, Written, Abandoned
<1>1. CASE UNCHANGED audit
  BY <1>0, <1>1 DEF Trail!vars, Recorded
<1>2. ASSUME NEW e \in Ids, e \in Events \ Poison, e \in Written, InsertRows(Rows(e))
      PROVE  [Trail!Next]_(Trail!vars)
  <2>1. /\ \A f \in Events \ {e}, a \in Accounts : audit'[<<f, a>>] = audit[<<f, a>>]
        /\ \A a \in Accounts : audit'[<<e, a>>] = IF a \in Affected[e] THEN 1 ELSE 0
    BY <1>2, InsertsWhole DEF PipelineInv
  <2>2. Ids \subseteq Events
    BY RelayAssumption
  <2>3. Recorded' = [Recorded EXCEPT ![e] = Trail!RowsOf(e)]
    BY <1>2, <2>1, <2>2 DEF Recorded, Trail!RowsOf
  <2>4. CASE \A a \in Accounts : audit[<<e, a>>] = 0
    <3>1. Recorded[e] = Trail!Blank
      BY <1>2, <2>4 DEF Recorded, Trail!Blank
    <3>2. Trail!Record(e)
      BY <1>0, <1>2, <2>3, <3>1 DEF Trail!Record
    <3> QED BY <1>2, <3>2 DEF Trail!Next
  <2>5. CASE \A a \in Accounts : audit[<<e, a>>] = IF a \in Affected[e] THEN 1 ELSE 0
    <3>1. Recorded' = Recorded
      BY <2>1, <2>2, <2>5 DEF Recorded
    <3> QED BY <1>0, <3>1 DEF Trail!vars
  <2> QED BY <1>2, <2>4, <2>5 DEF PipelineInv, AuditIsWhole
<1>3. ASSUME NEW w \in Workers, Store(w) \/ StoreFails(w), ~UNCHANGED audit
      PROVE  [Trail!Next]_(Trail!vars)
  <2> DEFINE e == EventOf(task[w])
  <2>1. task[w] # NoTask /\ e \notin Poison /\ InsertRows(Rows(e))
    BY <1>3 DEF Store, StoreFails
  <2>2. e \in Ids /\ e \in Events \ Poison /\ e \in Written
    BY <2>1, HandledIsWritten
  <2> HIDE DEF e
  <2> QED BY <1>2, <2>1, <2>2
<1>4. UNCHANGED audit \/ \E w \in Workers : Store(w) \/ StoreFails(w)
  BY DEF AuditStep, WorkerNext, Handle, Assign, Fetch, CommitOffset, LosePartitions
<1> QED BY <1>1, <1>3, <1>4

LEMMA TrailInit == PipelineInit => Trail!Init
<1> SUFFICES ASSUME PipelineInit PROVE Trail!Init
  OBVIOUS
<1>1. Written = {} /\ Abandoned = {}
  BY DEF PipelineInit, Init, Written, Abandoned
<1>2. Recorded = [i \in Ids |-> Trail!Blank]
  <2>1. Ids \subseteq Events
    BY RelayAssumption
  <2> QED BY <2>1 DEF PipelineInit, WorkerInit, Recorded, Trail!Blank, RowKeys
<1> QED BY <1>1, <1>2 DEF Trail!Init

LEMMA PipelineRefines == PipelineInv /\ [PipelineNext]_pipelineVars => [Trail!Next]_(Trail!vars)
<1> SUFFICES ASSUME PipelineInv, [PipelineNext]_pipelineVars PROVE [Trail!Next]_(Trail!vars)
  OBVIOUS
<1>1. [Next]_vars \/ Garbage
  BY PipelineRelays
<1>2. CASE UNCHANGED workerVars
  BY <1>1, <1>2, RelayRefines DEF PipelineInv
<1>3. CASE AuditStep
  BY <1>3, AuditRefines
<1> QED BY <1>2, <1>3 DEF PipelineNext, RelayStep, Garbage, pipelineVars

\* The relay keeps its promises in the pipeline too, whatever the workers and
\* other producers do.
THEOREM PipelineRelayIsHonest == PipelineSpec => [](StatusIsHonest /\ NoDoublePublishing)
<1>1. PipelineInv => StatusIsHonest /\ NoDoublePublishing
  BY StatusFollows, OnceFollows DEF PipelineInv
<1> QED BY <1>1, PipelineInvariant, PTL

\* The safety part of ImplementsTrail: for any replicas, workers, accounts and
\* events, through any faults, rollbacks, crashes, redeliveries and garbage,
\* every step of the pipeline is a step of EventTrail or changes nothing there.
THEOREM PipelineImplementsTrail == PipelineSpec => Trail!Safety
  BY TrailInit, PipelineRefines, PipelineInvariant, PTL DEF PipelineSpec, Trail!Safety
=============================================================================
