------------------------- MODULE BalanceCacheProofs -------------------------
(***************************************************************************)
(* Proofs about BalanceCache: its type invariant, and that a balance is    *)
(* stale for a bounded time and for known causes only.  An entry remembers *)
(* in its time to live how long ago it was filled, and a read of the       *)
(* database how long it has waited; the version either holds has been      *)
(* superseded for no longer than that.                                     *)
(***************************************************************************)
EXTENDS BalanceCache, TLAPS

Filling(r) == reader[r] # Idle /\ reader[r].stage = "fill"

\* What a read got has been out of date for as long as the read has waited, at most.
ReadsAge ==
  \A r \in Readers : Filling(r) =>
    LET u == reader[r].user  v == reader[r].version
    IN  v <= version[u] /\ (v < version[u] => age[u][v] <= reader[r].waited)

\* What an entry holds, for that and the time since the fill.
EntriesAge ==
  \A u \in Users : entry[u] # NoEntry =>
    LET v == entry[u].version
    IN  v <= version[u] /\ (v < version[u] => age[u][v] <= MaxDelay + TTL - entry[u].ttl)

\* Why an entry may be out of date.
Explained(u) ==
  entry[u] # NoEntry /\ entry[u].version < version[u] =>
    \/ entry[u].overtaken
    \/ u \in lost
    \/ \E j \in jobs : j.user = u /\ j.version > entry[u].version /\ j.stage = "del"

CacheInv == TypeOK /\ ReadsAge /\ EntriesAge /\ \A u \in Users : Explained(u)

\* Constants and what the types say, in the form the steps use.
LEMMA Sorts ==
  /\ TTL \in Nat \ {0} /\ MaxDelay \in Nat /\ MaxVersion \in Nat /\ MaxFaults \in Nat
  /\ MaxAge \in Nat
BY CacheAssumption DEF MaxAge

LEMMA CacheInitially == Init => CacheInv
<1> SUFFICES ASSUME Init PROVE CacheInv
  OBVIOUS
<1> USE Sorts
<1>1. TypeOK
  BY DEF Init, TypeOK, Versions
<1>2. ReadsAge /\ EntriesAge /\ \A u \in Users : Explained(u)
  BY DEF Init, ReadsAge, EntriesAge, Explained, Filling
<1> QED BY <1>1, <1>2 DEF CacheInv

\* An operation makes the versions it supersedes stale from now on, and leaves an
\* invalidation for each user.
LEMMA MutateStep ==
  ASSUME CacheInv, NEW users \in SUBSET Users, Mutate(users)
  PROVE  CacheInv'
<1> USE Sorts DEF CacheInv
<1>1. /\ \A u \in users : version[u] < MaxVersion
      /\ version' = [u \in Users |-> IF u \in users THEN version[u] + 1 ELSE version[u]]
      /\ age' = [u \in Users |-> IF u \in users THEN [age[u] EXCEPT ![version[u]] = 0] ELSE age[u]]
      /\ jobs' = jobs \cup Invalidations(users)
      /\ UNCHANGED <<entry, reader, channel, lost, faults>>
  BY DEF Mutate
<1>2. \A u \in Users : version[u] \in Versions /\ age[u] \in [Versions -> 0..MaxAge]
  BY DEF TypeOK
<1>3. \A u \in Users : /\ version'[u] = IF u \in users THEN version[u] + 1 ELSE version[u]
                       /\ \A v \in Versions : age'[u][v] = IF u \in users /\ v = version[u]
                                                           THEN 0 ELSE age[u][v]
  BY <1>1, <1>2
<1>4. ASSUME NEW u \in Users, NEW v \in Versions, NEW w \in Nat,
             v <= version[u], v < version[u] => age[u][v] <= w
      PROVE  v <= version'[u] /\ (v < version'[u] => age'[u][v] <= w)
  <2>1. version[u] \in Nat /\ v \in Nat
    BY <1>2 DEF Versions
  <2>2. CASE u \in users /\ v = version[u]
    BY <2>1, <2>2, <1>3
  <2>3. CASE u \in users /\ v # version[u]
    BY <2>1, <2>3, <1>3, <1>4
  <2>4. CASE u \notin users
    BY <2>4, <1>3, <1>4
  <2> QED BY <2>2, <2>3, <2>4
<1>5. TypeOK'
  <2>1. version' \in [Users -> Versions] /\ age' \in [Users -> [Versions -> 0..MaxAge]]
    BY <1>1, <1>2 DEF Versions
  <2>2. Invalidations(users) \subseteq Job
    BY <1>1, <1>2 DEF Invalidations, Job, Versions
  <2> QED BY <1>1, <2>1, <2>2 DEF TypeOK
<1>6. ReadsAge'
  <2> SUFFICES ASSUME NEW r \in Readers, Filling(r)
               PROVE  /\ reader[r].version <= version'[reader[r].user]
                      /\ reader[r].version < version'[reader[r].user] =>
                           age'[reader[r].user][reader[r].version] <= reader[r].waited
    BY <1>1 DEF ReadsAge, Filling
  <2>1. PICK u, v, w : u = reader[r].user /\ v = reader[r].version /\ w = reader[r].waited
    OBVIOUS
  <2>2. u \in Users /\ v \in Versions /\ w \in 0..MaxDelay
    BY <2>1 DEF TypeOK, Filling, Reader
  <2>3. v <= version[u] /\ (v < version[u] => age[u][v] <= w)
    BY <2>1 DEF ReadsAge
  <2>4. v <= version'[u] /\ (v < version'[u] => age'[u][v] <= w)
    BY <2>2, <2>3, <1>4
  <2> QED BY <2>1, <2>4
<1>7. EntriesAge'
  <2> SUFFICES ASSUME NEW u \in Users, entry[u] # NoEntry
               PROVE  /\ entry[u].version <= version'[u]
                      /\ entry[u].version < version'[u] =>
                           age'[u][entry[u].version] <= MaxDelay + TTL - entry[u].ttl
    BY <1>1 DEF EntriesAge
  <2>1. PICK v, w : v = entry[u].version /\ w = MaxDelay + TTL - entry[u].ttl
    OBVIOUS
  <2>2. v \in Versions /\ w \in Nat
    BY <2>1 DEF TypeOK, Entry
  <2>3. v <= version[u] /\ (v < version[u] => age[u][v] <= w)
    BY <2>1 DEF EntriesAge
  <2>4. v <= version'[u] /\ (v < version'[u] => age'[u][v] <= w)
    BY <2>2, <2>3, <1>4
  <2> QED BY <2>1, <2>4
<1>8. ASSUME NEW u \in Users PROVE Explained(u)'
  <2>1. CASE u \in users /\ entry[u] # NoEntry
    <3> DEFINE j == [user |-> u, version |-> version[u] + 1, stage |-> "del"]
    <3>1. j \in jobs' /\ j.user = u /\ j.version = version[u] + 1 /\ j.stage = "del"
      BY <2>1, <1>1 DEF Invalidations
    <3>2. entry[u].version \in Versions /\ entry[u].version <= version[u]
      BY <2>1 DEF EntriesAge, TypeOK, Entry
    <3>3. j.version > entry[u].version
      BY <3>1, <3>2, <1>2 DEF Versions
    <3> HIDE DEF j
    <3> QED BY <3>1, <3>3, <1>1 DEF Explained
  <2>2. CASE u \notin users
    BY <2>2, <1>1, <1>3 DEF Explained
  <2>3. CASE entry[u] = NoEntry
    BY <2>3, <1>1 DEF Explained
  <2> QED BY <2>1, <2>2, <2>3
<1> QED BY <1>5, <1>6, <1>7, <1>8

\* Steps that only take entries away leave nothing unexplained.
LEMMA JobStep ==
  ASSUME CacheInv, NEW j \in jobs, Del(j) \/ PublishInvalidate(j) \/ LoseJob(j)
  PROVE  CacheInv'
<1> USE Sorts DEF CacheInv
<1>1. j \in Job /\ j.user \in Users
  BY DEF TypeOK, Job
<1>2. UNCHANGED <<version, age, reader>> /\ lost \subseteq lost'
  BY DEF Del, PublishInvalidate, LoseJob
<1>3. /\ jobs \ {j} \subseteq jobs'
      /\ \/ j.stage # "del" /\ entry' = entry
         \/ entry' = [entry EXCEPT ![j.user] = NoEntry]
         \/ j.user \in lost' /\ entry' = entry
  BY DEF Del, PublishInvalidate, LoseJob
<1>4. TypeOK'
  <2>1. faults' \in 0..MaxFaults /\ lost' \subseteq Users
    BY <1>1 DEF Del, PublishInvalidate, LoseJob, Fault, TypeOK
  <2>2. [j EXCEPT !.stage = "publish"] \in Job
    BY <1>1 DEF Job
  <2>3. jobs' \subseteq Job
    BY <2>2 DEF Del, PublishInvalidate, LoseJob, TypeOK
  <2>4. channel' \in [Users -> Nat]
    BY <1>1 DEF Del, PublishInvalidate, LoseJob, TypeOK
  <2>5. entry' \in [Users -> Entry \cup {NoEntry}]
    BY <1>3 DEF TypeOK
  <2> QED BY <1>2, <2>1, <2>3, <2>4, <2>5 DEF TypeOK
<1>5. \A u \in Users : entry'[u] # NoEntry => entry'[u] = entry[u]
  BY <1>3 DEF TypeOK
<1>6. ReadsAge' /\ EntriesAge'
  BY <1>2, <1>5 DEF ReadsAge, EntriesAge, Filling
<1>7. ASSUME NEW u \in Users PROVE Explained(u)'
  <2> SUFFICES ASSUME entry'[u] # NoEntry, entry'[u].version < version'[u],
                      ~entry'[u].overtaken, u \notin lost'
               PROVE  \E i \in jobs' : i.user = u /\ i.version > entry'[u].version /\ i.stage = "del"
    BY DEF Explained
  <2>1. PICK i \in jobs : i.user = u /\ i.version > entry[u].version /\ i.stage = "del"
    BY <1>2, <1>5 DEF Explained
  <2>2. i # j
    BY <1>3, <2>1 DEF TypeOK
  <2>3. i \in jobs' /\ entry'[u] = entry[u]
    BY <1>3, <1>5, <2>2
  <2> QED BY <2>1, <2>3
<1> QED BY <1>4, <1>6, <1>7

LEMMA DeliverStep ==
  ASSUME CacheInv, NEW u \in Users, Deliver(u)
  PROVE  CacheInv'
<1> USE Sorts DEF CacheInv
<1>1. /\ UNCHANGED <<version, age, reader, jobs, lost>>
      /\ channel[u] > 0 /\ channel' = [channel EXCEPT ![u] = @ - 1]
      /\ entry' \in {entry, [entry EXCEPT ![u] = NoEntry]} /\ faults' \in 0..MaxFaults
  BY DEF Deliver, Fault, TypeOK
<1>2. TypeOK'
  BY <1>1 DEF TypeOK
<1>3. \A x \in Users : entry'[x] # NoEntry => entry'[x] = entry[x]
  BY <1>1 DEF TypeOK
<1>4. ReadsAge' /\ EntriesAge' /\ \A x \in Users : Explained(x)'
  BY <1>1, <1>3 DEF ReadsAge, EntriesAge, Filling, Explained
<1> QED BY <1>2, <1>4

\* A read of the database is up to date, and has waited for nothing.
LEMMA ReadStep ==
  ASSUME CacheInv, NEW r \in Readers,
         ReadDatabase(r) \/ \E u \in Users : Miss(r, u)
  PROVE  CacheInv'
<1> USE Sorts DEF CacheInv
<1>1. UNCHANGED <<version, age, entry, jobs, channel, lost>>
  BY DEF ReadDatabase, Miss
<1>2. PICK w \in Reader : /\ reader' = [reader EXCEPT ![r] = w]
                          /\ w.stage = "fill" => w.version = version[w.user]
  <2>1. CASE ReadDatabase(r)
    <3> DEFINE w == [reader[r] EXCEPT !.stage = "fill", !.version = version[reader[r].user]]
    <3>1. reader[r] \in Reader /\ reader[r].user \in Users
      BY <2>1 DEF ReadDatabase, TypeOK, Reader
    <3>2. version[reader[r].user] \in Versions
      BY <3>1 DEF TypeOK
    <3>3. w \in Reader /\ w.user = reader[r].user /\ w.version = version[reader[r].user]
      BY <3>1, <3>2 DEF Reader
    <3>4. reader' = [reader EXCEPT ![r] = w]
      BY <2>1 DEF ReadDatabase
    <3> HIDE DEF w
    <3> QED BY <3>3, <3>4
  <2>2. ASSUME NEW u \in Users, Miss(r, u)
        PROVE  \E w \in Reader : /\ reader' = [reader EXCEPT ![r] = w]
                                 /\ w.stage = "fill" => w.version = version[w.user]
    <3> DEFINE w == [user |-> u, stage |-> "db", version |-> 0, waited |-> 0]
    <3>1. w \in Reader /\ w.stage # "fill"
      BY DEF Reader, Versions
    <3>2. reader' = [reader EXCEPT ![r] = w]
      BY <2>2 DEF Miss
    <3> HIDE DEF w
    <3> QED BY <3>1, <3>2
  <2> QED BY <2>1, <2>2
<1>3. \A q \in Readers : reader'[q] = IF q = r THEN w ELSE reader[q]
  BY <1>2 DEF TypeOK
<1>4. TypeOK'
  <2>1. faults' \in 0..MaxFaults
    BY DEF ReadDatabase, Miss, Fault, TypeOK
  <2> QED BY <1>1, <1>2, <2>1 DEF TypeOK
<1>5. ReadsAge'
  <2> SUFFICES ASSUME NEW q \in Readers, Filling(q)'
               PROVE  /\ reader'[q].version <= version[reader'[q].user]
                      /\ reader'[q].version < version[reader'[q].user] =>
                           age[reader'[q].user][reader'[q].version] <= reader'[q].waited
    BY <1>1 DEF ReadsAge
  <2>1. CASE q # r
    BY <2>1, <1>3 DEF ReadsAge, Filling
  <2>2. CASE q = r
    <3>1. w.user \in Users /\ version[w.user] \in Nat /\ w.version = version[w.user]
      BY <2>2, <1>2, <1>3 DEF Filling, Reader, TypeOK, Versions
    <3> QED BY <3>1, <2>2, <1>3
  <2> QED BY <2>1, <2>2
<1>6. EntriesAge' /\ \A u \in Users : Explained(u)'
  BY <1>1 DEF EntriesAge, Explained
<1> QED BY <1>4, <1>5, <1>6

\* A fill passes the age of what was read on to the entry.
LEMMA FillStep ==
  ASSUME CacheInv, NEW r \in Readers, Fill(r)
  PROVE  CacheInv'
<1> USE Sorts DEF CacheInv
<1>1. PICK w : w = reader[r]
  OBVIOUS
<1>2. PICK u, v : u = w.user /\ v = w.version
  OBVIOUS
<1>3. /\ UNCHANGED <<version, age, jobs, channel, lost>>
      /\ reader' = [reader EXCEPT ![r] = Idle] /\ faults' \in 0..MaxFaults
      /\ entry' = [entry EXCEPT ![u] = NewEntry(u, v)] \/ entry' = entry
      /\ u \in Users /\ v \in Versions /\ w.waited \in 0..MaxDelay /\ Filling(r)
  BY <1>1, <1>2 DEF Fill, Fault, Filling, TypeOK, Reader
<1>4. NewEntry(u, v) \in Entry /\ version[u] \in Nat
  BY <1>3 DEF NewEntry, Entry, TypeOK, Versions
<1>5. TypeOK'
  BY <1>3, <1>4 DEF TypeOK
<1>6. ReadsAge'
  BY <1>3 DEF ReadsAge, Filling, TypeOK
<1>7. ASSUME NEW x \in Users
      PROVE  entry'[x] = entry[x] \/ (x = u /\ entry'[x] = NewEntry(u, v))
  BY <1>3 DEF TypeOK
<1>8. EntriesAge'
  <2> SUFFICES ASSUME NEW x \in Users, entry'[x] # NoEntry
               PROVE  /\ entry'[x].version <= version[x]
                      /\ entry'[x].version < version[x] =>
                           age[x][entry'[x].version] <= MaxDelay + TTL - entry'[x].ttl
    BY <1>3 DEF EntriesAge
  <2>1. CASE entry'[x] = entry[x]
    BY <2>1 DEF EntriesAge
  <2>2. CASE x = u /\ entry'[x] = NewEntry(u, v)
    <3>1. v <= version[u] /\ (v < version[u] => age[u][v] <= w.waited)
      BY <1>1, <1>2, <1>3 DEF ReadsAge
    <3>2. age[u][v] \in Nat
      BY <1>3 DEF TypeOK
    <3> QED BY <2>2, <3>1, <3>2, <1>3 DEF NewEntry
  <2> QED BY <1>7, <2>1, <2>2
<1>9. ASSUME NEW x \in Users PROVE Explained(x)'
  <2>1. CASE entry'[x] = entry[x]
    BY <2>1, <1>3 DEF Explained
  <2>2. CASE x = u /\ entry'[x] = NewEntry(u, v)
    <3>1. entry'[x].version = v /\ (v < version[u] => entry'[x].overtaken)
      <4>1. NewEntry(u, v).version = v
        BY DEF NewEntry
      <4>2. v < version[u] => NewEntry(u, v).overtaken
        BY Zenon DEF NewEntry
      <4> QED BY <2>2, <4>1, <4>2
    <3> QED BY <2>2, <3>1, <1>3 DEF Explained
  <2> QED BY <1>7, <2>1, <2>2
<1> QED BY <1>5, <1>6, <1>8, <1>9

\* Time passes for versions, reads and entries alike.
LEMMA TickStep ==
  ASSUME CacheInv, Tick
  PROVE  CacheInv'
<1> USE Sorts DEF CacheInv
<1>1. /\ UNCHANGED <<version, jobs, channel, lost, faults>>
      /\ \A r \in Readers : Filling(r) => reader[r].waited < MaxDelay
      /\ entry' = [u \in Users |->
                     IF entry[u] = NoEntry \/ entry[u].ttl = 1 THEN NoEntry
                     ELSE [entry[u] EXCEPT !.ttl = @ - 1]]
      /\ age' = [u \in Users |-> [v \in Versions |->
                   IF v < version[u] /\ age[u][v] < MaxAge THEN age[u][v] + 1 ELSE age[u][v]]]
      /\ reader' = [r \in Readers |->
                      IF Filling(r) THEN [reader[r] EXCEPT !.waited = @ + 1] ELSE reader[r]]
  BY DEF Tick, Filling
<1>2. ASSUME NEW u \in Users, NEW v \in Versions
      PROVE  age'[u][v] \in 0..MaxAge /\ age[u][v] \in Nat /\ age'[u][v] <= age[u][v] + 1
  BY <1>1 DEF TypeOK
<1>3. ASSUME NEW r \in Readers, Filling(r)
      PROVE  /\ reader[r] \in Reader /\ reader'[r] \in Reader
             /\ reader'[r] = [reader[r] EXCEPT !.waited = @ + 1]
             /\ reader'[r].user = reader[r].user /\ reader'[r].version = reader[r].version
             /\ reader'[r].waited = reader[r].waited + 1
  BY <1>1, <1>3 DEF TypeOK, Filling, Reader
<1>4. ASSUME NEW u \in Users, entry'[u] # NoEntry
      PROVE  /\ entry[u] # NoEntry /\ entry[u] \in Entry /\ entry'[u] \in Entry
             /\ entry'[u].version = entry[u].version /\ entry'[u].overtaken = entry[u].overtaken
             /\ entry'[u].ttl = entry[u].ttl - 1
  <2>1. /\ entry[u] # NoEntry /\ entry[u].ttl # 1
        /\ entry'[u] = [entry[u] EXCEPT !.ttl = @ - 1]
    BY <1>1, <1>4
  <2>2. PICK e \in Entry : e = entry[u]
    BY <2>1 DEF TypeOK
  <2>3. e.ttl \in 1..TTL /\ e.ttl # 1 /\ e.ttl - 1 \in 1..TTL
    BY <2>1, <2>2 DEF Entry
  <2>4. entry'[u] = [e EXCEPT !.ttl = e.ttl - 1]
    BY <2>1, <2>2
  <2>5. /\ [e EXCEPT !.ttl = e.ttl - 1] \in Entry
        /\ [e EXCEPT !.ttl = e.ttl - 1].version = e.version
        /\ [e EXCEPT !.ttl = e.ttl - 1].overtaken = e.overtaken
        /\ [e EXCEPT !.ttl = e.ttl - 1].ttl = e.ttl - 1
    BY <2>3 DEF Entry
  <2> QED BY <2>1, <2>2, <2>4, <2>5
<1>5. TypeOK'
  <2>1. age' \in [Users -> [Versions -> 0..MaxAge]]
    BY <1>1, <1>2
  <2>2. entry' \in [Users -> Entry \cup {NoEntry}]
    BY <1>1, <1>4
  <2>3. reader' \in [Readers -> Reader \cup {Idle}]
    BY <1>1, <1>3 DEF TypeOK
  <2> QED BY <1>1, <2>1, <2>2, <2>3 DEF TypeOK
<1>6. ReadsAge'
  <2> SUFFICES ASSUME NEW r \in Readers, Filling(r)'
               PROVE  /\ reader'[r].version <= version[reader'[r].user]
                      /\ reader'[r].version < version[reader'[r].user] =>
                           age'[reader'[r].user][reader'[r].version] <= reader'[r].waited
    BY <1>1 DEF ReadsAge
  <2>1. Filling(r)
    BY <1>1 DEF Filling
  <2>2. PICK u, v, w : u = reader[r].user /\ v = reader[r].version /\ w = reader[r].waited
    OBVIOUS
  <2>3. /\ u \in Users /\ v \in Versions /\ w \in Nat
        /\ v <= version[u] /\ (v < version[u] => age[u][v] <= w)
    <3>1. u \in Users /\ v \in Versions /\ w \in Nat
      <4>1. reader[r] \in Reader
        BY <2>1, <1>3
      <4>2. u \in Users /\ v \in Versions /\ w \in 0..MaxDelay
        BY <4>1, <2>2 DEF Reader
      <4> QED BY <4>2
    <3>2. v <= version[u] /\ (v < version[u] => age[u][v] <= w)
      BY <2>1, <2>2 DEF ReadsAge
    <3> QED BY <3>1, <3>2
  <2>4. v < version[u] => age'[u][v] <= w + 1
    BY <2>3, <1>2
  <2> QED BY <2>1, <2>2, <2>3, <2>4, <1>3
<1>7. EntriesAge'
  <2> SUFFICES ASSUME NEW u \in Users, entry'[u] # NoEntry
               PROVE  /\ entry'[u].version <= version[u]
                      /\ entry'[u].version < version[u] =>
                           age'[u][entry'[u].version] <= MaxDelay + TTL - entry'[u].ttl
    BY <1>1 DEF EntriesAge
  <2>1. PICK v, t : v = entry[u].version /\ t = entry[u].ttl
    OBVIOUS
  <2>2. /\ v \in Versions /\ t \in 1..TTL
        /\ v <= version[u] /\ (v < version[u] => age[u][v] <= MaxDelay + TTL - t)
    BY <2>1, <1>4 DEF EntriesAge, Entry
  <2>3. v < version[u] => age'[u][v] <= MaxDelay + TTL - (t - 1)
    BY <2>2, <1>2
  <2> QED BY <2>1, <2>2, <2>3, <1>4
<1>8. ASSUME NEW u \in Users PROVE Explained(u)'
  BY <1>1, <1>4 DEF Explained
<1> QED BY <1>5, <1>6, <1>7, <1>8

LEMMA CacheStep == CacheInv /\ [Next]_vars => CacheInv'
<1> SUFFICES ASSUME CacheInv, [Next]_vars PROVE CacheInv'
  OBVIOUS
<1>1. CASE UNCHANGED vars
  BY <1>1 DEF vars, CacheInv, TypeOK, ReadsAge, EntriesAge, Explained, Filling
<1>2. CASE Next
  BY <1>2, MutateStep, JobStep, DeliverStep, ReadStep, FillStep, TickStep DEF Next
<1> QED BY <1>1, <1>2

LEMMA CacheInvariant == Spec => []CacheInv
BY CacheInitially, CacheStep, PTL DEF Spec

\* Every variable keeps its type; entries live for their time to live and reads of
\* the database wait for MaxDelay at most.
THEOREM CacheTypes == Spec => []TypeOK
<1>1. CacheInv => TypeOK
  BY DEF CacheInv
<1> QED BY <1>1, CacheInvariant, PTL

\* For any users, requests, delays and losses: what getBalance may answer is out of
\* date for less than the time to live and the time of a fill together, and an entry
\* is out of date only while its DEL is due, after a loss, or if its fill was overtaken.
THEOREM StalenessIsBounded == Spec => []StalenessHasABoundAndACause
<1>1. ASSUME CacheInv PROVE StalenessHasABoundAndACause
  <2> USE Sorts DEF CacheInv
  <2> SUFFICES ASSUME NEW u \in Users
               PROVE  /\ \A v \in Answers(u) : v < version[u] => age[u][v] < TTL + MaxDelay
                      /\ Explained(u)
    BY DEF StalenessHasABoundAndACause, Explained
  <2> SUFFICES ASSUME NEW v \in Answers(u), v < version[u]
               PROVE  age[u][v] < TTL + MaxDelay
    BY <1>1
  <2>1. CASE entry[u] # NoEntry /\ v = entry[u].version
    <3>1. age[u][v] <= MaxDelay + TTL - entry[u].ttl /\ entry[u].ttl \in 1..TTL
      BY <1>1, <2>1 DEF EntriesAge, TypeOK, Entry
    <3>2. v \in Versions /\ age[u][v] \in Nat
      BY <1>1, <2>1 DEF TypeOK, Entry
    <3> QED BY <3>1, <3>2
  <2>2. CASE \E r \in Readers : Filling(r) /\ reader[r].user = u /\ v = reader[r].version
    <3>1. PICK r \in Readers : Filling(r) /\ reader[r].user = u /\ v = reader[r].version
      BY <2>2
    <3>2. age[u][v] <= reader[r].waited
      BY <1>1, <3>1 DEF ReadsAge
    <3>3. reader[r].waited \in 0..MaxDelay /\ v \in Versions /\ age[u][v] \in Nat
      BY <1>1, <3>1 DEF Filling, TypeOK, Reader
    <3> QED BY <3>2, <3>3
  <2> QED BY <2>1, <2>2 DEF Answers, Filling
<1> QED BY <1>1, CacheInvariant, PTL

=============================================================================
