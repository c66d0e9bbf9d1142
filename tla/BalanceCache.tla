---------------------------- MODULE BalanceCache ----------------------------
(***************************************************************************)
(* The read-through balance cache of account-service: getBalance asks      *)
(* Redis, then the database, and fills Redis with a time to live; every    *)
(* committed money operation afterwards deletes and publishes the keys of  *)
(* the users it touched, without waiting and ignoring errors.  Redis is    *)
(* shared by all replicas, so a replica needs no state of its own.         *)
(*                                                                         *)
(* A balance is represented by its version: the number of committed        *)
(* operations on the account.  Time passes in ticks.                       *)
(*                                                                         *)
(* An operator marked "Mutant" is the definition below it with a plausible *)
(* bug; no specification uses it.                                          *)
(***************************************************************************)
EXTENDS Integers, FiniteSets

CONSTANTS
  Users,
  Readers,     \* getBalance requests that may be in progress at once
  TTL,         \* BALANCE_TTL_SEC, in ticks
  MaxDelay,    \* bound: ticks between a read of the database and its fill
  MaxVersion,  \* bound: operations on one account
  MaxFaults,   \* bound: Redis calls that fail and invalidations that get lost
  NoEntry, Idle

ASSUME CacheAssumption ==
  /\ TTL \in Nat \ {0} /\ MaxDelay \in Nat
  /\ MaxVersion \in Nat /\ MaxFaults \in Nat

VARIABLES
  version,   \* [Users -> version of the committed balance]
  age,       \* [Users -> [version -> ticks since it was superseded]]
  entry,     \* [Users -> what Redis holds]
  reader,    \* [Readers -> what the request is about to do]
  jobs,      \* invalidations under way after their COMMIT
  channel,   \* [Users -> keys published and not delivered]
  lost,      \* history: users an invalidation of whom did not happen
  faults     \* counter behind the bound

vars == <<version, age, entry, reader, jobs, channel, lost, faults>>

Versions == 0..MaxVersion
MaxAge   == TTL + MaxDelay + 1

\* overtaken, a history field: the balance had changed before the fill.
Entry  == [version : Versions, ttl : 1..TTL, overtaken : BOOLEAN]
Reader == [user : Users, stage : {"db", "fill"}, version : Versions, waited : 0..MaxDelay]
Job    == [user : Users, version : Versions, stage : {"del", "publish"}]

-----------------------------------------------------------------------------
(* Money operations and the invalidations they leave behind.               *)

\* invalidateAll: every user an operation touched.
Invalidations(users) ==
  {[user |-> u, version |-> version[u] + 1, stage |-> "del"] : u \in users}

Mutate(users) ==
  /\ \A u \in users : version[u] < MaxVersion
  /\ version' = [u \in Users |-> IF u \in users THEN version[u] + 1 ELSE version[u]]
  /\ age' = [u \in Users |-> IF u \in users THEN [age[u] EXCEPT ![version[u]] = 0] ELSE age[u]]
  /\ jobs' = jobs \cup Invalidations(users)
  /\ UNCHANGED <<entry, reader, channel, lost, faults>>

Fault == faults < MaxFaults /\ faults' = faults + 1

\* cache.del of invalidateBalanceFor; an error is logged and forgotten.
Del(j) ==
  /\ j.stage = "del"
  /\ jobs' = (jobs \ {j}) \cup {[j EXCEPT !.stage = "publish"]}
  /\ \/ entry' = [entry EXCEPT ![j.user] = NoEntry] /\ UNCHANGED <<lost, faults>>
     \/ Fault /\ lost' = lost \cup {j.user} /\ UNCHANGED entry
  /\ UNCHANGED <<version, age, reader, channel>>

\* cache.publishInvalidate
PublishInvalidate(j) ==
  /\ j.stage = "publish"
  /\ jobs' = jobs \ {j}
  /\ \/ channel' = [channel EXCEPT ![j.user] = @ + 1] /\ UNCHANGED faults
     \/ Fault /\ UNCHANGED channel
  /\ UNCHANGED <<version, age, entry, reader, lost>>

\* The replica dies with the job.
LoseJob(j) ==
  /\ Fault
  /\ jobs' = jobs \ {j}
  /\ lost' = lost \cup {j.user}
  /\ UNCHANGED <<version, age, entry, reader, channel>>

\* The subscriber deletes the key, or Redis drops the message.
Deliver(u) ==
  /\ channel[u] > 0
  /\ channel' = [channel EXCEPT ![u] = @ - 1]
  /\ \/ entry' = [entry EXCEPT ![u] = NoEntry] /\ UNCHANGED faults
     \/ Fault /\ UNCHANGED entry
  /\ UNCHANGED <<version, age, reader, jobs, lost>>

-----------------------------------------------------------------------------
(* getBalance.  A hit answers from Redis and changes nothing, so it has no *)
(* action.                                                                 *)

\* A miss, or an error of cache.get, which counts as one.
Miss(r, u) ==
  /\ reader[r] = Idle
  /\ \/ entry[u] = NoEntry /\ UNCHANGED faults
     \/ entry[u] # NoEntry /\ Fault
  /\ reader' = [reader EXCEPT ![r] = [user |-> u, stage |-> "db", version |-> 0, waited |-> 0]]
  /\ UNCHANGED <<version, age, entry, jobs, channel, lost>>

\* findByUserId
ReadDatabase(r) ==
  /\ reader[r] # Idle /\ reader[r].stage = "db"
  /\ reader' = [reader EXCEPT ![r].stage = "fill", ![r].version = version[reader[r].user]]
  /\ UNCHANGED <<version, age, entry, jobs, channel, lost, faults>>

\* Mutant: an entry that is there is kept and its time to live starts again.
EntryKept(u, v) ==
  [version |-> IF entry[u] = NoEntry THEN v ELSE entry[u].version, ttl |-> TTL,
   overtaken |-> v < version[u]]

\* What cache.setEx stores: whatever is there is replaced.
NewEntry(u, v) == [version |-> v, ttl |-> TTL, overtaken |-> v < version[u]]

\* cache.setEx, then the answer.
Fill(r) ==
  /\ reader[r] # Idle /\ reader[r].stage = "fill"
  /\ LET u == reader[r].user
     IN  \/ entry' = [entry EXCEPT ![u] = NewEntry(u, reader[r].version)] /\ UNCHANGED faults
         \/ Fault /\ UNCHANGED entry
  /\ reader' = [reader EXCEPT ![r] = Idle]
  /\ UNCHANGED <<version, age, jobs, channel, lost>>

-----------------------------------------------------------------------------

\* A tick: entries run out, superseded versions age.  A read in progress is
\* answered within MaxDelay.
Tick ==
  /\ \A r \in Readers : reader[r] # Idle => reader[r].waited < MaxDelay \/ reader[r].stage = "db"
  /\ entry' = [u \in Users |->
                 IF entry[u] = NoEntry \/ entry[u].ttl = 1 THEN NoEntry
                 ELSE [entry[u] EXCEPT !.ttl = @ - 1]]
  /\ age' = [u \in Users |-> [v \in Versions |->
               IF v < version[u] /\ age[u][v] < MaxAge THEN age[u][v] + 1 ELSE age[u][v]]]
  /\ reader' = [r \in Readers |->
                  IF reader[r] # Idle /\ reader[r].stage = "fill"
                  THEN [reader[r] EXCEPT !.waited = @ + 1] ELSE reader[r]]
  /\ UNCHANGED <<version, jobs, channel, lost, faults>>

Init ==
  /\ version = [u \in Users |-> 0]
  /\ age = [u \in Users |-> [v \in Versions |-> 0]]
  /\ entry = [u \in Users |-> NoEntry]
  /\ reader = [r \in Readers |-> Idle]
  /\ jobs = {}
  /\ channel = [u \in Users |-> 0]
  /\ lost = {}
  /\ faults = 0

Next ==
  \/ \E users \in SUBSET Users \ {{}} : Mutate(users)
  \/ \E j \in jobs : Del(j) \/ PublishInvalidate(j) \/ LoseJob(j)
  \/ \E u \in Users : Deliver(u)
  \/ \E r \in Readers : ReadDatabase(r) \/ Fill(r) \/ \E u \in Users : Miss(r, u)
  \/ Tick

Spec == Init /\ [][Next]_vars

-----------------------------------------------------------------------------
(* Properties.                                                             *)

\* Every variable keeps its type; an entry never outlives its time to live.
TypeOK ==
  /\ version \in [Users -> Versions]
  /\ age \in [Users -> [Versions -> 0..MaxAge]]
  /\ entry \in [Users -> Entry \cup {NoEntry}]
  /\ reader \in [Readers -> Reader \cup {Idle}]
  /\ jobs \subseteq Job
  /\ channel \in [Users -> Nat]
  /\ lost \subseteq Users
  /\ faults \in 0..MaxFaults

\* The versions a getBalance of u may answer now.
Answers(u) ==
  {entry[u].version : e \in {entry[u]} \ {NoEntry}}
    \cup {reader[r].version : r \in {s \in Readers : /\ reader[s] # Idle
                                                     /\ reader[s].user = u
                                                     /\ reader[s].stage = "fill"}}

\* However invalidations are lost, delayed or overtaken by fills, a balance is never
\* shown once it is out of date by the time to live plus the time a fill takes.  And
\* an entry is out of date only while an invalidation is still to come, after one
\* was lost, or if an operation overtook its fill: no committed operation leaves
\* its users' keys behind in another way.
StalenessHasABoundAndACause ==
  \A u \in Users :
    /\ \A v \in Answers(u) : v < version[u] => age[u][v] < TTL + MaxDelay
    /\ entry[u] # NoEntry /\ entry[u].version < version[u] =>
         \/ entry[u].overtaken
         \/ u \in lost
         \/ \E j \in jobs : j.user = u /\ j.version > entry[u].version /\ j.stage = "del"

=============================================================================
