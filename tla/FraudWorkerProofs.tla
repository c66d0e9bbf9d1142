------------------------- MODULE FraudWorkerProofs -------------------------
(***************************************************************************)
(* Proofs about FraudWorker: closed alerts stay closed and nothing but an  *)
(* error is skipped, for any workers, transactions and legs, and any order *)
(* of messages, crashes, rebalances and late flushes.                      *)
(***************************************************************************)
EXTENDS FraudWorker, SequenceTheorems, TLAPS

-----------------------------------------------------------------------------
(* The inductive invariant.                                                *)

Handled(m) == /\ m.type = "tx" => scores[m.leg] # "none"
              /\ m.type = "cancelled" => m.tx \in resolved

\* What must hold of a message before its offset may be committed.
Settled(m) ==
  errors = 0 => /\ Handled(m)
                /\ timeouts = 0 /\ m.type = "tx" => m.leg \in scored

\* Only what the registry cancelled is announced as cancelled.
AnnouncedIsCancelled(m) == m.type = "cancelled" => m.tx \in cancelled

LogIsHonest == \A p \in Partitions : \A o \in DOMAIN log[p] : AnnouncedIsCancelled(log[p][o])

\* How far a worker at a step is with its message.
Progress(w, k) ==
  /\ AnnouncedIsCancelled(k.message)
  /\ k.step \in {"score", "alert", "publish", "flush"} => k.message.type = "tx"
  /\ k.step = "resolve" => k.message.type = "cancelled"
  /\ k.step \in {"alert", "publish", "flush"} => scores[k.message.leg] # "none"
  /\ k.step = "flush" => k.message.leg \in buffer[w]
  /\ k.step = "commit" => Settled(k.message)

TasksProgress == \A w \in Workers : task[w] # NoTask => Progress(w, task[w])

\* Who goes on with the message of a lost partition owns none.
ZombiesOwnNothing ==
  \A w \in Workers, p \in Partitions :
    task[w] # NoTask /\ owner[p] = w => owner[task[w].partition] = w

OffsetsExist ==
  \A p \in Partitions : /\ committed[p] <= Len(log[p]) + 1
                        /\ position[p] <= Len(log[p]) + 1

CommittedIsSettled ==
  \A p \in Partitions : \A o \in 1..(committed[p] - 1) : Settled(log[p][o])

HasTask(w, p, m) == task[w] # NoTask /\ task[w].partition = p /\ task[w].message = m

\* What an owner has polled is settled, or what it is handling.
PolledIsSettled ==
  \A w \in Workers, p \in Partitions :
    owner[p] = w =>
      \A o \in 1..(position[p] - 1) : Settled(log[p][o]) \/ HasTask(w, p, log[p][o])

Inv ==
  /\ TypeOK
  /\ LogIsHonest /\ TasksProgress /\ ZombiesOwnNothing /\ OffsetsExist
  /\ CommittedIsSettled /\ PolledIsSettled
  /\ CancelledStaysClosed

-----------------------------------------------------------------------------
(* Lemmas.                                                                 *)

\* What the types say of the log.
LEMMA LogReads ==
  ASSUME TypeOK, NEW p \in Partitions
  PROVE  /\ log[p] \in Seq(Message)
         /\ Len(log[p]) \in Nat /\ DOMAIN log[p] = 1..Len(log[p])
         /\ \A o \in DOMAIN log[p] : log[p][o] \in Message
         /\ committed[p] \in Nat \ {0} /\ position[p] \in Nat \ {0}
<1>1. log[p] \in Seq(Message)
  BY DEF TypeOK
<1> QED BY <1>1, LenProperties DEF TypeOK

\* Steps after which more has been done, and no error was made.
Grows ==
  /\ cancelled \subseteq cancelled' /\ resolved \subseteq resolved' /\ scored \subseteq scored'
  /\ \A l \in Leg : scores[l] # "none" => scores'[l] # "none"
  /\ errors' = errors /\ (timeouts' = 0 => timeouts = 0)

LEMMA SettledStays ==
  ASSUME Grows, NEW m \in Message, Settled(m)
  PROVE  Settled(m)'
  BY DEF Grows, Message, Settled, Handled

LEMMA ProgressStays ==
  ASSUME Grows, NEW w \in Workers, NEW k \in Task, Progress(w, k),
         k.step = "flush" => buffer[w] \subseteq buffer'[w]
  PROVE  Progress(w, k)'
<1>1. k.message \in Message
  BY DEF Task
<1>2. k.message.type = "tx" => k.message.leg \in Leg
  BY <1>1 DEF Message
<1>3. Settled(k.message) => Settled(k.message)'
  BY <1>1, SettledStays
<1> QED BY <1>2, <1>3 DEF Progress, Grows, AnnouncedIsCancelled

\* Such steps, when they leave the log and the group alone, settle all they did.
LEMMA GroupStays ==
  ASSUME Inv, Grows, UNCHANGED <<log, group>>,
         \A w \in Workers : \/ task'[w] = task[w]
                            \/ /\ task[w] # NoTask /\ task'[w] # NoTask
                               /\ task'[w].partition = task[w].partition
                               /\ task'[w].message = task[w].message
  PROVE  /\ LogIsHonest' /\ ZombiesOwnNothing' /\ OffsetsExist'
         /\ CommittedIsSettled' /\ PolledIsSettled'
<1>1. UNCHANGED <<committed, owner, position>>
  BY DEF group
<1>2. ZombiesOwnNothing'
  BY <1>1 DEF Inv, ZombiesOwnNothing
<1>3. OffsetsExist'
  BY <1>1 DEF Inv, OffsetsExist
<1>4. LogIsHonest'
  BY DEF Inv, LogIsHonest, AnnouncedIsCancelled, Grows
<1>5. ASSUME NEW p \in Partitions
      PROVE  /\ 1..(committed[p] - 1) \subseteq DOMAIN log[p]
             /\ 1..(position[p] - 1) \subseteq DOMAIN log[p]
             /\ \A o \in DOMAIN log[p] : Settled(log[p][o]) => Settled(log[p][o])'
  <2>1. \A o \in DOMAIN log[p] : Settled(log[p][o]) => Settled(log[p][o])'
    BY LogReads, SettledStays DEF Inv
  <2> QED BY <2>1, LogReads DEF Inv, OffsetsExist
<1>6. CommittedIsSettled'
  BY <1>1, <1>5 DEF Inv, CommittedIsSettled
<1>7. PolledIsSettled'
  <2> SUFFICES ASSUME NEW w \in Workers, NEW p \in Partitions, owner[p] = w,
                      NEW o \in 1..(position[p] - 1)
               PROVE  Settled(log[p][o])' \/ HasTask(w, p, log[p][o])'
    BY <1>1 DEF PolledIsSettled
  <2>1. Settled(log[p][o]) \/ HasTask(w, p, log[p][o])
    BY DEF Inv, PolledIsSettled
  <2> QED BY <1>5, <2>1 DEF HasTask
<1> QED BY <1>2, <1>3, <1>4, <1>6, <1>7

\* A worker goes on with its message, or its producer's thread does something.
LEMMA WorkerSteps ==
  ASSUME Inv, TypeOK', Grows, UNCHANGED <<log, group>>, CancelledStaysClosed',
         NEW w \in Workers,
         \A u \in Workers \ {w} : task'[u] = task[u] /\ buffer'[u] = buffer[u],
         \/ task[w] = NoTask /\ task'[w] = NoTask
         \/ /\ task[w] # NoTask /\ task'[w] # NoTask
            /\ task'[w].partition = task[w].partition
            /\ task'[w].message = task[w].message
            /\ Progress(w, task[w])'
  PROVE  Inv'
<1>1. TasksProgress'
  <2> SUFFICES ASSUME NEW u \in Workers, task'[u] # NoTask
               PROVE  Progress(u, task[u])'
    BY DEF TasksProgress
  <2>1. CASE u = w
    BY <2>1
  <2>2. CASE u # w
    <3>1. /\ task'[u] = task[u] /\ buffer'[u] = buffer[u]
          /\ task[u] \in Task /\ Progress(u, task[u])
      BY <2>2 DEF Inv, TypeOK, TasksProgress
    <3>2. PICK k \in Task : k = task[u]
      BY <3>1
    <3>3. Progress(u, k)'
      BY <3>1, <3>2, ProgressStays
    <3> QED BY <3>1, <3>2, <3>3 DEF Progress, AnnouncedIsCancelled, Settled, Handled
  <2> QED BY <2>1, <2>2
<1> QED BY <1>1, GroupStays DEF Inv

\* Something else happens.
LEMMA OthersStep ==
  ASSUME Inv, TypeOK', Grows, UNCHANGED <<log, group, task, buffer>>, CancelledStaysClosed'
  PROVE  Inv'
<1>1. TasksProgress'
  <2> SUFFICES ASSUME NEW u \in Workers, task[u] # NoTask
               PROVE  Progress(u, task[u])'
    BY DEF TasksProgress
  <2>1. task[u] \in Task /\ Progress(u, task[u])
    BY DEF Inv, TypeOK, TasksProgress
  <2> QED BY <2>1, ProgressStays DEF Progress
<1> QED BY <1>1, GroupStays DEF Inv

-----------------------------------------------------------------------------
(* The handler.                                                            *)

\* What is known of the message a worker is handling.
LEMMA AtWork ==
  ASSUME Inv, NEW w \in Workers, task[w] # NoTask
  PROVE  /\ task[w] \in Task /\ task[w].message \in Message /\ task[w].partition \in Partitions
         /\ Progress(w, task[w])
         /\ task[w].message.type = "tx" => task[w].message.leg \in Leg
         /\ task[w].message.type = "cancelled" => task[w].message.tx \in Transactions
<1>1. task[w] \in Task /\ task[w].message \in Message /\ task[w].partition \in Partitions
  BY DEF Inv, TypeOK, Task
<1> QED BY <1>1 DEF Message, Inv, TasksProgress

\* A worker goes to the next step of its message.
LEMMA NextStep ==
  ASSUME Inv, NEW w \in Workers, task[w] # NoTask,
         NEW new, new \in Task, task' = [task EXCEPT ![w] = new],
         new.message = task[w].message, new.partition = task[w].partition
  PROVE  /\ task' \in [Workers -> Task \cup {NoTask}]
         /\ task'[w] = new /\ task'[w] # NoTask
         /\ task'[w].partition = task[w].partition
         /\ task'[w].message = task[w].message
         /\ \A u \in Workers \ {w} : task'[u] = task[u]
  BY NoTaskAssumption DEF Inv, TypeOK

LEMMA InsertScoreInv ==
  ASSUME Inv, NEW w \in Workers, InsertScore(w)
  PROVE  Inv'
<1> DEFINE k == task[w]
           l == k.message.leg
<1>1. /\ k # NoTask /\ k.step = "score"
      /\ UNCHANGED <<log, cancelled, alerts, resolved, buffer, scored, group, bounds>>
  BY DEF InsertScore, At
<1>2. /\ k \in Task /\ Progress(w, k) /\ k.message.type = "tx" /\ l \in Leg
  BY <1>1, AtWork DEF Progress
<1>3. PICK v \in Verdicts[l[1]] :
        /\ scores' = [scores EXCEPT ![l] = IF @ = "none" THEN v ELSE @]
        /\ task' = [task EXCEPT ![w] = [@ EXCEPT
                      !.level = v, !.step = IF v \in Risky THEN "alert" ELSE "publish"]]
  BY DEF InsertScore
<1>4. v \in Levels /\ v # "none"
  BY <1>2, FraudAssumption DEF Leg, Levels
<1> DEFINE new == [k EXCEPT !.level = v, !.step = IF v \in Risky THEN "alert" ELSE "publish"]
<1>5. /\ new \in Task /\ new.message = k.message /\ new.partition = k.partition
      /\ new.step \in {"alert", "publish"} /\ task' = [task EXCEPT ![w] = new]
  BY <1>2, <1>3, <1>4 DEF Task, Steps, Inv, TypeOK
<1> HIDE DEF new
<1>6. /\ task' \in [Workers -> Task \cup {NoTask}]
      /\ task'[w] = new /\ task'[w] # NoTask
      /\ task'[w].partition = k.partition /\ task'[w].message = k.message
      /\ \A u \in Workers \ {w} : task'[u] = task[u]
  BY <1>1, <1>5, NextStep
<1>7. /\ scores' \in [Leg -> Levels \cup {"none"}] /\ scores'[l] # "none"
      /\ \A x \in Leg : scores[x] # "none" => scores'[x] # "none"
  BY <1>2, <1>3, <1>4 DEF Inv, TypeOK
<1>8. TypeOK'
  BY <1>1, <1>6, <1>7 DEF Inv, TypeOK, group, bounds
<1>9. Grows
  BY <1>1, <1>7 DEF Grows, bounds
<1>10. CancelledStaysClosed'
  BY <1>1 DEF Inv, CancelledStaysClosed
<1>11. Progress(w, task[w])'
  BY <1>1, <1>2, <1>5, <1>6, <1>7 DEF Progress, AnnouncedIsCancelled
<1> QED BY <1>1, <1>6, <1>8, <1>9, <1>10, <1>11, WorkerSteps

LEMMA InsertAlertInv ==
  ASSUME Inv, NEW w \in Workers, InsertAlert(w)
  PROVE  Inv'
<1> DEFINE k   == task[w]
           l   == k.message.leg
           new == [k EXCEPT !.step = "publish"]
<1>1. /\ k # NoTask /\ k.step = "alert" /\ task' = [task EXCEPT ![w] = new]
      /\ UNCHANGED <<log, cancelled, scores, resolved, buffer, scored, group, bounds>>
      /\ alerts' = [alerts EXCEPT ![l] = IF @ = "none" THEN InitialStatus(l[1]) ELSE @]
  BY DEF InsertAlert, At, Goto
<1>2. /\ k \in Task /\ Progress(w, k) /\ k.message.type = "tx" /\ l \in Leg
  BY <1>1, AtWork DEF Progress
<1>3. /\ new \in Task /\ new.message = k.message /\ new.partition = k.partition
      /\ new.step = "publish"
  BY <1>2 DEF Task, Steps
<1> HIDE DEF new
<1>4. /\ task' \in [Workers -> Task \cup {NoTask}]
      /\ task'[w] = new /\ task'[w] # NoTask
      /\ task'[w].partition = k.partition /\ task'[w].message = k.message
      /\ \A u \in Workers \ {w} : task'[u] = task[u]
  BY <1>1, <1>3, NextStep
<1>5. alerts' \in [Leg -> {"none", "OPEN", "CANCELLED", "DISMISSED"}]
  BY <1>1, <1>2 DEF Inv, TypeOK, InitialStatus
<1>6. TypeOK'
  BY <1>1, <1>4, <1>5 DEF Inv, TypeOK, group, bounds
<1>7. Grows
  BY <1>1 DEF Grows, bounds
<1>8. CancelledStaysClosed'
  <2> SUFFICES ASSUME NEW x \in Leg, x[1] \in resolved
               PROVE  alerts'[x] # "OPEN"
    BY <1>1 DEF CancelledStaysClosed
  <2>1. alerts[x] # "OPEN" /\ x[1] \in cancelled
    BY DEF Inv, TypeOK, CancelledStaysClosed
  <2>2. alerts'[x] = alerts[x] \/ alerts'[x] = InitialStatus(x[1])
    BY <1>1, <1>2 DEF Inv, TypeOK
  <2> QED BY <2>1, <2>2 DEF InitialStatus
<1>9. Progress(w, task[w])'
  BY <1>1, <1>2, <1>3, <1>4 DEF Progress, AnnouncedIsCancelled
<1> QED BY <1>1, <1>4, <1>6, <1>7, <1>8, <1>9, WorkerSteps

LEMMA ProduceInv ==
  ASSUME Inv, NEW w \in Workers, Produce(w)
  PROVE  Inv'
<1> DEFINE k   == task[w]
           new == [k EXCEPT !.step = "flush"]
<1>1. /\ k # NoTask /\ k.step = "publish" /\ task' = [task EXCEPT ![w] = new]
      /\ UNCHANGED <<log, cancelled, tables, scored, group, bounds>>
      /\ buffer' = [buffer EXCEPT ![w] = @ \cup {k.message.leg}]
  BY DEF Produce, At, Goto
<1>2. /\ k \in Task /\ Progress(w, k) /\ k.message.type = "tx" /\ k.message.leg \in Leg
  BY <1>1, AtWork DEF Progress
<1>3. /\ new \in Task /\ new.message = k.message /\ new.partition = k.partition
      /\ new.step = "flush"
  BY <1>2 DEF Task, Steps
<1> HIDE DEF new
<1>4. /\ task' \in [Workers -> Task \cup {NoTask}]
      /\ task'[w] = new /\ task'[w] # NoTask
      /\ task'[w].partition = k.partition /\ task'[w].message = k.message
      /\ \A u \in Workers \ {w} : task'[u] = task[u]
  BY <1>1, <1>3, NextStep
<1>5. /\ buffer' \in [Workers -> SUBSET Leg] /\ k.message.leg \in buffer'[w]
      /\ \A u \in Workers \ {w} : buffer'[u] = buffer[u]
  BY <1>1, <1>2 DEF Inv, TypeOK
<1>6. TypeOK'
  BY <1>1, <1>4, <1>5 DEF Inv, TypeOK, tables, group, bounds
<1>7. Grows
  BY <1>1 DEF Grows, tables, bounds
<1>8. CancelledStaysClosed'
  BY <1>1 DEF Inv, CancelledStaysClosed, tables
<1>9. Progress(w, task[w])'
  BY <1>1, <1>2, <1>3, <1>4, <1>5 DEF Progress, AnnouncedIsCancelled, tables
<1> QED BY <1>1, <1>4, <1>5, <1>6, <1>7, <1>8, <1>9, WorkerSteps

\* The event is out with the flush, unless that times out.
LEMMA FlushInv ==
  ASSUME Inv, NEW w \in Workers, Flush(w)
  PROVE  Inv'
<1> DEFINE k   == task[w]
           new == [k EXCEPT !.step = "commit"]
<1>1. /\ k # NoTask /\ k.step = "flush" /\ task' = [task EXCEPT ![w] = new]
      /\ UNCHANGED <<log, cancelled, tables, group, errors, moves>>
      /\ \/ Deliver(w) /\ UNCHANGED timeouts
         \/ /\ timeouts < MaxTimeouts /\ timeouts' = timeouts + 1
            /\ UNCHANGED <<buffer, scored>>
  BY DEF Flush, At, Goto
<1>2. /\ k \in Task /\ Progress(w, k) /\ k.message.type = "tx" /\ k.message.leg \in Leg
      /\ k.message.leg \in buffer[w] /\ scores[k.message.leg] # "none"
  BY <1>1, AtWork DEF Progress
<1>3. /\ new \in Task /\ new.message = k.message /\ new.partition = k.partition
      /\ new.step = "commit"
  BY <1>2 DEF Task, Steps
<1> HIDE DEF new
<1>4. /\ task' \in [Workers -> Task \cup {NoTask}]
      /\ task'[w] = new /\ task'[w] # NoTask
      /\ task'[w].partition = k.partition /\ task'[w].message = k.message
      /\ \A u \in Workers \ {w} : task'[u] = task[u]
  BY <1>1, <1>3, NextStep
<1>5. /\ buffer' \in [Workers -> SUBSET Leg] /\ scored' \in SUBSET Leg
      /\ scored \subseteq scored'
      /\ \A u \in Workers \ {w} : buffer'[u] = buffer[u]
      /\ timeouts' \in 0..MaxTimeouts /\ (timeouts' = 0 => timeouts = 0)
      /\ timeouts' = 0 => k.message.leg \in scored'
  <2>1. timeouts \in 0..MaxTimeouts /\ MaxTimeouts \in Nat /\ timeouts \in Nat
    BY FraudAssumption DEF Inv, TypeOK
  <2>2. CASE Deliver(w) /\ UNCHANGED timeouts
    BY <1>2, <2>1, <2>2 DEF Inv, TypeOK, Deliver
  <2>3. CASE timeouts < MaxTimeouts /\ timeouts' = timeouts + 1 /\ UNCHANGED <<buffer, scored>>
    BY <2>1, <2>3 DEF Inv, TypeOK
  <2> QED BY <1>1, <2>2, <2>3
<1>6. TypeOK'
  BY <1>1, <1>4, <1>5 DEF Inv, TypeOK, tables, group
<1>7. Grows
  BY <1>1, <1>5 DEF Grows, tables
<1>8. CancelledStaysClosed'
  BY <1>1 DEF Inv, CancelledStaysClosed, tables
<1>9. Progress(w, task[w])'
  BY <1>1, <1>2, <1>3, <1>4, <1>5 DEF Progress, AnnouncedIsCancelled, Settled, Handled, tables
<1> QED BY <1>1, <1>4, <1>5, <1>6, <1>7, <1>8, <1>9, WorkerSteps

LEMMA DeliverLateInv ==
  ASSUME Inv, NEW w \in Workers, DeliverLate(w)
  PROVE  Inv'
<1>1. /\ ~At(w, "flush") /\ Deliver(w)
      /\ UNCHANGED <<log, cancelled, tables, group, task, bounds>>
  BY DEF DeliverLate
<1>2. /\ buffer' \in [Workers -> SUBSET Leg] /\ scored' \in SUBSET Leg
      /\ scored \subseteq scored'
      /\ \A u \in Workers \ {w} : buffer'[u] = buffer[u]
  BY <1>1 DEF Inv, TypeOK, Deliver
<1>3. TypeOK'
  BY <1>1, <1>2 DEF Inv, TypeOK, tables, group, bounds
<1>4. Grows
  BY <1>1, <1>2 DEF Grows, tables, bounds
<1>5. CancelledStaysClosed'
  BY <1>1 DEF Inv, CancelledStaysClosed, tables
<1>6. ASSUME task[w] # NoTask
      PROVE  Progress(w, task[w])'
  <2>1. task[w] \in Task /\ Progress(w, task[w]) /\ task[w].step # "flush"
    BY <1>1, <1>6, AtWork DEF At
  <2>2. PICK k \in Task : k = task[w]
    BY <2>1
  <2>3. Progress(w, k)'
    BY <1>4, <2>1, <2>2, ProgressStays
  <2> QED BY <1>1, <2>2, <2>3 DEF Progress, AnnouncedIsCancelled, Settled, Handled
<1> QED BY <1>1, <1>2, <1>3, <1>4, <1>5, <1>6, WorkerSteps

\* What a verdict of the desk or the registry does to a transaction's alerts.
LEMMA CloseCloses ==
  ASSUME TypeOK, NEW t, NEW status \in {"CANCELLED", "DISMISSED"},
         alerts' = Close(t, status)
  PROVE  /\ alerts' \in [Leg -> {"none", "OPEN", "CANCELLED", "DISMISSED"}]
         /\ \A l \in Leg : /\ alerts'[l] = "OPEN" => alerts[l] = "OPEN"
                           /\ l[1] = t => alerts'[l] # "OPEN"
                           /\ alerts[l] \in {"CANCELLED", "DISMISSED"} => alerts'[l] = alerts[l]
  BY DEF TypeOK, Close

LEMMA ResolveAlertsInv ==
  ASSUME Inv, NEW w \in Workers, ResolveAlerts(w)
  PROVE  Inv'
<1> DEFINE k   == task[w]
           t   == k.message.tx
           new == [k EXCEPT !.step = "commit"]
<1>1. /\ k # NoTask /\ k.step = "resolve" /\ task' = [task EXCEPT ![w] = new]
      /\ UNCHANGED <<log, cancelled, scores, buffer, scored, group, bounds>>
      /\ alerts' = Close(t, "CANCELLED") /\ resolved' = resolved \cup {t}
  BY DEF ResolveAlerts, At, Goto
<1>2. /\ k \in Task /\ Progress(w, k) /\ k.message.type = "cancelled"
      /\ t \in Transactions /\ t \in cancelled
  BY <1>1, AtWork DEF Progress, AnnouncedIsCancelled
<1>3. /\ new \in Task /\ new.message = k.message /\ new.partition = k.partition
      /\ new.step = "commit"
  BY <1>2 DEF Task, Steps
<1> HIDE DEF new
<1>4. /\ task' \in [Workers -> Task \cup {NoTask}]
      /\ task'[w] = new /\ task'[w] # NoTask
      /\ task'[w].partition = k.partition /\ task'[w].message = k.message
      /\ \A u \in Workers \ {w} : task'[u] = task[u]
  BY <1>1, <1>3, NextStep
<1>5. /\ alerts' \in [Leg -> {"none", "OPEN", "CANCELLED", "DISMISSED"}]
      /\ \A l \in Leg : /\ alerts'[l] = "OPEN" => alerts[l] = "OPEN"
                        /\ l[1] = t => alerts'[l] # "OPEN"
  BY <1>1, CloseCloses DEF Inv
<1>6. TypeOK'
  BY <1>1, <1>2, <1>4, <1>5 DEF Inv, TypeOK, group, bounds
<1>7. Grows
  BY <1>1 DEF Grows, bounds
<1>8. CancelledStaysClosed'
  BY <1>1, <1>5 DEF Inv, CancelledStaysClosed
<1>9. Progress(w, task[w])'
  BY <1>1, <1>2, <1>3, <1>4 DEF Progress, AnnouncedIsCancelled, Settled, Handled
<1> QED BY <1>1, <1>4, <1>6, <1>7, <1>8, <1>9, WorkerSteps

LEMMA DismissInv ==
  ASSUME Inv, NEW t \in Transactions, Dismiss(t)
  PROVE  Inv'
<1>1. /\ alerts' = Close(t, "DISMISSED")
      /\ UNCHANGED <<log, cancelled, scores, resolved, buffer, scored, group, task, bounds>>
  BY DEF Dismiss
<1>2. /\ alerts' \in [Leg -> {"none", "OPEN", "CANCELLED", "DISMISSED"}]
      /\ \A l \in Leg : alerts'[l] = "OPEN" => alerts[l] = "OPEN"
  BY <1>1, CloseCloses DEF Inv
<1>3. TypeOK'
  BY <1>1, <1>2 DEF Inv, TypeOK, group, bounds
<1>4. Grows
  BY <1>1 DEF Grows, bounds
<1>5. CancelledStaysClosed'
  BY <1>1, <1>2 DEF Inv, CancelledStaysClosed
<1> QED BY <1>1, <1>3, <1>4, <1>5, OthersStep

LEMMA CancelInv ==
  ASSUME Inv, NEW t \in Transactions, Cancel(t)
  PROVE  Inv'
<1>1. /\ cancelled' = cancelled \cup {t}
      /\ UNCHANGED <<log, tables, buffer, scored, group, task, bounds>>
  BY DEF Cancel
<1>2. TypeOK'
  BY <1>1 DEF Inv, TypeOK, tables, group, bounds
<1>3. Grows
  BY <1>1 DEF Grows, tables, bounds
<1>4. CancelledStaysClosed'
  BY <1>1 DEF Inv, CancelledStaysClosed, tables
<1> QED BY <1>1, <1>2, <1>3, <1>4, OthersStep

-----------------------------------------------------------------------------
(* Offsets and owners.                                                     *)

\* The tables, the log and the errors stay, and with them what is settled.
StillSettled == UNCHANGED <<log, cancelled, tables, scored, errors, timeouts>>

\* Of the requests of others nothing changes, and that of worker w is gone, or
\* has made the progress it says.
LEMMA TasksLeft ==
  ASSUME Inv, StillSettled, NEW w \in Workers, task'[w] = NoTask,
         \A u \in Workers \ {w} : task'[u] = task[u] /\ buffer'[u] = buffer[u]
  PROVE  LogIsHonest' /\ TasksProgress' /\ CancelledStaysClosed'
<1>1. LogIsHonest' /\ CancelledStaysClosed'
  BY DEF Inv, StillSettled, tables, LogIsHonest, AnnouncedIsCancelled, CancelledStaysClosed
<1>2. TasksProgress'
  <2> SUFFICES ASSUME NEW u \in Workers, task'[u] # NoTask
               PROVE  Progress(u, task[u])'
    BY DEF TasksProgress
  <2>1. task'[u] = task[u] /\ buffer'[u] = buffer[u] /\ Progress(u, task[u])
    BY DEF Inv, TasksProgress
  <2> QED BY <2>1 DEF StillSettled, tables, Progress, AnnouncedIsCancelled, Settled, Handled
<1> QED BY <1>1, <1>2

\* Everything a worker polled is settled when it commits.
LEMMA CommitPositionInv ==
  ASSUME Inv, NEW w \in Workers, CommitPosition(w)
  PROVE  Inv'
<1>1. /\ task[w] # NoTask /\ task[w].step = "commit"
      /\ task' = [task EXCEPT ![w] = NoTask]
      /\ UNCHANGED <<log, cancelled, tables, buffer, scored, owner, position, bounds>>
  BY DEF CommitPosition, At
<1>2. \A p \in Partitions :
        committed'[p] = IF owner[p] = w /\ owner[task[w].partition] = w
                        THEN position[p] ELSE committed[p]
  BY DEF CommitPosition
<1>3. task'[w] = NoTask /\ \A u \in Workers \ {w} : task'[u] = task[u]
  BY <1>1 DEF Inv, TypeOK
<1>4. TypeOK'
  <2>1. committed' \in [Partitions -> Nat \ {0}]
    BY DEF Inv, TypeOK, CommitPosition
  <2> QED BY <1>1, <2>1 DEF Inv, TypeOK, tables, bounds
<1>5. StillSettled /\ \A m : Settled(m)' <=> Settled(m)
  BY <1>1 DEF StillSettled, bounds, tables, Settled, Handled
<1>6. LogIsHonest' /\ TasksProgress' /\ CancelledStaysClosed'
  BY <1>1, <1>3, <1>5, TasksLeft
<1>7. ZombiesOwnNothing'
  BY <1>1, <1>3 DEF Inv, ZombiesOwnNothing
<1>8. OffsetsExist'
  BY <1>1, <1>2 DEF Inv, OffsetsExist
<1>9. ASSUME NEW p \in Partitions, owner[p] = w
      PROVE  \A o \in 1..(position[p] - 1) : Settled(log[p][o])
  BY <1>1, <1>9, AtWork DEF Inv, PolledIsSettled, HasTask, Progress
<1>10. CommittedIsSettled'
  BY <1>1, <1>2, <1>5, <1>9 DEF Inv, CommittedIsSettled
<1>11. PolledIsSettled'
  <2> SUFFICES ASSUME NEW u \in Workers, NEW p \in Partitions, owner[p] = u,
                      NEW o \in 1..(position[p] - 1)
               PROVE  Settled(log[p][o]) \/ HasTask(u, p, log[p][o])'
    BY <1>1, <1>5 DEF PolledIsSettled
  <2>1. CASE u = w
    BY <1>9, <2>1
  <2>2. CASE u # w
    BY <1>1, <1>3, <2>2 DEF Inv, PolledIsSettled, HasTask
  <2> QED BY <2>1, <2>2
<1> QED BY <1>4, <1>6, <1>7, <1>8, <1>10, <1>11 DEF Inv

\* After an error nothing is promised any more.
LEMMA HandlerRaisesInv ==
  ASSUME Inv, NEW w \in Workers, HandlerRaises(w)
  PROVE  Inv'
<1> DEFINE k   == task[w]
           new == [k EXCEPT !.step = "commit"]
<1>1. /\ k # NoTask /\ errors < MaxErrors /\ errors' = errors + 1
      /\ task' = [task EXCEPT ![w] = NoTask] \/ task' = [task EXCEPT ![w] = new]
      /\ UNCHANGED <<log, cancelled, tables, buffer, scored, group, timeouts, moves>>
  BY DEF HandlerRaises, Goto
<1>2. k \in Task /\ AnnouncedIsCancelled(k.message)
  BY <1>1, AtWork DEF Progress
<1>3. /\ new \in Task /\ new.message = k.message /\ new.partition = k.partition
      /\ new.step = "commit"
  BY <1>2 DEF Task, Steps
<1> HIDE DEF new
<1>4. /\ task'[w] = NoTask \/ (task'[w] = new /\ task'[w] # NoTask)
      /\ \A u \in Workers \ {w} : task'[u] = task[u]
  BY <1>1, <1>3, NoTaskAssumption DEF Inv, TypeOK
<1>5. errors' \in 0..MaxErrors /\ errors' # 0
  BY <1>1, FraudAssumption DEF Inv, TypeOK
<1>6. \A m : Settled(m)'
  BY <1>5 DEF Settled
<1>7. TypeOK'
  BY <1>1, <1>3, <1>5 DEF Inv, TypeOK, tables, group
<1>8. LogIsHonest' /\ CancelledStaysClosed' /\ OffsetsExist'
  BY <1>1 DEF Inv, LogIsHonest, AnnouncedIsCancelled, CancelledStaysClosed, OffsetsExist,
              tables, group
<1>9. CommittedIsSettled' /\ PolledIsSettled'
  BY <1>6 DEF CommittedIsSettled, PolledIsSettled
<1>10. ZombiesOwnNothing'
  BY <1>1, <1>3, <1>4 DEF Inv, ZombiesOwnNothing, group
<1>11. TasksProgress'
  <2> SUFFICES ASSUME NEW u \in Workers, task'[u] # NoTask
               PROVE  Progress(u, task[u])'
    BY DEF TasksProgress
  <2>1. CASE u = w
    <3>1. task'[u] = new
      BY <1>4, <2>1
    <3> QED BY <1>1, <1>2, <1>3, <1>6, <3>1 DEF Progress, AnnouncedIsCancelled
  <2>2. CASE u # w
    <3>1. task'[u] = task[u] /\ Progress(u, task[u])
      BY <1>4, <2>2 DEF Inv, TasksProgress
    <3> QED BY <1>1, <1>6, <3>1 DEF Progress, AnnouncedIsCancelled, tables
  <2> QED BY <2>1, <2>2
<1> QED BY <1>7, <1>8, <1>9, <1>10, <1>11 DEF Inv

\* Whoever loses partitions loses them all; a crash ends the request, too.
LEMMA LosePartitionsInv ==
  ASSUME Inv, NEW w \in Workers, LosePartitions(w)
  PROVE  Inv'
<1>1. /\ moves < MaxMoves /\ moves' = moves + 1
      /\ owner' = [p \in Partitions |-> IF owner[p] = w THEN NoWorker ELSE owner[p]]
      /\ UNCHANGED <<log, cancelled, tables, scored, committed, position, errors, timeouts>>
      /\ \/ UNCHANGED <<task, buffer>>
         \/ /\ task' = [task EXCEPT ![w] = NoTask]
            /\ buffer' = [buffer EXCEPT ![w] = {}]
  BY DEF LosePartitions
<1>2. /\ task' \in [Workers -> Task \cup {NoTask}] /\ buffer' \in [Workers -> SUBSET Leg]
      /\ \A u \in Workers : task'[u] = NoTask \/ (task'[u] = task[u] /\ buffer'[u] = buffer[u])
      /\ \A u \in Workers \ {w} : task'[u] = task[u]
  BY <1>1 DEF Inv, TypeOK
<1>3. /\ owner' \in [Partitions -> Workers \cup {NoWorker}]
      /\ \A p \in Partitions, u \in Workers : owner'[p] = u => u # w /\ owner[p] = u
  BY <1>1, FraudAssumption DEF Inv, TypeOK
<1>4. moves' \in 0..MaxMoves
  BY <1>1, FraudAssumption DEF Inv, TypeOK
<1>5. TypeOK'
  BY <1>1, <1>2, <1>3, <1>4 DEF Inv, TypeOK, tables
<1>6. \A m : Settled(m)' <=> Settled(m)
  BY <1>1 DEF tables, Settled, Handled
<1>7. LogIsHonest' /\ CancelledStaysClosed' /\ OffsetsExist' /\ CommittedIsSettled'
  BY <1>1, <1>6 DEF Inv, tables, LogIsHonest, AnnouncedIsCancelled, CancelledStaysClosed,
                    OffsetsExist, CommittedIsSettled
<1>8. TasksProgress'
  <2> SUFFICES ASSUME NEW u \in Workers, task'[u] # NoTask
               PROVE  Progress(u, task[u])'
    BY DEF TasksProgress
  <2>1. task'[u] = task[u] /\ buffer'[u] = buffer[u] /\ Progress(u, task[u])
    BY <1>2 DEF Inv, TasksProgress
  <2> QED BY <1>1, <1>6, <2>1 DEF tables, Progress, AnnouncedIsCancelled
<1>9. ZombiesOwnNothing'
  <2> SUFFICES ASSUME NEW u \in Workers, NEW p \in Partitions, task'[u] # NoTask, owner'[p] = u
               PROVE  owner'[task'[u].partition] = u
    BY DEF ZombiesOwnNothing
  <2>1. /\ u # w /\ task'[u] = task[u] /\ owner[task[u].partition] = u
        /\ task[u].partition \in Partitions
    BY <1>2, <1>3, AtWork DEF Inv, ZombiesOwnNothing
  <2> QED BY <1>1, <2>1
<1>10. PolledIsSettled'
  <2> SUFFICES ASSUME NEW u \in Workers, NEW p \in Partitions, owner'[p] = u,
                      NEW o \in 1..(position[p] - 1)
               PROVE  Settled(log[p][o])' \/ HasTask(u, p, log[p][o])'
    BY <1>1 DEF PolledIsSettled
  <2>1. u # w /\ task'[u] = task[u]
    BY <1>2, <1>3
  <2>2. Settled(log[p][o]) \/ HasTask(u, p, log[p][o])
    BY <1>3 DEF Inv, PolledIsSettled
  <2> QED BY <1>1, <1>6, <2>1, <2>2 DEF HasTask
<1> QED BY <1>5, <1>7, <1>8, <1>9, <1>10 DEF Inv

\* A new owner goes on where the group has committed.
LEMMA AssignInv ==
  ASSUME Inv, NEW w \in Workers, NEW p \in Partitions, Assign(w, p)
  PROVE  Inv'
<1>1. /\ owner[p] = NoWorker /\ task[w] = NoTask
      /\ owner' = [owner EXCEPT ![p] = w]
      /\ position' = [position EXCEPT ![p] = committed[p]]
      /\ UNCHANGED <<log, cancelled, tables, buffer, scored, committed, task, bounds>>
  BY DEF Assign, StartPosition
<1>2. TypeOK'
  BY <1>1 DEF Inv, TypeOK, tables, bounds
<1>3. \A m : Settled(m)' <=> Settled(m)
  BY <1>1 DEF tables, bounds, Settled, Handled
<1>4. LogIsHonest' /\ CancelledStaysClosed' /\ CommittedIsSettled'
  BY <1>1, <1>3 DEF Inv, tables, LogIsHonest, AnnouncedIsCancelled, CancelledStaysClosed,
                    CommittedIsSettled
<1>5. /\ \A q \in Partitions : position'[q] = IF q = p THEN committed[p] ELSE position[q]
      /\ \A q \in Partitions : owner'[q] = IF q = p THEN w ELSE owner[q]
  BY <1>1 DEF Inv, TypeOK
<1>6. OffsetsExist'
  BY <1>1, <1>5 DEF Inv, OffsetsExist
<1>7. TasksProgress'
  BY <1>1, <1>3 DEF Inv, TasksProgress, Progress, AnnouncedIsCancelled, tables
<1>8. ZombiesOwnNothing'
  <2> SUFFICES ASSUME NEW u \in Workers, NEW q \in Partitions, task[u] # NoTask, owner'[q] = u
               PROVE  owner'[task[u].partition] = u
    BY <1>1 DEF ZombiesOwnNothing
  <2>1. u # w /\ owner[q] = u /\ task[u].partition \in Partitions
    BY <1>1, <1>5, AtWork
  <2>2. owner[task[u].partition] = u
    BY <2>1 DEF Inv, ZombiesOwnNothing
  <2> QED BY <1>1, <1>5, <2>1, <2>2, FraudAssumption
<1>9. PolledIsSettled'
  <2> SUFFICES ASSUME NEW u \in Workers, NEW q \in Partitions, owner'[q] = u,
                      NEW o \in 1..(position'[q] - 1)
               PROVE  Settled(log[q][o])' \/ HasTask(u, q, log[q][o])'
    BY DEF PolledIsSettled
  <2>1. CASE q = p
    BY <1>1, <1>3, <1>5, <2>1 DEF Inv, CommittedIsSettled
  <2>2. CASE q # p
    <3>1. Settled(log[q][o]) \/ HasTask(u, q, log[q][o])
      BY <1>5, <2>2 DEF Inv, PolledIsSettled
    <3> QED BY <1>1, <1>3, <3>1 DEF HasTask
  <2> QED BY <2>1, <2>2
<1> QED BY <1>2, <1>4, <1>6, <1>7, <1>8, <1>9 DEF Inv

\* What a worker polls becomes what it handles.
LEMMA PollInv ==
  ASSUME Inv, NEW w \in Workers, NEW p \in Partitions, Poll(w, p)
  PROVE  Inv'
<1> DEFINE m   == log[p][position[p]]
           new == [message |-> m, step |-> FirstStep(m), level |-> "none", partition |-> p]
<1>1. /\ owner[p] = w /\ task[w] = NoTask /\ position[p] <= Len(log[p])
      /\ position' = [position EXCEPT ![p] = @ + 1]
      /\ task' = [task EXCEPT ![w] = new]
      /\ UNCHANGED <<log, cancelled, tables, buffer, scored, committed, owner, bounds>>
  BY DEF Poll
<1>2. /\ position[p] \in DOMAIN log[p] /\ m \in Message /\ AnnouncedIsCancelled(m)
      /\ position[p] \in Nat \ {0}
  BY <1>1, LogReads DEF Inv, LogIsHonest
<1>3. m.type \in {"tx", "cancelled", "garbage"}
  BY <1>2 DEF Message
<1> HIDE DEF m
<1>4. /\ FirstStep(m) \in {"score", "resolve", "commit"}
      /\ FirstStep(m) = "score" => m.type = "tx"
      /\ FirstStep(m) = "resolve" => m.type = "cancelled"
      /\ FirstStep(m) = "commit" => m.type = "garbage"
  BY <1>3 DEF FirstStep
<1>5. /\ new \in Task /\ new.message = m /\ new.partition = p /\ new.step = FirstStep(m)
  BY <1>2, <1>4 DEF Task, Steps
<1> HIDE DEF new
<1>6. /\ task'[w] = new /\ task'[w] # NoTask
      /\ \A u \in Workers \ {w} : task'[u] = task[u]
  BY <1>1, <1>5, NoTaskAssumption DEF Inv, TypeOK
<1>7. TypeOK'
  <2>1. position' \in [Partitions -> Nat \ {0}]
    BY <1>1, <1>2 DEF Inv, TypeOK
  <2> QED BY <1>1, <1>5, <2>1 DEF Inv, TypeOK, tables, bounds
<1>8. \A x : Settled(x)' <=> Settled(x)
  BY <1>1 DEF tables, bounds, Settled, Handled
<1>9. LogIsHonest' /\ CancelledStaysClosed' /\ CommittedIsSettled'
  BY <1>1, <1>8 DEF Inv, tables, LogIsHonest, AnnouncedIsCancelled, CancelledStaysClosed,
                    CommittedIsSettled
<1>10. \A q \in Partitions : position'[q] = IF q = p THEN position[p] + 1 ELSE position[q]
  BY <1>1 DEF Inv, TypeOK
<1>11. OffsetsExist'
  BY <1>1, <1>2, <1>10, LogReads DEF Inv, OffsetsExist
<1>12. TasksProgress'
  <2> SUFFICES ASSUME NEW u \in Workers, task'[u] # NoTask
               PROVE  Progress(u, task[u])'
    BY DEF TasksProgress
  <2>1. CASE u = w
    <3>1. new.step = "commit" => Settled(m)
      BY <1>4, <1>5 DEF Settled, Handled
    <3>2. task'[u] = new
      BY <1>6, <2>1
    <3> QED BY <1>1, <1>2, <1>4, <1>5, <1>8, <3>1, <3>2 DEF Progress, AnnouncedIsCancelled
  <2>2. CASE u # w
    <3>1. task'[u] = task[u] /\ Progress(u, task[u])
      BY <1>6, <2>2 DEF Inv, TasksProgress
    <3> QED BY <1>1, <1>8, <3>1 DEF Progress, AnnouncedIsCancelled, tables
  <2> QED BY <2>1, <2>2
<1>13. ZombiesOwnNothing'
  BY <1>1, <1>5, <1>6 DEF Inv, ZombiesOwnNothing
<1>14. PolledIsSettled'
  <2> SUFFICES ASSUME NEW u \in Workers, NEW q \in Partitions, owner[q] = u,
                      NEW o \in 1..(position'[q] - 1)
               PROVE  Settled(log[q][o])' \/ HasTask(u, q, log[q][o])'
    BY <1>1 DEF PolledIsSettled
  <2>1. CASE q = p /\ o = position[p]
    <3>1. u = w /\ log[q][o] = m
      BY <1>1, <2>1 DEF m
    <3> QED BY <1>1, <1>5, <1>6, <2>1, <3>1 DEF HasTask
  <2>2. CASE ~(q = p /\ o = position[p])
    <3>1. o \in 1..(position[q] - 1)
      BY <1>2, <1>10, <2>2, LogReads DEF Inv
    <3>2. Settled(log[q][o]) \/ HasTask(u, q, log[q][o])
      BY <3>1 DEF Inv, PolledIsSettled
    <3>3. HasTask(u, q, log[q][o]) => u # w
      BY <1>1 DEF HasTask
    <3> QED BY <1>1, <1>6, <1>8, <3>2, <3>3 DEF HasTask
  <2> QED BY <2>1, <2>2
<1> QED BY <1>7, <1>9, <1>11, <1>12, <1>13, <1>14 DEF Inv

\* A new message stands behind all offsets.
LEMMA LogGrows ==
  ASSUME Inv, NEW q \in Partitions, NEW m \in Message, AnnouncedIsCancelled(m),
         log' = [log EXCEPT ![q] = Append(@, m)],
         UNCHANGED <<cancelled, tables, buffer, scored, group, task, bounds>>
  PROVE  Inv'
<1>1. UNCHANGED <<committed, owner, position>>
  BY DEF group
<1>2. \A x : Settled(x)' <=> Settled(x)
  BY DEF tables, bounds, Settled, Handled
<1>3. ASSUME NEW p \in Partitions
      PROVE  /\ log'[p] \in Seq(Message)
             /\ Len(log[p]) \in Nat /\ Len(log'[p]) \in Nat /\ Len(log[p]) <= Len(log'[p])
             /\ DOMAIN log[p] = 1..Len(log[p]) /\ DOMAIN log'[p] = 1..Len(log'[p])
             /\ \A o \in DOMAIN log[p] : log'[p][o] = log[p][o]
             /\ \A o \in DOMAIN log'[p] \ DOMAIN log[p] : log'[p][o] = m
  <2>1. log[p] \in Seq(Message) /\ log'[p] = IF p = q THEN Append(log[p], m) ELSE log[p]
    BY DEF Inv, TypeOK
  <2>2. CASE p = q
    BY <2>1, <2>2
  <2>3. CASE p # q
    BY <2>1, <2>3, LenProperties
  <2> QED BY <2>2, <2>3
<1>4. TypeOK'
  <2>1. log' \in [Partitions -> Seq(Message)]
    BY <1>3 DEF Inv, TypeOK
  <2> QED BY <1>1, <2>1 DEF Inv, TypeOK, tables, bounds
<1>5. LogIsHonest'
  BY <1>3 DEF Inv, LogIsHonest, AnnouncedIsCancelled
<1>6. TasksProgress'
  BY <1>2 DEF Inv, TasksProgress, Progress, AnnouncedIsCancelled, tables
<1>7. ZombiesOwnNothing' /\ CancelledStaysClosed'
  BY <1>1 DEF Inv, ZombiesOwnNothing, CancelledStaysClosed, tables
<1>8. OffsetsExist'
  BY <1>1, <1>3, LogReads DEF Inv, OffsetsExist
<1>9. ASSUME NEW p \in Partitions
      PROVE  /\ \A o \in 1..(committed[p] - 1) : log'[p][o] = log[p][o]
             /\ \A o \in 1..(position[p] - 1) : log'[p][o] = log[p][o]
  <2>1. /\ 1..(committed[p] - 1) \subseteq DOMAIN log[p]
        /\ 1..(position[p] - 1) \subseteq DOMAIN log[p]
    BY LogReads DEF Inv, OffsetsExist
  <2> QED BY <1>3, <2>1
<1>10. CommittedIsSettled'
  BY <1>1, <1>2, <1>9 DEF Inv, CommittedIsSettled
<1>11. PolledIsSettled'
  <2> SUFFICES ASSUME NEW w \in Workers, NEW p \in Partitions, owner[p] = w,
                      NEW o \in 1..(position[p] - 1)
               PROVE  Settled(log[p][o])' \/ HasTask(w, p, log[p][o])'
    BY <1>1 DEF PolledIsSettled
  <2>1. log'[p][o] = log[p][o]
    BY <1>9
  <2>2. Settled(log[p][o]) \/ HasTask(w, p, log[p][o])
    BY DEF Inv, PolledIsSettled
  <2> QED BY <1>2, <2>1, <2>2 DEF HasTask
<1> QED BY <1>4, <1>5, <1>6, <1>7, <1>8, <1>10, <1>11 DEF Inv

LEMMA PublishInv ==
  ASSUME Inv,
         \/ \E l \in Leg : PublishEvent(l)
         \/ PublishGarbage
         \/ \E t \in Transactions : PublishCancellation(t)
  PROVE  Inv'
<1>1. ASSUME NEW l \in Leg, PublishEvent(l) PROVE Inv'
  <2> DEFINE m == [type |-> "tx", leg |-> l]
  <2>1. m \in Message /\ AnnouncedIsCancelled(m)
    BY DEF Message, AnnouncedIsCancelled
  <2>2. /\ log' = [log EXCEPT ![EventPartition] = Append(@, m)]
        /\ UNCHANGED <<cancelled, tables, buffer, scored, group, task, bounds>>
    BY <1>1 DEF PublishEvent
  <2> HIDE DEF m
  <2> QED BY <2>1, <2>2, LogGrows DEF Partitions
<1>2. CASE PublishGarbage
  <2> DEFINE m == [type |-> "garbage"]
  <2>1. m \in Message /\ AnnouncedIsCancelled(m)
    BY DEF Message, AnnouncedIsCancelled
  <2>2. /\ log' = [log EXCEPT ![EventPartition] = Append(@, m)]
        /\ UNCHANGED <<cancelled, tables, buffer, scored, group, task, bounds>>
    BY <1>2 DEF PublishGarbage
  <2> HIDE DEF m
  <2> QED BY <2>1, <2>2, LogGrows DEF Partitions
<1>3. ASSUME NEW t \in Transactions, PublishCancellation(t) PROVE Inv'
  <2> DEFINE m == [type |-> "cancelled", tx |-> t]
  <2>1. m \in Message /\ AnnouncedIsCancelled(m)
    BY <1>3 DEF Message, AnnouncedIsCancelled, PublishCancellation
  <2>2. /\ log' = [log EXCEPT ![CancelPartition] = Append(@, m)]
        /\ UNCHANGED <<cancelled, tables, buffer, scored, group, task, bounds>>
    BY <1>3 DEF PublishCancellation
  <2> HIDE DEF m
  <2> QED BY <2>1, <2>2, LogGrows DEF Partitions
<1> QED BY <1>1, <1>2, <1>3

-----------------------------------------------------------------------------
(* Theorems.                                                               *)

LEMMA InitInv == Init => Inv
<1> SUFFICES ASSUME Init PROVE Inv
  OBVIOUS
<1>1. TypeOK
  BY FraudAssumption DEF Init, TypeOK
<1>2. \A p \in Partitions : Len(log[p]) = 0 /\ DOMAIN log[p] = {}
  BY DEF Init
<1>3. LogIsHonest /\ OffsetsExist
  BY <1>2 DEF Init, LogIsHonest, OffsetsExist
<1>4. TasksProgress /\ ZombiesOwnNothing /\ CancelledStaysClosed
  BY DEF Init, TasksProgress, ZombiesOwnNothing, CancelledStaysClosed
<1>5. CommittedIsSettled /\ PolledIsSettled
  BY DEF Init, CommittedIsSettled, PolledIsSettled
<1> QED BY <1>1, <1>3, <1>4, <1>5 DEF Inv

LEMMA StutterInv == Inv /\ UNCHANGED vars => Inv'
<1> SUFFICES ASSUME Inv, UNCHANGED vars PROVE Inv'
  OBVIOUS
<1>1. TypeOK' /\ Grows /\ CancelledStaysClosed'
  BY DEF Inv, TypeOK, Grows, CancelledStaysClosed, vars, tables, group, bounds
<1> QED BY <1>1, OthersStep DEF vars

LEMMA StepInv == Inv /\ [Next]_vars => Inv'
<1> SUFFICES ASSUME Inv, Next PROVE Inv'
  BY StutterInv
<1>1. CASE (\E l \in Leg : PublishEvent(l)) \/ PublishGarbage
  BY <1>1, PublishInv
<1>2. ASSUME NEW t \in Transactions, Cancel(t) \/ PublishCancellation(t) \/ Dismiss(t)
      PROVE  Inv'
  BY <1>2, CancelInv, PublishInv, DismissInv
<1>3. ASSUME NEW w \in Workers, NEW p \in Partitions, Assign(w, p) \/ Poll(w, p)
      PROVE  Inv'
  BY <1>3, AssignInv, PollInv
<1>4. ASSUME NEW w \in Workers, Handle(w) PROVE Inv'
  BY <1>4, InsertScoreInv, InsertAlertInv, ProduceInv, FlushInv, ResolveAlertsInv,
     CommitPositionInv DEF Handle
<1>5. ASSUME NEW w \in Workers, DeliverLate(w) \/ HandlerRaises(w) \/ LosePartitions(w)
      PROVE  Inv'
  BY <1>5, DeliverLateInv, HandlerRaisesInv, LosePartitionsInv
<1> QED BY <1>1, <1>2, <1>3, <1>4, <1>5 DEF Next

THEOREM Invariant == Spec => []Inv
  BY InitInv, StepInv, PTL DEF Spec

\* In whatever order legs, duplicates and cancellations are consumed, no alert of a
\* transaction whose cancellation was handled is open.
THEOREM CancelledAreClosed == Spec => []CancelledStaysClosed
<1>1. Inv => CancelledStaysClosed
  BY DEF Inv
<1> QED BY <1>1, Invariant, PTL

\* What is not settled is not committed: crashes, zombies and rebalances skip nothing.
THEOREM NothingIsSkipped == Spec => []OnlyErrorsSkip
<1>1. Inv => OnlyErrorsSkip
  <2> SUFFICES ASSUME Inv, errors = 0
               PROVE  CommittedIsHandled /\ (timeouts = 0 => PassedLegs \subseteq scored)
    BY DEF OnlyErrorsSkip
  <2>1. ASSUME NEW m, Passed(m) PROVE Settled(m)
    BY <2>1 DEF Inv, Passed, CommittedIsSettled
  <2>2. ASSUME NEW l \in PassedLegs
        PROVE  scores[l] # "none" /\ (timeouts = 0 => l \in scored)
    <3> DEFINE m == [type |-> "tx", leg |-> l]
    <3>1. Passed(m)
      BY <2>2 DEF PassedLegs
    <3>2. Settled(m)
      BY <2>1, <3>1
    <3> QED BY <3>2 DEF Settled, Handled
  <2>3. ASSUME NEW t \in Transactions, Passed([type |-> "cancelled", tx |-> t])
        PROVE  t \in resolved
    <3>1. Settled([type |-> "cancelled", tx |-> t])
      BY <2>1, <2>3
    <3> QED BY <3>1 DEF Settled, Handled
  <2> QED BY <2>2, <2>3 DEF CommittedIsHandled
<1> QED BY <1>1, Invariant, PTL

\* A verdict on an alert, the employee's or the registry's, is final.
THEOREM VerdictsAreFinal == Spec => ClosedAlertsStay
<1>1. Inv /\ [Next]_vars =>
        [\A l \in Leg : alerts[l] \in {"CANCELLED", "DISMISSED"} => alerts'[l] = alerts[l]]_vars
  <2> SUFFICES ASSUME Inv, Next, NEW l \in Leg, alerts[l] \in {"CANCELLED", "DISMISSED"}
               PROVE  alerts'[l] = alerts[l]
    OBVIOUS
  <2>1. ASSUME NEW t, NEW status \in {"CANCELLED", "DISMISSED"}, alerts' = Close(t, status)
        PROVE  alerts'[l] = alerts[l]
    BY <2>1, CloseCloses DEF Inv
  <2>2. ASSUME NEW w \in Workers, InsertAlert(w) PROVE alerts'[l] = alerts[l]
    <3>1. alerts' = [alerts EXCEPT ![task[w].message.leg] =
                       IF @ = "none" THEN InitialStatus(task[w].message.leg[1]) ELSE @]
      BY <2>2 DEF InsertAlert
    <3> QED BY <3>1 DEF Inv, TypeOK
  <2>3. ASSUME NEW w \in Workers, ResolveAlerts(w) PROVE alerts'[l] = alerts[l]
    BY <2>1, <2>3 DEF ResolveAlerts
  <2>4. ASSUME NEW t \in Transactions, Dismiss(t) PROVE alerts'[l] = alerts[l]
    BY <2>1, <2>4 DEF Dismiss
  <2>5. CASE UNCHANGED alerts
    BY <2>5
  <2>6. \/ UNCHANGED alerts
        \/ \E w \in Workers : InsertAlert(w) \/ ResolveAlerts(w)
        \/ \E t \in Transactions : Dismiss(t)
    BY DEF Next, Handle, PublishEvent, PublishGarbage, Cancel, PublishCancellation, Assign,
           Poll, InsertScore, Produce, Flush, CommitPosition, DeliverLate, HandlerRaises,
           LosePartitions, tables
  <2> QED BY <2>2, <2>3, <2>4, <2>5, <2>6
<1> QED BY <1>1, Invariant, PTL DEF Spec, ClosedAlertsStay
=============================================================================
