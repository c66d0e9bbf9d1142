----------------------------- MODULE StaffProofs -----------------------------
(***************************************************************************)
(* What holds of the directory, and of the counter together with it, for   *)
(* every set of users, emails, roles, requests and calls, and for every    *)
(* bound.  The theorems on the directory follow from DirectoryInv, which   *)
(* says what a request in flight may assume: a registration owns its id    *)
(* until its row is written, its account is opened only for a customer,    *)
(* and the answer to a save that worked is a row the user has had.  The    *)
(* counter only reads the directory (lemma CounterReads), so all that      *)
(* holds here too; that a deposit goes where it should follows from        *)
(* CounterInv, which says what a call may rely on: a name it was clicked   *)
(* with stays its target, and a target it looked up has had the email that *)
(* was typed.                                                              *)
(*                                                                         *)
(* The holds page, which shares no state with these, follows: a decision   *)
(* the service carried out for a request is that request's, and stays.     *)
(***************************************************************************)
EXTENDS Counter, HoldDesk, SequenceTheorems, TLAPS

\* A save that worked is answered with a row that was written.
AnsweredRowWasHeld ==
  \A r \in Requests :
    /\ Is(r, "answer")
    /\ task[r].by = "edit" /\ task[r].ok
    => WholeRow(task[r]) \in held[task[r].user]

\* A user's row, and what the list shows of it, are rows that user has had.
RowsWereHeld ==
  /\ \A u \in Users : users[u] # Nothing => users[u] \in held[u]
  /\ ListIsFromTheDirectory

-----------------------------------------------------------------------------

LEMMA NothingIsNoRow == Nothing \notin Row
BY DirectoryAssumption DEF Row

\* Nothing is told apart from a task.
LEMMA AnsweredType ==
  ASSUME TypeOK, NEW r \in Requests, task[r] # Nothing, NEW ok \in BOOLEAN
  PROVE  Answered(r, ok) \in [Requests -> Task \cup {Nothing}]
<1>1. task[r] \in Task
  BY DEF TypeOK
<1>2. [task[r] EXCEPT !.step = "answer", !.ok = ok] \in Task
  BY <1>1 DEF Task
<1>3. Answered(r, ok) = [task EXCEPT ![r] = [task[r] EXCEPT !.step = "answer", !.ok = ok]]
  BY DEF Answered, TypeOK
<1> QED
  BY <1>2, <1>3 DEF TypeOK

LEMMA SendType ==
  ASSUME TypeOK, NEW r \in Requests, NEW request \in Task, Send(r, request)
  PROVE  task' \in [Requests -> Task \cup {Nothing}] /\ sent' \in 0..MaxRequests
BY DirectoryAssumption DEF Send, TypeOK

LEMMA WriteType ==
  ASSUME TypeOK, NEW u \in Users, NEW row \in Row, Write(u, row)
  PROVE  users' \in [Users -> Row \cup {Nothing}] /\ held' \in [Users -> SUBSET Row]
BY DEF Write, TypeOK

\* Every variable keeps its type: in particular a request never takes a step
\* of a page it does not come from.
THEOREM TypeCorrect == Spec => []TypeOK
<1>1. Init => TypeOK
  <2>1. ASSUME NEW u \in Users, users \in [Users -> Row \cup {Nothing}], users[u] # Nothing
        PROVE  users[u] \in Row /\ users[u].role \in Roles
    BY <2>1 DEF Row
  <2> QED
    BY <2>1, DirectoryAssumption DEF Init, TypeOK
<1>2. TypeOK /\ [Next]_vars => TypeOK'
  <2> SUFFICES ASSUME TypeOK, [Next]_vars
               PROVE  TypeOK'
    OBVIOUS
  <2> DEFINE TaskType == task' \in [Requests -> Task \cup {Nothing}]
  <2>1. ASSUME NEW r \in Requests, Insert(r)
        PROVE  TypeOK'
    <3>1. task[r] \in Task /\ task[r] # Nothing
      BY <2>1 DEF TypeOK, Insert, Is
    <3>2. [email |-> task[r].email, role |-> task[r].role] \in Row
      BY <3>1 DEF Task, Row
    <3>3. [task[r] EXCEPT !.step = "open"] \in Task
      BY <3>1 DEF Task
    <3>4. [task EXCEPT ![r].step = "open"] \in [Requests -> Task \cup {Nothing}]
      BY <3>3 DEF TypeOK
    <3>5. TaskType
      BY <2>1, <3>1, <3>4, AnsweredType DEF Insert
    <3>6. users' \in [Users -> Row \cup {Nothing}] /\ held' \in [Users -> SUBSET Row]
      BY <2>1, <3>1, <3>2, WriteType DEF Insert, Task, TypeOK
    <3>7. granted' \in [Users -> Roles]
      BY <2>1, <3>1 DEF Insert, Task, TypeOK
    <3> QED
      BY <2>1, <3>5, <3>6, <3>7 DEF Insert, TypeOK
  <2>2. ASSUME NEW r \in Requests, OpenAccount(r)
        PROVE  TypeOK'
    <3>1. task[r] \in Task /\ task[r] # Nothing
      BY <2>2 DEF TypeOK, OpenAccount, Is
    <3>2. TaskType
      BY <2>2, <3>1, AnsweredType DEF OpenAccount, TypeOK
    <3> QED
      BY <2>2, <3>1, <3>2 DEF OpenAccount, Task, TypeOK
  <2>3. ASSUME NEW r \in Requests, FailToOpen(r)
        PROVE  TypeOK'
    <3>1. task[r] \in Task /\ task[r] # Nothing
      BY <2>3 DEF TypeOK, FailToOpen, Is
    <3>2. [task[r] EXCEPT !.heard = FALSE] \in Task
      BY <3>1 DEF Task
    <3>3. TaskType
      BY <2>3, <3>1, <3>2, AnsweredType DEF FailToOpen, TypeOK
    <3> QED
      BY <2>3, <3>3 DEF FailToOpen, TypeOK
  <2>4. ASSUME NEW r \in Requests, FindUser(r) \/ CheckEmail(r)
        PROVE  TypeOK'
    <3>1. task[r] \in Task /\ task[r] # Nothing
      BY <2>4 DEF TypeOK, FindUser, CheckEmail, Is
    <3>2. \A step \in {"write", "check"} : [task[r] EXCEPT !.step = step] \in Task
      BY <3>1 DEF Task
    <3>3. \A step \in {"write", "check"} :
            [task EXCEPT ![r].step = step] \in [Requests -> Task \cup {Nothing}]
      BY <3>2 DEF TypeOK
    <3>4. TaskType
      BY <2>4, <3>1, <3>3, AnsweredType DEF FindUser, CheckEmail
    <3> QED
      BY <2>4, <3>4 DEF FindUser, CheckEmail, TypeOK
  <2>5. ASSUME NEW r \in Requests, Update(r)
        PROVE  TypeOK'
    <3>1. task[r] \in Task /\ task[r] # Nothing
      BY <2>5 DEF TypeOK, Update, Is
    <3>2. users[task[r].user] # Nothing => Updated(task[r]) \in Row
      BY <3>1 DEF Task, Row, Updated, TypeOK
    <3>3. TaskType
      BY <2>5, <3>1, AnsweredType DEF Update, TypeOK
    <3>4. /\ users' \in [Users -> Row \cup {Nothing}] /\ held' \in [Users -> SUBSET Row]
          /\ granted' \in [Users -> Roles]
      <4>1. CASE users[task[r].user] = Nothing \/ Taken(task[r].user, task[r].email)
        BY <2>5, <4>1 DEF Update, TypeOK
      <4>2. CASE ~(users[task[r].user] = Nothing \/ Taken(task[r].user, task[r].email))
        <5>1. Write(task[r].user, Updated(task[r]))
          BY <2>5, <4>2 DEF Update
        <5>2. granted' \in [Users -> Roles]
          BY <2>5, <3>1, <4>2 DEF Update, Task, TypeOK
        <5> QED
          BY <3>1, <3>2, <4>2, <5>1, <5>2, WriteType DEF Task
      <4> QED
        BY <4>1, <4>2
    <3> QED
      BY <2>5, <3>3, <3>4 DEF Update, TypeOK
  <2>6. ASSUME NEW r \in Requests, Delete(r)
        PROVE  TypeOK'
    <3>1. task[r] \in Task /\ task[r] # Nothing
      BY <2>6 DEF TypeOK, Delete, Is
    <3>2. TaskType
      BY <2>6, <3>1, AnsweredType DEF Delete
    <3> QED
      BY <2>6, <3>2 DEF Delete, TypeOK
  <2>7. ASSUME NEW r \in Requests, Hear(r)
        PROVE  TypeOK'
    <3>1. task[r] \in Task
      BY <2>7 DEF TypeOK, Hear, Is
    <3>2. WholeRow(task[r]) \in Row
      BY <3>1 DEF Task, Row, WholeRow
    <3>3. Patched(task[r]) \in [Users -> Row \cup {Nothing}]
      BY <3>2 DEF Patched, TypeOK
    <3>4. list' \in [Users -> Row \cup {Nothing}] /\ form' \in Users \cup {Nothing}
      BY <2>7, <3>3 DEF Hear, TypeOK
    <3> QED
      BY <2>7, <3>4 DEF Hear, TypeOK
  <2>8. ASSUME NEW r \in Requests, GiveUp(r)
        PROVE  TypeOK'
    <3>1. task[r] \in Task
      BY <2>8 DEF TypeOK, GiveUp
    <3>2. [task[r] EXCEPT !.heard = FALSE] \in Task
      BY <3>1 DEF Task
    <3>3. TaskType
      BY <2>8, <3>2 DEF GiveUp, TypeOK
    <3> QED
      BY <2>8, <3>3 DEF GiveUp, TypeOK
  <2>9. ASSUME NEW r \in Requests, NEW u \in Users, NEW email \in Emails, NEW role \in Roles,
               Register(r, u, email, role)
        PROVE  TypeOK'
    <3>1. Request("register", "write", u, email, role) \in Task
      BY DEF Request, Task
    <3> QED
      BY <2>9, <3>1, SendType DEF Register, TypeOK
  <2>10. ASSUME NEW r \in Requests, NEW email \in Emails, NEW role \in Roles,
                Save(r, email, role)
         PROVE  TypeOK'
    <3>1. Request("edit", "find", form, email, role) \in Task
      BY <2>10 DEF Request, Task, Save, TypeOK
    <3> QED
      BY <2>10, <3>1, SendType DEF Save, TypeOK
  <2>11. ASSUME NEW r \in Requests, NEW u \in Users, NEW email \in Emails, Profile(r, u, email)
         PROVE  TypeOK'
    <3>1. Request("profile", "find", u, email, users[u].role) \in Task
      BY <2>11 DEF Request, Task, Profile, TypeOK, Row
    <3> QED
      BY <2>11, <3>1, SendType DEF Profile, TypeOK
  <2>12. ASSUME NEW r \in Requests, NEW u \in Users, RemoveUser(r, u)
         PROVE  TypeOK'
    <3>1. Request("delete", "find", u, list[u].email, list[u].role) \in Task
      BY <2>12 DEF Request, Task, RemoveUser, Listed, TypeOK, Row
    <3> QED
      BY <2>12, <3>1, SendType DEF RemoveUser, TypeOK
  <2>13. ASSUME Load
         PROVE  TypeOK'
    <3>1. \A r \in Requests : task[r] # Nothing => [task[r] EXCEPT !.heard = FALSE] \in Task
      BY DEF TypeOK, Task
    <3>2. TaskType
      BY <2>13, <3>1 DEF Load, TypeOK
    <3> QED
      BY <2>13, <3>2 DEF Load, TypeOK
  <2>14. ASSUME Close \/ \E u \in Users : Open(u)
         PROVE  TypeOK'
    BY <2>14 DEF Close, Open, TypeOK
  <2>15. CASE UNCHANGED vars
    BY <2>15 DEF vars, TypeOK
  <2> QED
    BY <2>1, <2>2, <2>3, <2>4, <2>5, <2>6, <2>7, <2>8, <2>9, <2>10, <2>11, <2>12, <2>13,
       <2>14, <2>15 DEF Next, Serve
<1> QED
  BY <1>1, <1>2, PTL DEF Spec

-----------------------------------------------------------------------------

\* Whatever is written is written as a new row of one user, whose email was free.
Writes(u, row) ==
  /\ users' = [users EXCEPT ![u] = row]
  /\ held' = [held EXCEPT ![u] = @ \cup {row}]
  /\ ~Taken(u, row.email)

Keeps == users' = users /\ held' = held

Removes(u) == users' = [users EXCEPT ![u] = Nothing] /\ held' = held

\* What a step does to the rows: it writes one, removes one or none; and a row is
\* written with the role that was granted with it, or with the role it had.
LEMMA StepWrites ==
  ASSUME TypeOK, [Next]_vars
  PROVE  \/ \E u \in Users, row \in Row :
              /\ Writes(u, row)
              /\ \/ granted' = [granted EXCEPT ![u] = row.role]
                 \/ granted' = granted /\ users[u] # Nothing /\ row.role = users[u].role
         \/ (Keeps \/ \E u \in Users : Removes(u)) /\ granted' = granted
<1>1. ASSUME NEW r \in Requests, Insert(r)
      PROVE  \/ \E u \in Users, row \in Row :
                  Writes(u, row) /\ granted' = [granted EXCEPT ![u] = row.role]
             \/ Keeps /\ granted' = granted
  <2> DEFINE t == task[r]
             row == [email |-> t.email, role |-> t.role]
  <2>1. t.user \in Users /\ row \in Row
    BY <1>1 DEF Insert, Is, TypeOK, Task, Row
  <2>2. CASE Taken(t.user, t.email)
    BY <1>1, <2>2 DEF Insert, Keeps
  <2>3. CASE ~Taken(t.user, t.email)
    <3>1. Writes(t.user, row) /\ granted' = [granted EXCEPT ![t.user] = row.role]
      BY <1>1, <2>3 DEF Insert, Write, Writes
    <3> QED
      BY <2>1, <3>1
  <2> QED
    BY <2>2, <2>3
<1>2. ASSUME NEW r \in Requests, Update(r)
      PROVE  \/ \E u \in Users, row \in Row :
                  /\ Writes(u, row)
                  /\ \/ granted' = [granted EXCEPT ![u] = row.role]
                     \/ granted' = granted /\ users[u] # Nothing /\ row.role = users[u].role
             \/ Keeps /\ granted' = granted
  <2> DEFINE t == task[r]
  <2>1. t \in Task
    BY <1>2 DEF Update, Is, TypeOK
  <2>2. CASE users[t.user] = Nothing \/ Taken(t.user, t.email)
    BY <1>2, <2>2 DEF Update, Keeps
  <2>3. CASE users[t.user] # Nothing /\ ~Taken(t.user, t.email)
    <3>1. Updated(t) \in Row /\ Updated(t).email = t.email
      BY <2>1, <2>3 DEF Updated, Task, Row, TypeOK
    <3>2. Writes(t.user, Updated(t))
      BY <1>2, <2>3, <3>1 DEF Update, Write, Writes
    <3>3. \/ granted' = [granted EXCEPT ![t.user] = Updated(t).role]
          \/ granted' = granted /\ Updated(t).role = users[t.user].role
      BY <1>2, <2>3 DEF Update, Updated
    <3> QED
      BY <2>1, <2>3, <3>1, <3>2, <3>3 DEF Task
  <2> QED
    BY <2>2, <2>3
<1>3. ASSUME NEW r \in Requests, Delete(r)
      PROVE  (\E u \in Users : Removes(u)) /\ granted' = granted
  BY <1>3 DEF Delete, Removes, Is, TypeOK, Task
<1>4. ASSUME \/ \E r \in Requests : \/ OpenAccount(r) \/ FailToOpen(r) \/ FindUser(r)
                                    \/ CheckEmail(r) \/ Hear(r) \/ GiveUp(r)
             \/ \E r \in Requests, u \in Users, email \in Emails, role \in Roles :
                  Register(r, u, email, role)
             \/ \E r \in Requests, email \in Emails, role \in Roles : Save(r, email, role)
             \/ \E r \in Requests, u \in Users, email \in Emails : Profile(r, u, email)
             \/ \E r \in Requests, u \in Users : RemoveUser(r, u)
             \/ \E u \in Users : Open(u)
             \/ Close \/ Load \/ UNCHANGED vars
      PROVE  Keeps /\ granted' = granted
  BY <1>4 DEF OpenAccount, FailToOpen, FindUser, CheckEmail, Hear, GiveUp, Register, Save,
              Profile, RemoveUser, Open, Close, Load, vars, Keeps
<1> QED
  BY <1>1, <1>2, <1>3, <1>4 DEF Next, Serve

\* No two users share an email, however the checks and the writes of concurrent
\* requests interleave.
THEOREM UniqueEmails == Spec => []EmailsUnique
<1>1. Init => EmailsUnique
  BY DEF Init, EmailsUnique
<1>2. TypeOK /\ EmailsUnique /\ [Next]_vars => EmailsUnique'
  <2> SUFFICES ASSUME TypeOK, EmailsUnique, [Next]_vars
               PROVE  EmailsUnique'
    OBVIOUS
  <2>1. ASSUME NEW u \in Users, NEW row \in Row, Writes(u, row)
        PROVE  EmailsUnique'
    BY <2>1, NothingIsNoRow DEF EmailsUnique, Writes, Taken, TypeOK
  <2>2. CASE Keeps \/ \E u \in Users : Removes(u)
    BY <2>2 DEF EmailsUnique, Keeps, Removes, TypeOK
  <2> QED
    BY <2>1, <2>2, StepWrites
<1> QED
  BY <1>1, <1>2, TypeCorrect, PTL DEF Spec

\* A user's role is the one an administrator gave last, whatever profile saves
\* that read the row earlier do.
THEOREM RolesAreGranted == Spec => []RoleIsGranted
<1>1. Init => RoleIsGranted
  BY DEF Init, RoleIsGranted
<1>2. TypeOK /\ RoleIsGranted /\ [Next]_vars => RoleIsGranted'
  <2> SUFFICES ASSUME TypeOK, RoleIsGranted, [Next]_vars
               PROVE  RoleIsGranted'
    OBVIOUS
  <2>1. ASSUME NEW u \in Users, NEW row \in Row, Writes(u, row),
               \/ granted' = [granted EXCEPT ![u] = row.role]
               \/ granted' = granted /\ users[u] # Nothing /\ row.role = users[u].role
        PROVE  RoleIsGranted'
    BY <2>1 DEF RoleIsGranted, Writes, TypeOK
  <2>2. CASE (Keeps \/ \E u \in Users : Removes(u)) /\ granted' = granted
    BY <2>2 DEF RoleIsGranted, Keeps, Removes, TypeOK
  <2> QED
    BY <2>1, <2>2, StepWrites
<1> QED
  BY <1>1, <1>2, TypeCorrect, PTL DEF Spec

\* An administrator who was told that a customer was created finds an account
\* there, also when the call that opens it timed out or failed.
THEOREM WelcomesAreKept == Spec => []WelcomedHaveAccounts
<1>1. Init => WelcomedHaveAccounts
  BY DEF Init, WelcomedHaveAccounts
<1>2. WelcomedHaveAccounts /\ [Next]_vars => WelcomedHaveAccounts'
  <2> SUFFICES ASSUME WelcomedHaveAccounts, [Next]_vars
               PROVE  WelcomedHaveAccounts'
    OBVIOUS
  <2>1. ASSUME NEW r \in Requests, OpenAccount(r)
        PROVE  WelcomedHaveAccounts'
    BY <2>1 DEF OpenAccount, WelcomedHaveAccounts
  <2>2. ASSUME NEW r \in Requests,
               \/ Insert(r) \/ FailToOpen(r) \/ FindUser(r) \/ CheckEmail(r)
               \/ Update(r) \/ Delete(r) \/ Hear(r) \/ GiveUp(r)
        PROVE  WelcomedHaveAccounts'
    <3>1. welcomed' = welcomed /\ accounts' = accounts
      BY <2>2 DEF Insert, FailToOpen, FindUser, CheckEmail, Update, Delete, Hear, GiveUp
    <3> QED
      BY <3>1 DEF WelcomedHaveAccounts
  <2>3. ASSUME \/ \E r \in Requests, u \in Users, email \in Emails, role \in Roles :
                    Register(r, u, email, role)
               \/ \E r \in Requests, email \in Emails, role \in Roles : Save(r, email, role)
               \/ \E r \in Requests, u \in Users, email \in Emails : Profile(r, u, email)
               \/ \E r \in Requests, u \in Users : RemoveUser(r, u)
               \/ \E u \in Users : Open(u)
               \/ Close \/ Load \/ UNCHANGED vars
        PROVE  WelcomedHaveAccounts'
    BY <2>3 DEF Register, Save, Profile, RemoveUser, Open, Close, Load, vars, WelcomedHaveAccounts
  <2> QED
    BY <2>1, <2>2, <2>3 DEF Next, Serve
<1> QED
  BY <1>1, <1>2, PTL DEF Spec

-----------------------------------------------------------------------------

\* Accounts are opened for registrations only.
OpenIsRegistration == \A r \in Requests : Is(r, "open") => task[r].by = "register"

ListInv == RowsWereHeld /\ AnsweredRowWasHeld /\ OpenIsRegistration

\* The rows a user has had are never forgotten, and the present one is among them.
LEMMA StepHeld ==
  ASSUME TypeOK, [Next]_vars, \A u \in Users : users[u] # Nothing => users[u] \in held[u]
  PROVE  \A u \in Users : /\ held[u] \subseteq held'[u]
                          /\ users'[u] # Nothing => users'[u] \in held'[u]
<1>1. ASSUME NEW v \in Users, NEW row \in Row, Writes(v, row)
      PROVE  \A u \in Users : /\ held[u] \subseteq held'[u]
                              /\ users'[u] # Nothing => users'[u] \in held'[u]
  BY <1>1 DEF Writes, TypeOK
<1>2. CASE Keeps \/ \E v \in Users : Removes(v)
  BY <1>2 DEF Keeps, Removes, TypeOK
<1> QED
  BY <1>1, <1>2, StepWrites

\* What becomes of a request: it is over, or as it was, or before its write; or its
\* account is opened; or it has an answer, a good one to a save only if the row it
\* saved was written.
Same(r) == task[r] # Nothing /\ \/ task'[r] = task[r]
                                \/ task'[r] = [task[r] EXCEPT !.heard = FALSE]
Begins(r) == task'[r].step \in {"find", "write", "check"}
Opens(r) == task'[r].step = "open" /\ task'[r].by = "register"
GetsAnswer(r) ==
  /\ task'[r].step = "answer"
  /\ task'[r].by = "edit" /\ task'[r].ok => WholeRow(task'[r]) \in held'[task'[r].user]
Becomes(r) == task'[r] = Nothing \/ Same(r) \/ Begins(r) \/ Opens(r) \/ GetsAnswer(r)

LEMMA AnswerOf ==
  ASSUME TypeOK, NEW r \in Requests, task[r] # Nothing, NEW ok \in BOOLEAN,
         task' = Answered(r, ok), ok => task[r].by # "edit"
  PROVE  GetsAnswer(r)
<1>1. task[r] \in Task
  BY DEF TypeOK
<1>2. task'[r] = [task[r] EXCEPT !.step = "answer", !.ok = ok]
  BY DEF Answered, TypeOK
<1>3. task'[r].step = "answer" /\ task'[r].by = task[r].by /\ task'[r].ok = ok
  BY <1>1, <1>2 DEF Task
<1> QED
  BY <1>3 DEF GetsAnswer

LEMMA StepBecomes ==
  ASSUME TypeOK, OpenIsRegistration, [Next]_vars
  PROVE  \A r \in Requests : Becomes(r)
<1> SUFFICES ASSUME NEW q \in Requests
             PROVE  Becomes(q)
  OBVIOUS
<1> DEFINE Quiet == task'[q] = task[q]
<1>1. Quiet => Becomes(q)
  BY DEF Becomes, Same
<1>2. ASSUME NEW r \in Requests, NEW request, Send(r, request),
             request.step \in {"find", "write"}
      PROVE  Becomes(q)
  BY <1>1, <1>2 DEF Send, Becomes, Begins, TypeOK
<1>3. ASSUME NEW r \in Requests, Insert(r)
      PROVE  Becomes(q)
  <2>1. CASE r # q
    BY <1>1, <1>3, <2>1 DEF Insert, Answered, TypeOK
  <2>2. CASE r = q
    <3>1. task[q] \in Task /\ task[q] # Nothing /\ task[q].by = "register"
      BY <1>3, <2>2 DEF Insert, Is, TypeOK
    <3>2. CASE task' = [task EXCEPT ![q].step = "open"]
      <4>1. task'[q] = [task[q] EXCEPT !.step = "open"]
        BY <3>2 DEF TypeOK
      <4>2. task'[q].step = "open" /\ task'[q].by = "register"
        BY <3>1, <4>1 DEF Task
      <4> QED
        BY <4>2 DEF Becomes, Opens
    <3>3. CASE \E ok \in BOOLEAN : task' = Answered(q, ok)
      BY <3>1, <3>3, AnswerOf DEF Becomes
    <3> QED
      BY <1>3, <2>2, <3>2, <3>3 DEF Insert
  <2> QED
    BY <2>1, <2>2
<1>4. ASSUME NEW r \in Requests, OpenAccount(r) \/ FailToOpen(r)
      PROVE  Becomes(q)
  <2>1. CASE r # q
    BY <1>1, <1>4, <2>1 DEF OpenAccount, FailToOpen, Answered, TypeOK
  <2>2. CASE r = q
    <3>1. task[q] \in Task /\ task[q] # Nothing /\ task[q].by = "register"
      BY <1>4, <2>2 DEF OpenAccount, FailToOpen, Is, TypeOK, OpenIsRegistration
    <3>2. CASE \E ok \in BOOLEAN : task' = Answered(q, ok)
      BY <3>1, <3>2, AnswerOf DEF Becomes
    <3>3. CASE task' = [task EXCEPT ![q] = Nothing]
      BY <3>3 DEF TypeOK, Becomes
    <3>4. CASE task' = [task EXCEPT ![q].heard = FALSE]
      BY <3>1, <3>4 DEF TypeOK, Becomes, Same
    <3> QED
      BY <1>4, <2>2, <3>2, <3>3, <3>4 DEF OpenAccount, FailToOpen
  <2> QED
    BY <2>1, <2>2
<1>5. ASSUME NEW r \in Requests, FindUser(r) \/ CheckEmail(r)
      PROVE  Becomes(q)
  <2>1. CASE r # q
    BY <1>1, <1>5, <2>1 DEF FindUser, CheckEmail, Answered, TypeOK
  <2>2. CASE r = q
    <3>1. task[q] \in Task /\ task[q] # Nothing
      BY <1>5, <2>2 DEF FindUser, CheckEmail, Is, TypeOK
    <3>2. CASE task' = Answered(q, FALSE)
      BY <3>1, <3>2, AnswerOf DEF Becomes
    <3>3. CASE \E step \in {"write", "check"} : task' = [task EXCEPT ![q].step = step]
      <4>1. PICK step \in {"write", "check"} : task'[q] = [task[q] EXCEPT !.step = step]
        BY <3>3 DEF TypeOK
      <4>2. task'[q].step = step
        BY <3>1, <4>1 DEF Task
      <4> QED
        BY <4>2 DEF Becomes, Begins
    <3> QED
      BY <1>5, <2>2, <3>2, <3>3 DEF FindUser, CheckEmail
  <2> QED
    BY <2>1, <2>2
<1>6. ASSUME NEW r \in Requests, Update(r)
      PROVE  Becomes(q)
  <2>1. CASE r # q
    BY <1>1, <1>6, <2>1 DEF Update, Answered, TypeOK
  <2>2. CASE r = q
    <3> DEFINE t == task[q]
    <3>1. t \in Task /\ t # Nothing /\ t.by \in {"edit", "profile"}
      BY <1>6, <2>2 DEF Update, Is, TypeOK
    <3>2. CASE task' = Answered(q, FALSE)
      BY <3>1, <3>2, AnswerOf DEF Becomes
    <3>3. CASE t.by = "profile" /\ task' = Answered(q, TRUE)
      BY <3>1, <3>3, AnswerOf DEF Becomes
    <3>4. CASE t.by = "edit" /\ task' = Answered(q, TRUE) /\ Write(t.user, Updated(t))
      <4>1. task'[q] = [t EXCEPT !.step = "answer", !.ok = TRUE]
        BY <3>4 DEF Answered, TypeOK
      <4>2. task'[q].step = "answer" /\ WholeRow(task'[q]) = WholeRow(t) /\ task'[q].user = t.user
        BY <3>1, <4>1 DEF Task, WholeRow
      <4>3. Updated(t) = WholeRow(t)
        BY <3>4 DEF Updated, WholeRow
      <4>4. WholeRow(t) \in held'[t.user]
        BY <3>1, <3>4, <4>3 DEF Write, TypeOK, Task
      <4> QED
        BY <4>2, <4>4 DEF Becomes, GetsAnswer
    <3> QED
      BY <1>6, <2>2, <3>1, <3>2, <3>3, <3>4 DEF Update
  <2> QED
    BY <2>1, <2>2
<1>7. ASSUME NEW r \in Requests, Delete(r)
      PROVE  Becomes(q)
  <2>1. CASE r # q
    BY <1>1, <1>7, <2>1 DEF Delete, Answered, TypeOK
  <2>2. CASE r = q
    BY <1>7, <2>2, AnswerOf DEF Delete, Is, Becomes
  <2> QED
    BY <2>1, <2>2
<1>8. ASSUME NEW r \in Requests, Hear(r) \/ GiveUp(r)
      PROVE  Becomes(q)
  BY <1>1, <1>8 DEF Hear, GiveUp, Becomes, Same, TypeOK
<1>9. ASSUME Load
       PROVE  Becomes(q)
  BY <1>9 DEF Load, Becomes, Same
<1>10. ASSUME \/ \E r \in Requests, u \in Users, email \in Emails, role \in Roles :
                   Register(r, u, email, role)
              \/ \E r \in Requests, email \in Emails, role \in Roles : Save(r, email, role)
              \/ \E r \in Requests, u \in Users, email \in Emails : Profile(r, u, email)
              \/ \E r \in Requests, u \in Users : RemoveUser(r, u)
       PROVE  Becomes(q)
  BY <1>2, <1>10 DEF Register, Save, Profile, RemoveUser, Request
<1>11. ASSUME Close \/ UNCHANGED vars \/ \E u \in Users : Open(u)
       PROVE  Becomes(q)
  BY <1>1, <1>11 DEF Close, Open, vars
<1> QED
  BY <1>3, <1>4, <1>5, <1>6, <1>7, <1>8, <1>9, <1>10, <1>11 DEF Next, Serve

LEMMA ListInvariant == Spec => []ListInv
<1>1. Init => ListInv
  BY DEF Init, ListInv, RowsWereHeld, ListIsFromTheDirectory, Listed, AnsweredRowWasHeld,
         OpenIsRegistration, Is
<1>2. TypeOK /\ ListInv /\ [Next]_vars => ListInv'
  <2> SUFFICES ASSUME TypeOK, ListInv, [Next]_vars
               PROVE  ListInv'
    OBVIOUS
  <2>1. \A u \in Users : held[u] \subseteq held'[u] /\ (users'[u] # Nothing => users'[u] \in held'[u])
    BY StepHeld DEF ListInv, RowsWereHeld
  <2>2. \A r \in Requests : Becomes(r)
    BY StepBecomes DEF ListInv
  <2>3. \A r \in Requests : Same(r) =>
          /\ task[r] \in Task
          /\ task'[r].step = task[r].step /\ task'[r].by = task[r].by /\ task'[r].ok = task[r].ok
          /\ task'[r].user = task[r].user /\ WholeRow(task'[r]) = WholeRow(task[r])
    BY DEF Same, TypeOK, Task, WholeRow
  <2>4. OpenIsRegistration'
    BY <2>2, <2>3 DEF ListInv, OpenIsRegistration, Becomes, Begins, Opens, GetsAnswer, Is, Same
  <2>5. AnsweredRowWasHeld'
    <3> SUFFICES ASSUME NEW r \in Requests, Is(r, "answer")', task'[r].by = "edit", task'[r].ok
                 PROVE  WholeRow(task'[r]) \in held'[task'[r].user]
      BY DEF AnsweredRowWasHeld
    <3>1. CASE Same(r)
      <4>1. Is(r, "answer") /\ task[r].by = "edit" /\ task[r].ok /\ task[r].user \in Users
        BY <2>3, <3>1 DEF Is, Same, Task
      <4>2. WholeRow(task[r]) \in held[task[r].user]
        BY <4>1 DEF ListInv, AnsweredRowWasHeld
      <4> QED
        BY <2>1, <2>3, <3>1, <4>1, <4>2
    <3>2. CASE GetsAnswer(r)
      BY <3>2 DEF GetsAnswer
    <3> QED
      BY <2>2, <3>1, <3>2 DEF Becomes, Begins, Opens, Is
  <2>6. ListIsFromTheDirectory'
    <3> SUFFICES ASSUME NEW u \in Users, list'[u] # Nothing
                 PROVE  list'[u] \in held'[u]
      BY DEF ListIsFromTheDirectory, Listed
    <3>1. CASE list'[u] = list[u]
      BY <2>1, <3>1 DEF ListInv, RowsWereHeld, ListIsFromTheDirectory, Listed
    <3>2. CASE list'[u] = users[u]
      BY <2>1, <3>2 DEF ListInv, RowsWereHeld
    <3>3. CASE \E r \in Requests : Is(r, "answer") /\ task[r].by = "edit" /\ task[r].ok
                                    /\ task[r].user = u /\ list'[u] = WholeRow(task[r])
      BY <2>1, <3>3 DEF ListInv, AnsweredRowWasHeld
    <3>4. ASSUME NEW r \in Requests, Hear(r)
          PROVE  \/ list'[u] = list[u]
                 \/ list'[u] = Nothing
                 \/ /\ Is(r, "answer") /\ task[r].by = "edit" /\ task[r].ok
                    /\ task[r].user = u /\ list'[u] = WholeRow(task[r])
      <4>1. task[r] \in Task
        BY <3>4 DEF Hear, Is, TypeOK
      <4> QED
        BY <3>4, <4>1 DEF Hear, Patched, TypeOK, Task, Is
    <3>5. ASSUME \/ \E r \in Requests : Serve(r) \/ GiveUp(r)
                 \/ \E r \in Requests, v \in Users, email \in Emails, role \in Roles :
                      Register(r, v, email, role)
                 \/ \E r \in Requests, email \in Emails, role \in Roles : Save(r, email, role)
                 \/ \E r \in Requests, v \in Users, email \in Emails : Profile(r, v, email)
                 \/ \E r \in Requests, v \in Users : RemoveUser(r, v)
                 \/ Close \/ UNCHANGED vars \/ \E v \in Users : Open(v)
          PROVE  list'[u] = list[u]
      BY <3>5 DEF Serve, Insert, OpenAccount, FailToOpen, FindUser, CheckEmail, Update, Delete,
                  GiveUp, Register, Save, Profile, RemoveUser, Close, Open, vars
    <3>6. Load => list'[u] = users[u]
      BY DEF Load
    <3> QED
      BY <3>1, <3>2, <3>3, <3>4, <3>5, <3>6 DEF Next
  <2> QED
    BY <2>1, <2>4, <2>5, <2>6 DEF ListInv, RowsWereHeld
<1> QED
  BY <1>1, <1>2, TypeCorrect, PTL DEF Spec

\* What "All Users" shows of a user is a row that user has had: answers that come
\* late, when another user's form is open, do not end up in the wrong row.
THEOREM ListIsHonest == Spec => []ListIsFromTheDirectory
<1>1. ListInv => ListIsFromTheDirectory
  BY DEF ListInv, RowsWereHeld
<1> QED
  BY <1>1, ListInvariant, PTL

-----------------------------------------------------------------------------
(* The counter.                                                            *)

CallRecord ==
  [step : {"lookup", "resolve", "found", "resolved", "post", "paid", "refused"},
   typed : Emails, shown : Users \cup {Nothing}, target : Users \cup {Nothing}, heard : BOOLEAN]

Page == [typed : Emails \cup {Nothing}, resolved : Users \cup {Nothing},
         loading : BOOLEAN, done : BOOLEAN]

\* User u has had this email, if rows are the rows each user has had.
Had(rows, u, email) == u \in Users /\ \E row \in rows[u] : row.email = email

\* What a call may rely on at each step.
CallOK(rows, call) ==
  /\ call \in CallRecord
  /\ IF call.shown # Nothing
     THEN call.step \in {"post", "paid", "refused"} /\ call.target = call.shown
     ELSE /\ call.target # Nothing => Had(rows, call.target, call.typed)
          /\ call.step \in {"post", "paid", "refused"} => call.target # Nothing

CounterInv ==
  /\ counter \in Page
  /\ calls \in [Calls -> CallRecord \cup {Nothing}]
  /\ \A c \in Calls : calls[c] # Nothing => CallOK(held, calls[c])
  /\ DepositGoesWhereClicked

-----------------------------------------------------------------------------

\* The counter leaves the directory alone.
LEMMA CounterReads == SystemSpec => Spec
<1>1. CounterInit => Init
  BY DEF CounterInit
<1>2. [SystemNext]_systemVars => [Next]_vars
  BY DEF SystemNext, systemVars, vars
<1> QED
  BY <1>1, <1>2, PTL DEF SystemSpec, Spec

\* The directory keeps its promises while tellers look people up in it.
THEOREM DirectoryAtTheCounter ==
  SystemSpec => [](EmailsUnique /\ RoleIsGranted /\ WelcomedHaveAccounts /\ ListIsFromTheDirectory)
BY CounterReads, UniqueEmails, RolesAreGranted, WelcomesAreKept, ListIsHonest, PTL

\* What a user has had is not forgotten by a step of the directory.
LEMMA CallStays ==
  ASSUME NEW rows, NEW more, NEW call, CallOK(rows, call),
         \A v \in Users : rows[v] \subseteq more[v]
  PROVE  CallOK(more, call)
<1>1. \A u, email : Had(rows, u, email) => Had(more, u, email)
  BY DEF Had
<1> QED
  BY <1>1 DEF CallOK

LEMMA DepositsStay ==
  ASSUME DepositGoesWhereClicked, deposits' = deposits, \A v \in Users : held[v] \subseteq held'[v]
  PROVE  DepositGoesWhereClicked'
BY DEF DepositGoesWhereClicked

\* One call changes, or is over.
LEMMA CallsUpdate ==
  ASSUME NEW before \in [Calls -> CallRecord \cup {Nothing}], NEW rows, NEW c \in Calls, NEW call,
         \A d \in Calls : before[d] # Nothing => CallOK(rows, before[d]),
         call # Nothing => CallOK(rows, call)
  PROVE  LET after == [before EXCEPT ![c] = call]
         IN  /\ after \in [Calls -> CallRecord \cup {Nothing}]
             /\ \A d \in Calls : after[d] # Nothing => CallOK(rows, after[d])
<1>1. call \in CallRecord \cup {Nothing}
  BY DEF CallOK
<1> QED
  BY <1>1

\* Every step of the counter keeps CounterInv, if the directory's rows are ones their
\* users have had.
LEMMA CounterStep ==
  ASSUME CounterInv, CounterNext, UNCHANGED vars,
         \A u \in Users : users[u] # Nothing => users[u] \in held[u]
  PROVE  CounterInv'
<1>0. held' = held
  BY DEF vars
<1>1. ASSUME NEW email \in Emails, Type(email)
      PROVE  CounterInv'
  <2>1. counter' \in Page
    BY <1>1 DEF Type, Page, CounterInv
  <2> QED
    BY <1>0, <1>1, <2>1 DEF Type, CounterInv, CallOK, Had, DepositGoesWhereClicked
<1>2. ASSUME NEW c \in Calls, Lookup(c)
      PROVE  CounterInv'
  <2>1. CallOK(held, Call("lookup", Nothing))
    BY <1>2 DEF Lookup, Call, CallOK, CallRecord, CounterInv, Page
  <2>2. calls' = [calls EXCEPT ![c] = Call("lookup", Nothing)] /\ deposits' = deposits
    BY <1>2 DEF Lookup, Ask
  <2>3. counter' \in Page
    BY <1>2 DEF Lookup, Page, CounterInv
  <2> QED
    BY <1>0, <2>1, <2>2, <2>3, CallsUpdate DEF CounterInv, DepositGoesWhereClicked
<1>3. ASSUME NEW c \in Calls, Submit(c)
      PROVE  CounterInv'
  <2>1. CASE counter.resolved # Nothing
    <3>1. CallOK(held, Call("post", counter.resolved))
      BY <1>3, <2>1 DEF Submit, CanSubmit, Call, CallOK, CallRecord, CounterInv, Page
    <3>2. calls' = [calls EXCEPT ![c] = Call("post", counter.resolved)] /\ deposits' = deposits
      BY <1>3, <2>1 DEF Submit, Ask
    <3>3. counter' \in Page
      BY <1>3, <2>1 DEF Submit, Page, CounterInv
    <3> QED
      BY <1>0, <3>1, <3>2, <3>3, CallsUpdate DEF CounterInv, DepositGoesWhereClicked
  <2>2. CASE counter.resolved = Nothing
    <3>1. CallOK(held, Call("resolve", Nothing))
      BY <1>3 DEF Submit, CanSubmit, Call, CallOK, CallRecord, CounterInv, Page
    <3>2. /\ calls' = [calls EXCEPT ![c] = Call("resolve", Nothing)]
          /\ deposits' = deposits /\ counter' = counter
      BY <1>3, <2>2 DEF Submit, Ask
    <3> QED
      BY <1>0, <3>1, <3>2, CallsUpdate DEF CounterInv, DepositGoesWhereClicked
  <2> QED
    BY <2>1, <2>2
<1>4. ASSUME NEW c \in Calls, Search(c)
      PROVE  CounterInv'
  <2> DEFINE call == calls[c]
             next == IF Stands(c, "lookup") THEN "found" ELSE "resolved"
  <2>1. call # Nothing /\ CallOK(held, call) /\ call \in CallRecord /\ call.shown = Nothing
    BY <1>4 DEF Search, Stands, CounterInv, CallOK
  <2>2. PICK u \in Users \cup {Nothing} : /\ Answer(c, next, u)
                                          /\ u # Nothing => u \in Found(call.typed)
    BY <1>4 DEF Search, Found, Holders
  <2>3. u # Nothing => Had(held, u, call.typed)
    BY <2>2 DEF Found, Holders, Had
  <2>4. calls' = [calls EXCEPT ![c] = [call EXCEPT !.step = next, !.target = u]]
    BY <2>2 DEF Answer, CounterInv
  <2>5. CallOK(held, [call EXCEPT !.step = next, !.target = u])
    BY <2>1, <2>3 DEF CallOK, CallRecord
  <2>6. counter' = counter /\ deposits' = deposits
    BY <1>4 DEF Search
  <2> QED
    BY <1>0, <2>4, <2>5, <2>6, CallsUpdate DEF CounterInv, DepositGoesWhereClicked
<1>5. ASSUME NEW c \in Calls, HearLookup(c) \/ HearDeposit(c) \/ Settle(c)
      PROVE  CounterInv'
  <2>1. calls' = [calls EXCEPT ![c] = Nothing] /\ deposits' = deposits
    BY <1>5 DEF HearLookup, HearDeposit, Settle
  <2>2. calls[c] # Nothing => calls[c] \in CallRecord
    BY DEF CounterInv
  <2>3. counter' \in Page
    BY <1>5, <2>2 DEF HearLookup, HearDeposit, Settle, Stands, Page, CallRecord, CounterInv
  <2> QED
    BY <1>0, <2>1, <2>3, CallsUpdate DEF CounterInv, DepositGoesWhereClicked
<1>6. ASSUME NEW c \in Calls, HearResolved(c)
      PROVE  CounterInv'
  <2> DEFINE call == calls[c]
             paying == [call EXCEPT !.step = "post", !.target = Target(c)]
  <2>1. call # Nothing /\ CallOK(held, call) /\ call \in CallRecord /\ call.shown = Nothing
    BY <1>6 DEF HearResolved, Stands, CounterInv, CallOK
  <2>2. call.target # Nothing => CallOK(held, paying)
    BY <2>1 DEF CallOK, CallRecord, Target
  <2>3. /\ calls' = [calls EXCEPT ![c] = IF call.target = Nothing THEN Nothing ELSE paying]
        /\ deposits' = deposits
    BY <1>6 DEF HearResolved, CounterInv
  <2>4. counter' \in Page
    BY <1>6, <2>1 DEF HearResolved, Page, CallRecord, CounterInv
  <2> QED
    BY <1>0, <2>2, <2>3, <2>4, CallsUpdate DEF CounterInv, DepositGoesWhereClicked
<1>7. ASSUME NEW c \in Calls, Pay(c)
      PROVE  CounterInv'
  <2> DEFINE call == calls[c]
             d == [to |-> call.target, typed |-> call.typed, shown |-> call.shown]
  <2>1. call # Nothing /\ CallOK(held, call) /\ call \in CallRecord /\ call.step = "post"
    BY <1>7 DEF Pay, Stands, CounterInv, CallOK
  <2>2. PICK step \in {"paid", "refused"} :
          calls' = [calls EXCEPT ![c] = [call EXCEPT !.step = step, !.target = call.target]]
    BY <1>7 DEF Pay, Answer, CounterInv
  <2>3. CallOK(held, [call EXCEPT !.step = step, !.target = call.target])
    BY <2>1 DEF CallOK, CallRecord
  <2>4. IF d.shown # Nothing THEN d.to = d.shown
        ELSE d.to \in Users /\ \E row \in held[d.to] : row.email = d.typed
    BY <2>1 DEF CallOK, Had
  <2>5. deposits' \subseteq deposits \cup {d}
    BY <1>7 DEF Pay
  <2>6. DepositGoesWhereClicked'
    BY <1>0, <2>4, <2>5 DEF CounterInv, DepositGoesWhereClicked
  <2>7. counter' = counter
    BY <1>7 DEF Pay
  <2> QED
    BY <1>0, <2>2, <2>3, <2>6, <2>7, CallsUpdate DEF CounterInv
<1>8. ASSUME NEW c \in Calls, StopWaiting(c)
      PROVE  CounterInv'
  <2> DEFINE call == calls[c]
  <2>1. call # Nothing /\ CallOK(held, call) /\ call \in CallRecord
    BY <1>8 DEF StopWaiting, CounterInv, CallOK
  <2>2. CallOK(held, [call EXCEPT !.heard = FALSE])
    BY <2>1 DEF CallOK, CallRecord
  <2>3. /\ calls' = [calls EXCEPT ![c] = IF call.step = "post" THEN [call EXCEPT !.heard = FALSE]
                                                               ELSE Nothing]
        /\ deposits' = deposits
    BY <1>8 DEF StopWaiting, CounterInv
  <2>4. counter' \in Page
    BY <1>8 DEF StopWaiting, Page, CounterInv
  <2> DEFINE after == IF call.step = "post" THEN [call EXCEPT !.heard = FALSE] ELSE Nothing
  <2>5. after # Nothing => CallOK(held, after)
    BY <2>2
  <2>6. calls' = [calls EXCEPT ![c] = after]
    BY <2>3
  <2> HIDE DEF after
  <2>7. /\ calls' \in [Calls -> CallRecord \cup {Nothing}]
        /\ \A d \in Calls : calls'[d] # Nothing => CallOK(held, calls'[d])
    BY <2>5, <2>6, CallsUpdate DEF CounterInv
  <2> QED
    BY <1>0, <2>3, <2>4, <2>7 DEF CounterInv, DepositGoesWhereClicked
<1>9. ASSUME CloseReceipt
      PROVE  CounterInv'
  <2>1. counter' \in Page
    BY <1>9 DEF CloseReceipt, Blank, Page, CounterInv
  <2> QED
    BY <1>0, <1>9, <2>1 DEF CloseReceipt, CounterInv, CallOK, Had, DepositGoesWhereClicked
<1> QED
  BY <1>1, <1>2, <1>3, <1>4, <1>5, <1>6, <1>7, <1>8, <1>9 DEF CounterNext

\* Cash goes to whoever the page named at the click, or to someone who has had the
\* email that was typed then: late lookups and changes of the directory redirect no
\* deposit.
THEOREM DepositsGoWhereClicked == SystemSpec => []DepositGoesWhereClicked
<1>1. CounterInit => CounterInv
  BY DEF CounterInit, CounterInv, Blank, Page, DepositGoesWhereClicked
<1>2. /\ TypeOK /\ ListInv /\ CounterInv /\ [SystemNext]_systemVars
      => CounterInv'
  <2> SUFFICES ASSUME TypeOK, ListInv, CounterInv, [SystemNext]_systemVars
               PROVE  CounterInv'
    OBVIOUS
  <2>1. \A u \in Users : users[u] # Nothing => users[u] \in held[u]
    BY DEF ListInv, RowsWereHeld
  <2>2. CASE CounterNext /\ UNCHANGED vars
    BY <2>1, <2>2, CounterStep
  <2>3. CASE [Next]_vars /\ UNCHANGED counterVars
    <3>1. \A u \in Users : held[u] \subseteq held'[u]
      BY <2>1, <2>3, StepHeld
    <3>2. counter' = counter /\ calls' = calls /\ deposits' = deposits
      BY <2>3 DEF counterVars
    <3> QED
      BY <3>1, <3>2, CallStays, DepositsStay DEF CounterInv
  <2> QED
    BY <2>2, <2>3 DEF SystemNext, systemVars
<1>3. SystemSpec => [](TypeOK /\ ListInv)
  BY CounterReads, TypeCorrect, ListInvariant, PTL
<1>4. CounterInv => DepositGoesWhereClicked
  BY DEF CounterInv
<1> QED
  BY <1>1, <1>2, <1>3, <1>4, PTL DEF SystemSpec

-----------------------------------------------------------------------------
(* The holds page.                                                         *)

HoldRow == [status : Decided \cup {"PENDING_REVIEW"}, by : {"nobody", "here", "elsewhere"},
            note : Nat]

Decision == [hold : Holds, status : Decided, note : Nat, done : BOOLEAN, awaited : BOOLEAN]

HoldList == [rows : SUBSET Holds, served : BOOLEAN, last : BOOLEAN]

View == [rows : SUBSET Holds, open : Holds \cup {NoHold}, note : Nat,
         busy : Holds \cup {NoHold}]

\* A request the service has carried out is what became of its hold: no colleague
\* came first, and nobody decides a second time.
CarriedOut(rows, it) ==
  it.done => rows[it.hold] = [status |-> it.status, by |-> "here", note |-> it.note]

HoldInv ==
  /\ holds \in [Holds -> HoldRow]
  /\ view \in View /\ notes \in Nat
  /\ loads \in Seq(HoldList)
  /\ decisions \in Seq(Decision)
  /\ \A d \in DOMAIN decisions : CarriedOut(holds, decisions[d])

\* What is left of a sequence without one element was in it.
LEMMA RemoveAtMembers ==
  ASSUME NEW S, NEW s \in Seq(S), NEW i \in DOMAIN s
  PROVE  /\ RemoveAt(s, i) \in Seq(S)
         /\ \A j \in DOMAIN RemoveAt(s, i) : \E k \in DOMAIN s : RemoveAt(s, i)[j] = s[k]
<1>1. i \in 1..Len(s) /\ Len(s) \in Nat
  OBVIOUS
<1> DEFINE a == SubSeq(s, 1, i - 1)
           b == SubSeq(s, i + 1, Len(s))
<1>2. a \in Seq(S) /\ \A j \in DOMAIN a : a[j] = s[j] /\ j \in DOMAIN s
  BY <1>1
<1>3. b \in Seq(S) /\ \A j \in DOMAIN b : b[j] = s[i + j] /\ i + j \in DOMAIN s
  <2>1. i + 1 \in 1..(Len(s) + 1)
    BY <1>1
  <2>2. b \in Seq(S) /\ Len(b) = Len(s) - i
    BY <1>1, <2>1, SubSeqProperties
  <2>3. ASSUME NEW j \in 1..(Len(s) - i) PROVE b[j] = s[i + j] /\ i + j \in DOMAIN s
    <3>1. j \in 1..((Len(s) - (i + 1)) + 1) /\ ((i + 1) + j) - 1 = i + j
      BY <1>1
    <3>2. b[j] = s[((i + 1) + j) - 1]
      BY <1>1, <2>1, <3>1, SubSeqProperties
    <3> QED BY <1>1, <3>1, <3>2
  <2> QED BY <2>2, <2>3
<1>4. RemoveAt(s, i) = a \o b
  BY DEF RemoveAt
<1> HIDE DEF a, b
<1>5. /\ a \o b \in Seq(S)
      /\ \A j \in DOMAIN (a \o b) :
           (j \in DOMAIN a /\ (a \o b)[j] = a[j])
             \/ (j - Len(a) \in DOMAIN b /\ (a \o b)[j] = b[j - Len(a)])
  BY <1>2, <1>3, ConcatProperties
<1> QED BY <1>2, <1>3, <1>4, <1>5

\* Requests that only get fewer are carried out as before.
LEMMA DecisionGone ==
  ASSUME HoldInv, NEW d \in DOMAIN decisions, decisions' = RemoveAt(decisions, d),
         holds' = holds
  PROVE  /\ decisions' \in Seq(Decision)
         /\ \A e \in DOMAIN decisions' : CarriedOut(holds', decisions'[e])
BY RemoveAtMembers DEF HoldInv

\* A hold is decided once, so what was carried out stays so.
LEMMA RecordKeeps ==
  ASSUME HoldInv, NEW h \in Holds, Undecided(h), NEW status \in Decided,
         NEW who \in {"here", "elsewhere"}, NEW note \in Nat, Record(h, status, who, note)
  PROVE  /\ holds' \in [Holds -> HoldRow]
         /\ holds'[h] = [status |-> status, by |-> who, note |-> note]
         /\ \A d \in DOMAIN decisions : CarriedOut(holds', decisions[d])
         /\ \A d \in DOMAIN decisions : decisions[d].done => decisions[d].hold # h
<1> DEFINE row == [status |-> status, by |-> who, note |-> note]
<1>1. row \in HoldRow
  BY DEF HoldRow
<1>2. holds' = [holds EXCEPT ![h] = row]
  BY DEF Record
<1>3. ASSUME NEW d \in DOMAIN decisions, decisions[d].done PROVE decisions[d].hold # h
  <2>1. decisions[d] \in Decision /\ CarriedOut(holds, decisions[d])
    BY DEF HoldInv
  <2>2. holds[decisions[d].hold].status = decisions[d].status /\ decisions[d].status \in Decided
    BY <1>3, <2>1 DEF CarriedOut, Decision
  <2> QED BY <2>2 DEF Undecided, Decided
<1> HIDE DEF row
<1>4. holds' \in [Holds -> HoldRow] /\ holds'[h] = row
  BY <1>1, <1>2 DEF HoldInv
<1>5. ASSUME NEW d \in DOMAIN decisions PROVE CarriedOut(holds', decisions[d])
  <2>1. decisions[d] \in Decision /\ CarriedOut(holds, decisions[d])
    BY DEF HoldInv
  <2> QED BY <1>2, <1>3, <2>1 DEF CarriedOut, Decision, HoldInv
<1> QED BY <1>3, <1>4, <1>5 DEF row

LEMMA HoldStep ==
  ASSUME HoldDeskAssumption, HoldInv, [HoldNext]_holdVars
  PROVE  HoldInv'
<1>0. /\ holds \in [Holds -> HoldRow] /\ view \in View /\ notes \in Nat
      /\ loads \in Seq(HoldList) /\ decisions \in Seq(Decision)
      /\ \A d \in DOMAIN decisions : CarriedOut(holds, decisions[d])
  BY DEF HoldInv
<1> DEFINE early == [rows |-> {}, served |-> FALSE, last |-> FALSE]
           late  == [rows |-> {}, served |-> FALSE, last |-> TRUE]
<1>20. early \in HoldList /\ late \in HoldList
  BY DEF HoldList
<1>21. /\ Reload => loads' = Append(loads, early)
       /\ Reopen => loads' = <<early>>
       /\ \A d : DecisionSucceeds(d) => loads' = Append(loads, late)
  BY Zenon DEF Reload, Reopen, DecisionSucceeds, NewLoad
<1> HIDE DEF early, late
<1>1. CASE Reload
  <2>1. loads' \in Seq(HoldList)
    BY <1>0, <1>1, <1>20, <1>21
  <2> QED BY <1>0, <1>1, <2>1 DEF Reload, HoldInv
<1>2. ASSUME NEW l \in DOMAIN loads, ServeLoad(l) PROVE HoldInv'
  <2>1. PICK load \in HoldList : load = loads[l]
    BY <1>0
  <2> DEFINE served == [load EXCEPT !.served = TRUE, !.rows = {h \in Holds : Undecided(h)}]
  <2>2. served \in HoldList
    BY DEF HoldList
  <2>3. loads' = [loads EXCEPT ![l] = served]
    BY <1>0, <1>2, <2>1 DEF ServeLoad
  <2> HIDE DEF served
  <2>4. loads' \in Seq(HoldList)
    BY <1>0, <2>2, <2>3
  <2> QED BY <1>0, <1>2, <2>4 DEF ServeLoad, HoldInv
<1>3. ASSUME NEW l \in DOMAIN loads, HearLoad(l) \/ FailLoad(l) PROVE HoldInv'
  <2>1. PICK rows \in SUBSET Holds : Loaded(l, rows)
    <3>1. loads[l] \in HoldList
      BY <1>0
    <3> QED BY <1>3, <3>1 DEF HearLoad, FailLoad, HoldList
  <2>2. view' \in View
    BY <1>0, <2>1 DEF Loaded, View
  <2>3. loads' \in Seq(HoldList)
    BY <1>0, <2>1, RemoveAtMembers DEF Loaded
  <2> QED BY <1>0, <2>1, <2>2, <2>3 DEF Loaded, HoldInv
<1>4. ASSUME NEW h \in Holds, OpenRow(h) \/ TypeNote(h) PROVE HoldInv'
  <2>1. view' \in View /\ notes' \in Nat
    BY <1>0, <1>4 DEF OpenRow, TypeNote, View
  <2> QED BY <1>0, <1>4, <2>1 DEF OpenRow, TypeNote, HoldInv
<1>5. ASSUME NEW h \in Holds, NEW status \in Decided, Decide(h, status) PROVE HoldInv'
  <2> DEFINE it == [hold |-> h, status |-> status, note |-> view.note,
                    done |-> FALSE, awaited |-> TRUE]
  <2>1. it \in Decision /\ CarriedOut(holds, it) /\ decisions' = Append(decisions, it)
    BY <1>0, <1>5 DEF Decide, View, Decision, CarriedOut
  <2>2. view' \in View
    BY <1>0, <1>5 DEF Decide, View
  <2> HIDE DEF it
  <2>3. /\ decisions' \in Seq(Decision)
        /\ \A d \in DOMAIN decisions' : CarriedOut(holds, decisions'[d])
    BY <1>0, <2>1
  <2> QED BY <1>0, <1>5, <2>2, <2>3 DEF Decide, HoldInv
<1>6. ASSUME NEW h \in Holds, NEW status \in Decided, DecideElsewhere(h, status)
      PROVE  HoldInv'
  <2>1. Undecided(h) /\ Record(h, status, "elsewhere", 0)
    BY <1>6 DEF DecideElsewhere
  <2>2. /\ holds' \in [Holds -> HoldRow]
        /\ \A d \in DOMAIN decisions : CarriedOut(holds', decisions[d])
    BY <2>1, RecordKeeps
  <2> QED BY <1>0, <1>6, <2>2 DEF DecideElsewhere, HoldInv
<1>7. ASSUME NEW d \in DOMAIN decisions, ServeDecision(d) PROVE HoldInv'
  <2>1. PICK it \in Decision : it = decisions[d]
    BY <1>0
  <2>2. it.hold \in Holds /\ it.status \in Decided /\ it.note \in Nat
    BY DEF Decision
  <2>3. /\ Undecided(it.hold) /\ Record(it.hold, it.status, "here", it.note)
        /\ decisions' = IF it.awaited THEN [decisions EXCEPT ![d].done = TRUE]
                                      ELSE RemoveAt(decisions, d)
    BY <1>7, <2>1 DEF ServeDecision
  <2>4. /\ holds' \in [Holds -> HoldRow]
        /\ holds'[it.hold] = [status |-> it.status, by |-> "here", note |-> it.note]
        /\ \A e \in DOMAIN decisions : CarriedOut(holds', decisions[e])
    BY <2>2, <2>3, RecordKeeps
  <2>5. /\ decisions' \in Seq(Decision)
        /\ \A e \in DOMAIN decisions' : CarriedOut(holds', decisions'[e])
    <3>1. CASE it.awaited
      <4> DEFINE served == [it EXCEPT !.done = TRUE]
      <4>1. served \in Decision /\ CarriedOut(holds', served)
        BY <2>4 DEF Decision, CarriedOut
      <4>2. decisions' = [decisions EXCEPT ![d] = served]
        BY <2>1, <2>3, <3>1
      <4> HIDE DEF served
      <4> QED BY <1>0, <2>4, <4>1, <4>2
    <3>2. CASE ~it.awaited
      BY <1>0, <2>3, <2>4, <3>2, RemoveAtMembers
    <3> QED BY <3>1, <3>2
  <2> QED BY <1>0, <1>7, <2>4, <2>5 DEF ServeDecision, HoldInv
<1>8. ASSUME NEW d \in DOMAIN decisions, DecisionSucceeds(d) PROVE HoldInv'
  <2>1. view' \in View
    BY <1>0, <1>8 DEF DecisionSucceeds, View
  <2>2. loads' \in Seq(HoldList)
    BY <1>0, <1>8, <1>20, <1>21
  <2> QED BY <1>0, <1>8, <2>1, <2>2, DecisionGone DEF DecisionSucceeds, HoldInv
<1>9. ASSUME NEW d \in DOMAIN decisions, DecisionFails(d) PROVE HoldInv'
  <2>1. view' \in View /\ holds' = holds
    BY <1>0, <1>9 DEF DecisionFails, View
  <2>2. CASE decisions' = RemoveAt(decisions, d)
    BY <1>0, <1>9, <2>1, <2>2, DecisionGone DEF DecisionFails, HoldInv
  <2>3. CASE decisions' = [decisions EXCEPT ![d].awaited = FALSE]
    <3>1. PICK it \in Decision : it = decisions[d] /\ CarriedOut(holds, it)
      BY <1>0
    <3> DEFINE later == [it EXCEPT !.awaited = FALSE]
    <3>2. later \in Decision /\ CarriedOut(holds, later)
      BY <3>1 DEF Decision, CarriedOut
    <3>3. decisions' = [decisions EXCEPT ![d] = later]
      BY <2>3, <3>1
    <3> HIDE DEF later
    <3>4. /\ decisions' \in Seq(Decision)
          /\ \A e \in DOMAIN decisions' : CarriedOut(holds, decisions'[e])
      BY <1>0, <3>2, <3>3
    <3> QED BY <1>0, <1>9, <2>1, <3>4 DEF DecisionFails, HoldInv
  <2> QED BY <1>9, <2>2, <2>3 DEF DecisionFails
<1>10. ASSUME NEW d \in DOMAIN decisions, DecisionLost(d) PROVE HoldInv'
  BY <1>0, <1>10, DecisionGone DEF DecisionLost, HoldInv
<1>11. CASE Reopen
  <2>1. view' \in View
    BY <1>11 DEF Reopen, BlankView, View
  <2>9. loads' \in Seq(HoldList)
    <3>1. <<early>> \in Seq(HoldList)
      BY <1>20
    <3>2. loads' = <<early>>
      BY <1>11, <1>21, Zenon
    <3> QED BY <3>1, <3>2
  <2>2. ASSUME NEW d \in DOMAIN decisions
        PROVE  LET later == [decisions[d] EXCEPT !.awaited = FALSE]
               IN  later \in Decision /\ CarriedOut(holds, later)
    <3>1. decisions[d] \in Decision /\ CarriedOut(holds, decisions[d])
      BY <1>0
    <3> QED BY <3>1 DEF Decision, CarriedOut
  <2>3. /\ decisions' \in Seq(Decision)
        /\ \A d \in DOMAIN decisions' : CarriedOut(holds, decisions'[d])
    BY <1>0, <1>11, <2>2 DEF Reopen
  <2> QED BY <1>0, <1>11, <2>1, <2>9, <2>3 DEF Reopen, HoldInv
<1>12. CASE UNCHANGED holdVars
  BY <1>12 DEF holdVars, HoldInv
<1> QED
  BY <1>1, <1>2, <1>3, <1>4, <1>5, <1>6, <1>7, <1>8, <1>9, <1>10, <1>11, <1>12 DEF HoldNext

\* A success that the page shows is its employee's own decision, with the note that
\* was sent, whatever colleagues do and however late the answer is.
THEOREM SuccessesAreOwn == HoldSpec => SuccessIsOwn
<1>1. HoldInit => HoldInv
  BY DEF HoldInit, HoldInv, HoldRow, BlankView, View, NewLoad, HoldList, Decided
<1>2. HoldInv /\ [HoldNext]_holdVars => HoldInv'
  BY HoldStep, HoldDeskAssumption
<1>3. HoldInv => \A d \in DOMAIN decisions : DecisionSucceeds(d) =>
        LET it == decisions[d]
        IN  holds[it.hold] = [status |-> it.status, by |-> "here", note |-> it.note]
  BY DEF HoldInv, CarriedOut, DecisionSucceeds
<1> QED BY <1>1, <1>2, <1>3, PTL DEF HoldSpec, SuccessIsOwn

=============================================================================
