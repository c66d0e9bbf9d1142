----------------------------- MODULE Directory -----------------------------
(***************************************************************************)
(* The directory of users: identity-service's handlers that create, change *)
(* and delete rows of users, the account a new customer gets from          *)
(* account-service, and the staff pages "All Users" and "New User          *)
(* Registration" that an administrator works on.                           *)
(*                                                                         *)
(* Every database statement commits by itself, so a request is a sequence  *)
(* of steps with other requests in between.  Left out: names, phone        *)
(* numbers, addresses and passwords; a role stands for what only an        *)
(* administrator may write, role and status.                               *)
(*                                                                         *)
(* An operator marked "Mutant" is the definition below it with a plausible *)
(* bug; no specification uses it.                                          *)
(***************************************************************************)
EXTENDS Integers, FiniteSets

CONSTANTS
  Users,        \* the ids rows of users get
  Emails,
  Roles,        \* "customer" among them
  Requests,     \* slots for requests in flight
  Nothing,      \* no row, no entry of the list, no task, no form
  MaxRequests   \* bound: requests ever sent

ASSUME DirectoryAssumption ==
  /\ "customer" \in Roles
  /\ Nothing \notin [email : Emails, role : Roles]
  /\ MaxRequests \in Nat

VARIABLES
  users,     \* the rows of users
  accounts,  \* the users who have an account
  task,      \* what each request is doing
  list,      \* the rows on the page "All Users"
  form,      \* the user whose row its edit form shows
  granted,   \* history: the role an administrator last gave a user
  held,      \* history: the rows each user has had
  welcomed,  \* history: customers whose creation was answered 201
  sent       \* counter behind the bound

vars == <<users, accounts, task, list, form, granted, held, welcomed, sent>>

Row == [email : Emails, role : Roles]

\* by is the page that asked; heard, whether it still waits for the answer; role,
\* the role in the payload, or in the token of a user at the profile page.
Task == [by : {"register", "edit", "delete", "profile"},
         step : {"find", "check", "write", "open", "answer"},
         user : Users, email : Emails, role : Roles, ok : BOOLEAN, heard : BOOLEAN]

Is(r, step) == task[r] # Nothing /\ task[r].step = step

\* The request has its answer; whoever asked may hear it.
Answered(r, ok) == [task EXCEPT ![r].step = "answer", ![r].ok = ok]

Send(r, request) ==
  /\ task[r] = Nothing
  /\ sent < MaxRequests
  /\ sent' = sent + 1
  /\ task' = [task EXCEPT ![r] = request]

Request(by, step, u, email, role) ==
  [by |-> by, step |-> step, user |-> u, email |-> email, role |-> role, ok |-> FALSE, heard |-> TRUE]

-----------------------------------------------------------------------------
(* identity-service.                                                       *)

\* Mutant.
TakenAtInsert(u, email) ==
  users[u] = Nothing /\ \E v \in Users : users[v] # Nothing /\ users[v].email = email

\* The table's UNIQUE would refuse u this email.
Taken(u, email) == \E v \in Users \ {u} : users[v] # Nothing /\ users[v].email = email

Write(u, row) ==
  /\ users' = [users EXCEPT ![u] = row]
  /\ held' = [held EXCEPT ![u] = @ \cup {row}]

\* createUser, up to its INSERT: the id is a new one.  A customer needs an account.
Insert(r) ==
  /\ Is(r, "write") /\ task[r].by = "register"
  /\ LET t == task[r]
         row == [email |-> t.email, role |-> t.role]
     IN  IF Taken(t.user, t.email)
         THEN task' = Answered(r, FALSE) /\ UNCHANGED <<users, granted, held, welcomed>>
         ELSE /\ Write(t.user, row)
              /\ granted' = [granted EXCEPT ![t.user] = t.role]
              /\ task' = IF t.role = "customer" THEN [task EXCEPT ![r].step = "open"]
                                                ELSE Answered(r, TRUE)
              /\ UNCHANGED welcomed
  /\ UNCHANGED <<accounts, list, form, sent>>

\* account-service opens the account, whether or not createUser still waits.
OpenAccount(r) ==
  /\ Is(r, "open")
  /\ accounts' = accounts \cup {task[r].user}
  /\ welcomed' = IF task[r].heard THEN welcomed \cup {task[r].user} ELSE welcomed
  /\ task' = IF task[r].heard THEN Answered(r, TRUE) ELSE [task EXCEPT ![r] = Nothing]
  /\ UNCHANGED <<users, list, form, granted, held, sent>>

\* Mutant.
FailureSwallowed(r) ==
  /\ Is(r, "open")
  /\ welcomed' = welcomed \cup {task[r].user}
  /\ task' = Answered(r, TRUE)
  /\ UNCHANGED <<users, accounts, list, form, granted, held, sent>>

\* It cannot, or the call times out and goes on: ACCOUNT_PROVISIONING_FAILED.
FailToOpen(r) ==
  /\ Is(r, "open")
  /\ \/ task' = IF task[r].heard THEN Answered(r, FALSE) ELSE [task EXCEPT ![r] = Nothing]
     \/ task[r].heard /\ task' = [task EXCEPT ![r].heard = FALSE]
  /\ UNCHANGED <<users, accounts, list, form, granted, held, welcomed, sent>>

\* findById, in updateUser, updateProfile and deleteUser.
FindUser(r) ==
  /\ Is(r, "find")
  /\ LET t == task[r]
         row == users[t.user]
     IN  task' = IF row = Nothing THEN Answered(r, FALSE)
                 ELSE [task EXCEPT ![r].step = IF t.by = "delete" \/ t.email = row.email
                                               THEN "write" ELSE "check"]
  /\ UNCHANGED <<users, accounts, list, form, granted, held, welcomed, sent>>

\* findByEmail: the conflict of this moment.
CheckEmail(r) ==
  /\ Is(r, "check")
  /\ task' = IF \E v \in Users : users[v] # Nothing /\ users[v].email = task[r].email
             THEN Answered(r, FALSE)
             ELSE [task EXCEPT ![r].step = "write"]
  /\ UNCHANGED <<users, accounts, list, form, granted, held, welcomed, sent>>

\* Mutant.
WholeRow(t) == [email |-> t.email, role |-> t.role]

\* The fields the UPDATE sets: updateProfile passes on no role.
Updated(t) == [email |-> t.email, role |-> IF t.by = "profile" THEN users[t.user].role ELSE t.role]

\* The UPDATE.  A row that has gone meanwhile is an error, like a duplicate email.
Update(r) ==
  /\ Is(r, "write") /\ task[r].by \in {"edit", "profile"}
  /\ LET t == task[r]
     IN  IF users[t.user] = Nothing \/ Taken(t.user, t.email)
         THEN task' = Answered(r, FALSE) /\ UNCHANGED <<users, granted, held>>
         ELSE /\ Write(t.user, Updated(t))
              /\ granted' = IF t.by = "edit" THEN [granted EXCEPT ![t.user] = t.role] ELSE granted
              /\ task' = Answered(r, TRUE)
  /\ UNCHANGED <<accounts, list, form, welcomed, sent>>

\* The DELETE; the account of the user stays.
Delete(r) ==
  /\ Is(r, "write") /\ task[r].by = "delete"
  /\ users' = [users EXCEPT ![task[r].user] = Nothing]
  /\ task' = Answered(r, TRUE)
  /\ UNCHANGED <<accounts, list, form, granted, held, welcomed, sent>>

\* A user saves the own profile.
Profile(r, u, email) ==
  /\ users[u] # Nothing
  /\ Send(r, Request("profile", "find", u, email, users[u].role))
  /\ UNCHANGED <<users, accounts, list, form, granted, held, welcomed>>

-----------------------------------------------------------------------------
(* The staff pages.                                                        *)

\* A request by a page is in flight and waited for: its button is disabled.
Busy(by) == \E r \in Requests : task[r] # Nothing /\ task[r].by = by /\ task[r].heard

\* "Create User"; the id is a new one.
Register(r, u, email, role) ==
  /\ held[u] = {} /\ \A s \in Requests : task[s] # Nothing => task[s].user # u
  /\ ~Busy("register")
  /\ Send(r, Request("register", "write", u, email, role))
  /\ UNCHANGED <<users, accounts, list, form, granted, held, welcomed>>

\* "All Users" is opened or reloaded: requests it sent before go on unheard.
Load ==
  /\ list' = users
  /\ form' = Nothing
  /\ task' = [r \in Requests |-> IF task[r] # Nothing /\ task[r].by \in {"edit", "delete"}
                                 THEN [task[r] EXCEPT !.heard = FALSE] ELSE task[r]]
  /\ UNCHANGED <<users, accounts, granted, held, welcomed, sent>>

\* The row has its buttons "Edit" and "Delete".
Listed(u) == list[u] # Nothing

\* openEdit, and closeEdit
Open(u) ==
  /\ form = Nothing /\ Listed(u)
  /\ form' = u
  /\ UNCHANGED <<users, accounts, task, list, granted, held, welcomed, sent>>

Close ==
  /\ form # Nothing
  /\ form' = Nothing
  /\ UNCHANGED <<users, accounts, task, list, granted, held, welcomed, sent>>

\* handleEditSubmit
Save(r, email, role) ==
  /\ form # Nothing /\ ~Busy("edit")
  /\ Send(r, Request("edit", "find", form, email, role))
  /\ UNCHANGED <<users, accounts, list, form, granted, held, welcomed>>

\* handleDelete, confirmed
RemoveUser(r, u) ==
  /\ form = Nothing /\ Listed(u) /\ ~Busy("delete")
  /\ Send(r, Request("delete", "find", u, list[u].email, list[u].role))
  /\ UNCHANGED <<users, accounts, list, form, granted, held, welcomed>>

\* Mutant.
PatchOpenForm(t) == IF form = Nothing THEN list ELSE [list EXCEPT ![form] = WholeRow(t)]

\* The list after a save: its answer may find another user's form open.
Patched(t) == [u \in Users |-> IF u = t.user /\ Listed(u) THEN WholeRow(t) ELSE list[u]]

\* The answer reaches the page, or nobody.  A save that worked closes the form, whosever it is.
Hear(r) ==
  /\ Is(r, "answer")
  /\ LET t == task[r]
     IN  IF ~t.heard \/ ~t.ok \/ t.by \in {"register", "profile"} THEN UNCHANGED <<list, form>>
         ELSE IF t.by = "edit" THEN list' = Patched(t) /\ form' = Nothing
         ELSE list' = [list EXCEPT ![t.user] = Nothing] /\ UNCHANGED form
  /\ task' = [task EXCEPT ![r] = Nothing]
  /\ UNCHANGED <<users, accounts, granted, held, welcomed, sent>>

\* The browser gives up after 10 seconds, a page or the gateway goes away; or
\* identity-service dies and does nothing more.
GiveUp(r) ==
  /\ task[r] # Nothing
  /\ \/ task[r].heard /\ task' = [task EXCEPT ![r].heard = FALSE]
     \/ task' = [task EXCEPT ![r] = Nothing]
  /\ UNCHANGED <<users, accounts, list, form, granted, held, welcomed, sent>>

-----------------------------------------------------------------------------

\* Some users are there already, customers with their accounts.
Init ==
  /\ users \in {rows \in [Users -> Row \cup {Nothing}] :
                  \A u, v \in Users : u # v /\ rows[u] # Nothing /\ rows[v] # Nothing
                                        => rows[u].email # rows[v].email}
  /\ accounts = {u \in Users : users[u] # Nothing /\ users[u].role = "customer"}
  /\ task = [r \in Requests |-> Nothing]
  /\ list = users
  /\ form = Nothing
  /\ granted = [u \in Users |-> IF users[u] = Nothing THEN "customer" ELSE users[u].role]
  /\ held = [u \in Users |-> IF users[u] = Nothing THEN {} ELSE {users[u]}]
  /\ welcomed = accounts
  /\ sent = 0

Serve(r) ==
  \/ Insert(r) \/ OpenAccount(r) \/ FailToOpen(r)
  \/ FindUser(r) \/ CheckEmail(r) \/ Update(r) \/ Delete(r)

Next ==
  \/ \E r \in Requests : Serve(r) \/ Hear(r) \/ GiveUp(r)
  \/ \E r \in Requests, u \in Users, email \in Emails, role \in Roles : Register(r, u, email, role)
  \/ \E r \in Requests, email \in Emails, role \in Roles : Save(r, email, role)
  \/ \E r \in Requests, u \in Users, email \in Emails : Profile(r, u, email)
  \/ \E r \in Requests, u \in Users : RemoveUser(r, u)
  \/ \E u \in Users : Open(u)
  \/ Close \/ Load

Spec == Init /\ [][Next]_vars

-----------------------------------------------------------------------------
(* Properties.                                                             *)

\* Every variable keeps its type.
TypeOK ==
  /\ users \in [Users -> Row \cup {Nothing}]
  /\ accounts \subseteq Users /\ welcomed \subseteq Users
  /\ task \in [Requests -> Task \cup {Nothing}]
  /\ list \in [Users -> Row \cup {Nothing}]
  /\ form \in Users \cup {Nothing}
  /\ granted \in [Users -> Roles]
  /\ held \in [Users -> SUBSET Row]
  /\ sent \in 0..MaxRequests

\* No two users share an email, however the checks and the writes of concurrent
\* requests interleave: staff look accounts up by it and people log in with it.
EmailsUnique ==
  \A u, v \in Users :
    u # v /\ users[u] # Nothing /\ users[v] # Nothing => users[u].email # users[v].email

\* A user's role is the one an administrator gave last: no save of a profile that
\* read the row earlier brings back a role, or lifts a suspension.
RoleIsGranted == \A u \in Users : users[u] # Nothing => users[u].role = granted[u]

\* An administrator who was told that a customer was created finds an account there.
WelcomedHaveAccounts == welcomed \subseteq accounts

\* What "All Users" shows of a user is a row that user has had: answers that come
\* late, when another user's form is open, do not end up in the wrong row.
ListIsFromTheDirectory == \A u \in Users : Listed(u) => list[u] \in held[u]

=============================================================================
