------------------------------ MODULE Sessions ------------------------------
(***************************************************************************)
(* services/identity-service: logins, rotating refresh tokens, and the     *)
(* changes an administrator makes to users meanwhile.                      *)
(*                                                                         *)
(* Every database statement commits by itself, so a request is a sequence  *)
(* of steps with other requests in between; what it read stays what it     *)
(* was.  A request that answers without touching the database any more is  *)
(* over.  Passwords are left out: a login is one whose password was right. *)
(*                                                                         *)
(* An operator marked "Mutant" is the definition below it with a plausible *)
(* bug; no specification uses it.                                          *)
(***************************************************************************)
EXTENDS Integers, Sequences

CONSTANTS
  Users,
  Roles,        \* of users.role
  Requests,     \* slots for requests in flight
  Gone,         \* no such row in users
  NoTask,
  MaxTokens,    \* bound: token pairs ever issued
  MaxEvents     \* bound: changes to users, expiries and crashes

ASSUME SessionsAssumption ==
  /\ Gone \notin [status : {"active", "suspended"}, role : Roles]
  /\ MaxTokens \in Nat /\ MaxEvents \in Nat

VARIABLES
  users,    \* the rows of users
  tokens,   \* the rows of refresh_tokens, in the order of their insertion
  task,     \* what each request is doing
  excused,  \* history: tokens logged out, swept, or lost by a crash
  events    \* counter behind the bound

vars == <<users, tokens, task, excused, events>>

Account == [status : {"active", "suspended"}, role : Roles]

\* role is that of the access token issued together with the refresh token,
\* parent the token it was exchanged for, 0 after a login.
Token == [user : Users, role : Roles, parent : 0..MaxTokens, revoked : BOOLEAN, expired : BOOLEAN]

\* row is the user as the request read it.  usedBefore and seen are history: was
\* the token revoked when the request began, which rows had the user since.
Task == [step : {"find", "user", "sweep", "revoke", "issue"}, user : Users,
         token : 0..MaxTokens, row : Account \cup {Gone}, usedBefore : BOOLEAN,
         seen : SUBSET (Account \cup {Gone})]

ASSUME NoTaskAssumption == NoTask \notin Task

-----------------------------------------------------------------------------

\* login: the row, the password and the status are right.
Login(r, u) ==
  /\ task[r] = NoTask
  /\ users[u] # Gone
  /\ users[u].status = "active"
  /\ task' = [task EXCEPT ![r] = [step |-> "issue", user |-> u, token |-> 0, row |-> users[u],
                                  usedBefore |-> FALSE, seen |-> {users[u]}]]
  /\ UNCHANGED <<users, tokens, excused, events>>

\* refresh: jwt.verify accepts the token.
Refresh(r, t) ==
  /\ task[r] = NoTask
  /\ ~tokens[t].expired
  /\ task' = [task EXCEPT ![r] = [step |-> "find", user |-> tokens[t].user, token |-> t,
                                  row |-> Gone, usedBefore |-> tokens[t].revoked,
                                  seen |-> {users[tokens[t].user]}]]
  /\ UNCHANGED <<users, tokens, excused, events>>

\* Mutant.
ActiveUnlessExpired(t) == ~tokens[t].expired

\* findActive
Active(t) == ~tokens[t].revoked /\ ~tokens[t].expired

\* Mutant.
FindAndRevoke(r) ==
  /\ task[r] # NoTask /\ task[r].step = "find"
  /\ tokens' = [tokens EXCEPT ![task[r].token].revoked = TRUE]
  /\ task' = [task EXCEPT ![r].step = IF Active(task[r].token) THEN "user" ELSE "sweep"]
  /\ UNCHANGED <<users, excused, events>>

\* A token that is not active was used before: the user's tokens are swept.
Find(r) ==
  /\ task[r] # NoTask /\ task[r].step = "find"
  /\ task' = [task EXCEPT ![r].step = IF Active(task[r].token) THEN "user" ELSE "sweep"]
  /\ UNCHANGED <<users, tokens, excused, events>>

\* What to do with a user who is there.
StepFor(row) == IF row.status = "active" THEN "revoke" ELSE "sweep"

\* findById: the user may be gone, suspended or active.
ReadUser(r) ==
  /\ task[r] # NoTask /\ task[r].step = "user"
  /\ LET row == users[task[r].user]
     IN  task' = [task EXCEPT ![r] = IF row = Gone THEN NoTask
                                     ELSE [@ EXCEPT !.row = row, !.step = StepFor(row)]]
  /\ UNCHANGED <<users, tokens, excused, events>>

\* The rows revokeAllForUser updates.
Swept(u) == {t \in DOMAIN tokens : tokens[t].user = u /\ ~tokens[t].revoked}

RevokeAll(r) ==
  /\ task[r] # NoTask /\ task[r].step = "sweep"
  /\ LET u == task[r].user
     IN  /\ tokens' = [t \in DOMAIN tokens |-> [tokens[t] EXCEPT !.revoked = @ \/ t \in Swept(u)]]
         /\ excused' = excused \cup {t \in DOMAIN tokens : tokens[t].user = u}
  /\ task' = [task EXCEPT ![r] = NoTask]
  /\ UNCHANGED <<users, events>>

\* revoke, the first half of a rotation
RevokeOld(r) ==
  /\ task[r] # NoTask /\ task[r].step = "revoke"
  /\ tokens' = [tokens EXCEPT ![task[r].token].revoked = TRUE]
  /\ task' = [task EXCEPT ![r].step = "issue"]
  /\ UNCHANGED <<users, excused, events>>

\* issueTokenPair
Issue(r) ==
  /\ task[r] # NoTask /\ task[r].step = "issue"
  /\ Len(tokens) < MaxTokens
  /\ tokens' = Append(tokens, [user |-> task[r].user, role |-> task[r].row.role,
                               parent |-> task[r].token, revoked |-> FALSE, expired |-> FALSE])
  /\ task' = [task EXCEPT ![r] = NoTask]
  /\ UNCHANGED <<users, excused, events>>

Logout(t) ==
  /\ tokens' = [tokens EXCEPT ![t].revoked = TRUE]
  /\ excused' = excused \cup {t}
  /\ UNCHANGED <<users, task, events>>

\* updateUser changes role or status, deleteUser removes the row; the rows of
\* refresh_tokens stay.
ChangeUser(u, row) ==
  /\ users[u] # Gone
  /\ events < MaxEvents
  /\ events' = events + 1
  /\ users' = [users EXCEPT ![u] = row]
  /\ task' = [r \in Requests |-> IF task[r] # NoTask /\ task[r].user = u
                                 THEN [task[r] EXCEPT !.seen = @ \cup {row}] ELSE task[r]]
  /\ UNCHANGED <<tokens, excused>>

\* Time passes: the token's exp and its expires_at.
Expire(t) ==
  /\ ~tokens[t].expired
  /\ events < MaxEvents
  /\ events' = events + 1
  /\ tokens' = [tokens EXCEPT ![t].expired = TRUE]
  /\ UNCHANGED <<users, task, excused>>

\* The process dies or a statement fails.  A rotation cut in half leaves the old
\* token revoked and no new one.
Crash(r) ==
  /\ task[r] # NoTask
  /\ events < MaxEvents
  /\ events' = events + 1
  /\ task' = [task EXCEPT ![r] = NoTask]
  /\ excused' = IF task[r].step = "issue" THEN excused \cup {task[r].token} ELSE excused
  /\ UNCHANGED <<users, tokens>>

-----------------------------------------------------------------------------

Init ==
  /\ users \in [Users -> [status : {"active"}, role : Roles]]
  /\ tokens = <<>>
  /\ task = [r \in Requests |-> NoTask]
  /\ excused = {}
  /\ events = 0

Proceed(r) == Find(r) \/ ReadUser(r) \/ RevokeAll(r) \/ RevokeOld(r) \/ Issue(r)

Next ==
  \/ \E r \in Requests, u \in Users : Login(r, u)
  \/ \E r \in Requests, t \in DOMAIN tokens : Refresh(r, t)
  \/ \E r \in Requests : Proceed(r) \/ Crash(r)
  \/ \E t \in DOMAIN tokens : Logout(t) \/ Expire(t)
  \/ \E u \in Users, row \in Account \cup {Gone} : ChangeUser(u, row)

Spec == Init /\ [][Next]_vars

-----------------------------------------------------------------------------
(* Properties.                                                             *)

\* Every variable keeps its type, a token's parent is older than itself, and a
\* rotation knows the user it is for.
TypeOK ==
  /\ users \in [Users -> Account \cup {Gone}]
  /\ tokens \in Seq(Token) /\ Len(tokens) <= MaxTokens
  /\ \A t \in DOMAIN tokens : tokens[t].parent < t
  /\ task \in [Requests -> Task \cup {NoTask}]
  /\ \A r \in Requests : task[r] # NoTask =>
       /\ task[r].token <= Len(tokens)
       /\ task[r].step \in {"revoke", "issue"} => task[r].row # Gone
  /\ excused \subseteq DOMAIN tokens \cup {0}
  /\ events \in 0..MaxEvents

\* Whoever gets a pair was, at some moment of the request, an active user with the
\* role the access token names; and a refresh token that was used, logged out or
\* swept before a request began never gets that request one: only requests that
\* overlap can share a token.
PairIsDue ==
  [][\A r \in Requests :
       Issue(r) => /\ ~task[r].usedBefore
                   /\ [status |-> "active", role |-> tokens'[Len(tokens')].role]
                        \in task[r].seen]_vars

\* A token is revoked for a reason: it was exchanged for another one, or a request is
\* at work on it, or it was logged out, swept with its user's others, or lost by a crash.
RevokedForAReason ==
  \A t \in DOMAIN tokens :
    tokens[t].revoked =>
      \/ \E child \in DOMAIN tokens : tokens[child].parent = t
      \/ \E r \in Requests : task[r] # NoTask /\ task[r].token = t
      \/ t \in excused

=============================================================================
