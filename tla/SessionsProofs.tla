--------------------------- MODULE SessionsProofs ---------------------------
(***************************************************************************)
(* Proofs about Sessions: a pair goes only to whom it is due, and every    *)
(* revocation has its reason, for any users, requests and tokens, and any  *)
(* interleaving of their statements.                                       *)
(***************************************************************************)
EXTENDS Sessions, SequenceTheorems, TLAPS

\* What a request that is under way knows.
Fine(k) ==
  /\ users[k.user] \in k.seen
  /\ k.usedBefore => k.token \in DOMAIN tokens /\ tokens[k.token].revoked
  /\ k.step \in {"user", "revoke", "issue"} => ~k.usedBefore
  /\ k.step \in {"revoke", "issue"} => k.row \in k.seen /\ k.row.status = "active"

TasksFine == \A r \in Requests : task[r] # NoTask => Fine(task[r])

\* The reasons of RevokedForAReason that stay: a request that has not revoked the
\* token itself is none.
Issuing(r, t) == task[r] # NoTask /\ task[r].step = "issue" /\ task[r].token = t

Owed(t) ==
  \/ \E child \in DOMAIN tokens : tokens[child].parent = t
  \/ \E r \in Requests : Issuing(r, t)
  \/ t \in excused

RevocationsOwed == \A t \in DOMAIN tokens : tokens[t].revoked => Owed(t)

Inv == TypeOK /\ TasksFine /\ RevocationsOwed

-----------------------------------------------------------------------------
(* Lemmas.                                                                 *)

\* What the types say of the tokens and of a request that is under way.
LEMMA Reads ==
  ASSUME TypeOK
  PROVE  /\ Len(tokens) \in Nat /\ DOMAIN tokens = 1..Len(tokens)
         /\ tokens \in [1..Len(tokens) -> Token]
         /\ \A t \in DOMAIN tokens : tokens[t] \in Token
         /\ \A r \in Requests : task[r] # NoTask => task[r] \in Task
  BY LenProperties DEF TypeOK

\* Tokens are never unrevoked, and keep their parents.
TokensStay ==
  /\ DOMAIN tokens \subseteq DOMAIN tokens'
  /\ \A t \in DOMAIN tokens : /\ tokens[t].revoked => tokens'[t].revoked
                              /\ tokens'[t].parent = tokens[t].parent

\* A step of request r leaves the others as they were.
LEMMA OthersStayFine ==
  ASSUME Inv, NEW r \in Requests, TokensStay, UNCHANGED users,
         \A q \in Requests \ {r} : task'[q] = task[q],
         task'[r] # NoTask => Fine(task[r])'
  PROVE  TasksFine'
<1> SUFFICES ASSUME NEW q \in Requests, task'[q] # NoTask
             PROVE  Fine(task[q])'
  BY DEF TasksFine
<1>1. CASE q = r
  BY <1>1
<1>2. CASE q # r
  <2>1. task'[q] = task[q] /\ Fine(task[q])
    BY <1>2 DEF Inv, TasksFine
  <2> QED BY <2>1 DEF Fine, TokensStay
<1> QED BY <1>1, <1>2

\* Updates of rows that keep the parents.
LEMMA RowsUpdated ==
  ASSUME TypeOK, tokens' \in [DOMAIN tokens -> Token],
         \A t \in DOMAIN tokens : tokens'[t].parent = tokens[t].parent
  PROVE  /\ tokens' \in Seq(Token) /\ Len(tokens') = Len(tokens)
         /\ DOMAIN tokens' = DOMAIN tokens
         /\ \A t \in DOMAIN tokens' : tokens'[t].parent < t
<1>1. DOMAIN tokens = 1..Len(tokens) /\ Len(tokens) \in Nat
  BY Reads
<1>2. tokens' \in Seq(Token) /\ DOMAIN tokens' = 1..Len(tokens)
  BY <1>1, SeqDef
<1>3. Len(tokens') = Len(tokens)
  BY <1>1, <1>2, LenProperties
<1> QED BY <1>1, <1>2, <1>3 DEF TypeOK

\* What was owed stays owed: who was issuing still is, or has issued, or is excused.
LEMMA OwedStays ==
  ASSUME NEW t, Owed(t), TokensStay, excused \subseteq excused',
         \A r \in Requests : Issuing(r, t) => Issuing(r, t)' \/ Owed(t)'
  PROVE  Owed(t)'
  BY DEF Owed, TokensStay

-----------------------------------------------------------------------------
(* Requests.                                                               *)

LEMMA LoginInv ==
  ASSUME Inv, NEW r \in Requests, NEW u \in Users, Login(r, u)
  PROVE  Inv'
<1>1. /\ TypeOK /\ UNCHANGED <<users, tokens, excused, events>>
      /\ task[r] = NoTask /\ users[u] \in Account /\ users[u].status = "active"
  BY DEF Inv, TypeOK, Login, Account
<1> DEFINE new == [step |-> "issue", user |-> u, token |-> 0, row |-> users[u],
                   usedBefore |-> FALSE, seen |-> {users[u]}]
<1>2. new \in Task
  BY <1>1, SessionsAssumption DEF Task
<1>3. task' = [task EXCEPT ![r] = new]
  BY DEF Login
<1>4. /\ new.step = "issue" /\ new.user = u /\ new.token = 0 /\ new.row = users[u]
      /\ ~new.usedBefore /\ new.seen = {users[u]}
  OBVIOUS
<1> HIDE DEF new
<1>5. task'[r] = new /\ \A q \in Requests \ {r} : task'[q] = task[q]
  BY <1>1, <1>3 DEF TypeOK
<1>6. TypeOK'
  <2>1. users[u] # Gone /\ 0 <= Len(tokens)
    BY <1>1, SessionsAssumption, Reads DEF Account
  <2> QED BY <1>1, <1>2, <1>3, <1>4, <1>5, <2>1 DEF TypeOK
<1>7. TasksFine'
  <2>1. Fine(task[r])'
    BY <1>1, <1>4, <1>5 DEF Fine
  <2> QED BY <1>1, <1>5, <2>1, OthersStayFine DEF TokensStay
<1>8. RevocationsOwed'
  <2> SUFFICES ASSUME NEW t \in DOMAIN tokens, Owed(t)
               PROVE  Owed(t)'
    BY <1>1 DEF Inv, RevocationsOwed
  <2>1. \A q \in Requests : Issuing(q, t) => Issuing(q, t)'
    BY <1>1, <1>5 DEF Issuing
  <2> QED BY <1>1, <2>1, OwedStays DEF TokensStay
<1> QED BY <1>6, <1>7, <1>8 DEF Inv

LEMMA RefreshInv ==
  ASSUME Inv, NEW r \in Requests, NEW t \in DOMAIN tokens, Refresh(r, t)
  PROVE  Inv'
<1>1. /\ TypeOK /\ UNCHANGED <<users, tokens, excused, events>>
      /\ task[r] = NoTask /\ tokens[t] \in Token /\ t \in 1..Len(tokens)
  BY Reads DEF Inv, Refresh
<1> DEFINE new == [step |-> "find", user |-> tokens[t].user, token |-> t, row |-> Gone,
                   usedBefore |-> tokens[t].revoked, seen |-> {users[tokens[t].user]}]
<1>2. new \in Task
  <2>1. tokens[t].user \in Users /\ tokens[t].revoked \in BOOLEAN
    BY <1>1 DEF Token
  <2>2. users[tokens[t].user] \in Account \cup {Gone}
    BY <1>1, <2>1 DEF TypeOK
  <2>3. t \in 0..MaxTokens
    BY <1>1, SessionsAssumption, Reads DEF TypeOK
  <2> QED BY <2>1, <2>2, <2>3 DEF Task
<1>3. task' = [task EXCEPT ![r] = new]
  BY DEF Refresh
<1>4. /\ new.step = "find" /\ new.user = tokens[t].user /\ new.token = t
      /\ new.usedBefore = tokens[t].revoked /\ new.seen = {users[tokens[t].user]}
  OBVIOUS
<1> HIDE DEF new
<1>5. task'[r] = new /\ \A q \in Requests \ {r} : task'[q] = task[q]
  BY <1>1, <1>3 DEF TypeOK
<1>6. TypeOK'
  BY <1>1, <1>2, <1>3, <1>4, <1>5 DEF TypeOK
<1>7. TasksFine'
  <2>1. Fine(task[r])'
    BY <1>1, <1>4, <1>5 DEF Fine
  <2> QED BY <1>1, <1>5, <2>1, OthersStayFine DEF TokensStay
<1>8. RevocationsOwed'
  <2> SUFFICES ASSUME NEW x \in DOMAIN tokens, Owed(x)
               PROVE  Owed(x)'
    BY <1>1 DEF Inv, RevocationsOwed
  <2>1. \A q \in Requests : Issuing(q, x) => Issuing(q, x)'
    BY <1>1, <1>5 DEF Issuing
  <2> QED BY <1>1, <2>1, OwedStays DEF TokensStay
<1> QED BY <1>6, <1>7, <1>8 DEF Inv

\* A request that goes on to step "issue" or ends for another reason than a crash
\* or its pair disturbs nothing that was owed.
LEMMA TaskMoves ==
  ASSUME Inv, NEW r \in Requests, task[r] # NoTask, task[r].step # "issue",
         UNCHANGED <<users, tokens, excused, events>>,
         NEW new \in Task \cup {NoTask}, task' = [task EXCEPT ![r] = new],
         new # NoTask => /\ new.token <= Len(tokens)
                         /\ new.step \in {"revoke", "issue"} => new.row # Gone
                         /\ Fine(new)
  PROVE  Inv'
<1>1. TypeOK /\ task'[r] = new /\ \A q \in Requests \ {r} : task'[q] = task[q]
  BY DEF Inv, TypeOK
<1>2. TypeOK'
  BY <1>1 DEF TypeOK
<1>3. TasksFine'
  <2>1. task'[r] # NoTask => Fine(task[r])'
    BY <1>1 DEF Fine
  <2> QED BY <1>1, <2>1, OthersStayFine DEF TokensStay
<1>4. RevocationsOwed'
  <2> SUFFICES ASSUME NEW t \in DOMAIN tokens, Owed(t)
               PROVE  Owed(t)'
    BY DEF Inv, RevocationsOwed
  <2>1. \A q \in Requests : Issuing(q, t) => Issuing(q, t)'
    BY <1>1 DEF Issuing
  <2> QED BY <2>1, OwedStays DEF TokensStay
<1> QED BY <1>2, <1>3, <1>4 DEF Inv

LEMMA FindInv ==
  ASSUME Inv, NEW r \in Requests, Find(r)
  PROVE  Inv'
<1> DEFINE k   == task[r]
           new == [k EXCEPT !.step = IF Active(k.token) THEN "user" ELSE "sweep"]
<1>1. /\ TypeOK /\ k # NoTask /\ k \in Task /\ k.step = "find" /\ Fine(k)
      /\ k.token <= Len(tokens)
  BY Reads DEF Inv, TypeOK, TasksFine, Find
<1>2. task' = [task EXCEPT ![r] = new] /\ UNCHANGED <<users, tokens, excused, events>>
  BY DEF Find
<1>3. /\ new \in Task
      /\ new.step = (IF Active(k.token) THEN "user" ELSE "sweep")
      /\ new.user = k.user /\ new.token = k.token /\ new.usedBefore = k.usedBefore
      /\ new.seen = k.seen
  BY <1>1 DEF Task
<1> HIDE DEF new
<1>4. Fine(new)
  BY <1>1, <1>3 DEF Fine, Active
<1> QED BY <1>1, <1>2, <1>3, <1>4, TaskMoves

LEMMA ReadUserInv ==
  ASSUME Inv, NEW r \in Requests, ReadUser(r)
  PROVE  Inv'
<1> DEFINE k   == task[r]
           row == users[k.user]
           new == IF row = Gone THEN NoTask
                  ELSE [k EXCEPT !.row = row, !.step = StepFor(row)]
<1>1. /\ TypeOK /\ k # NoTask /\ k \in Task /\ k.step = "user" /\ Fine(k)
      /\ k.token <= Len(tokens)
  BY Reads DEF Inv, TypeOK, TasksFine, ReadUser
<1>2. row \in Account \cup {Gone} /\ row \in k.seen
  BY <1>1 DEF TypeOK, Task, Fine
<1>3. task' = [task EXCEPT ![r] = new] /\ UNCHANGED <<users, tokens, excused, events>>
  BY DEF ReadUser
<1>4. CASE row = Gone
  BY <1>1, <1>3, <1>4, TaskMoves
<1>5. CASE row # Gone
  <2>1. /\ new \in Task
        /\ new.step = StepFor(row) /\ new.row = row
        /\ new.user = k.user /\ new.token = k.token /\ new.usedBefore = k.usedBefore
        /\ new.seen = k.seen
    BY <1>1, <1>2, <1>5 DEF Task, StepFor
  <2> HIDE DEF new
  <2>2. Fine(new)
    BY <1>1, <1>2, <2>1 DEF Fine, StepFor
  <2> QED BY <1>1, <1>3, <1>5, <2>1, <2>2, TaskMoves
<1> QED BY <1>4, <1>5

\* A request ends with its step, and what it was issuing for is owed otherwise.
LEMMA TaskEnds ==
  ASSUME Inv, TypeOK', TokensStay, UNCHANGED users, excused \subseteq excused',
         NEW r \in Requests, task[r] # NoTask, task' = [task EXCEPT ![r] = NoTask],
         \A t : Issuing(r, t) => Owed(t)',
         \A t \in DOMAIN tokens' : tokens'[t].revoked =>
            (t \in DOMAIN tokens /\ tokens[t].revoked) \/ t \in excused'
  PROVE  Inv'
<1>1. TypeOK /\ task'[r] = NoTask /\ \A q \in Requests \ {r} : task'[q] = task[q]
  BY DEF Inv, TypeOK
<1>2. TasksFine'
  BY <1>1, OthersStayFine
<1>3. RevocationsOwed'
  <2> SUFFICES ASSUME NEW t \in DOMAIN tokens', tokens'[t].revoked
               PROVE  Owed(t)'
    BY DEF RevocationsOwed
  <2>1. CASE t \in excused'
    BY <2>1 DEF Owed
  <2>2. CASE t \in DOMAIN tokens /\ tokens[t].revoked
    <3>1. Owed(t)
      BY <2>2 DEF Inv, RevocationsOwed
    <3>2. \A q \in Requests \ {r} : Issuing(q, t) => Issuing(q, t)'
      BY <1>1 DEF Issuing
    <3> QED BY <3>1, <3>2, OwedStays
  <2> QED BY <2>1, <2>2
<1> QED BY <1>2, <1>3 DEF Inv

LEMMA RevokeAllInv ==
  ASSUME Inv, NEW r \in Requests, RevokeAll(r)
  PROVE  Inv'
<1> DEFINE u == task[r].user
<1>1. /\ TypeOK /\ task[r] # NoTask /\ task[r].step = "sweep"
      /\ task' = [task EXCEPT ![r] = NoTask] /\ UNCHANGED <<users, events>>
      /\ tokens' = [t \in DOMAIN tokens |-> [tokens[t] EXCEPT !.revoked = @ \/ t \in Swept(u)]]
      /\ excused' = excused \cup {t \in DOMAIN tokens : tokens[t].user = u}
  BY DEF Inv, RevokeAll
<1>2. \A t \in DOMAIN tokens :
        /\ tokens'[t] \in Token
        /\ tokens'[t].parent = tokens[t].parent
        /\ tokens'[t].revoked = (tokens[t].revoked \/ t \in Swept(u))
  BY <1>1, Reads DEF Token
<1>3. tokens' \in [DOMAIN tokens -> Token]
  BY <1>1, <1>2
<1>4. /\ tokens' \in Seq(Token) /\ Len(tokens') = Len(tokens)
      /\ DOMAIN tokens' = DOMAIN tokens
      /\ \A t \in DOMAIN tokens' : tokens'[t].parent < t
  BY <1>1, <1>2, <1>3, RowsUpdated
<1>5. TokensStay
  BY <1>2, <1>4 DEF TokensStay
<1>6. TypeOK'
  BY <1>1, <1>4 DEF TypeOK
<1>7. \A t \in DOMAIN tokens' : tokens'[t].revoked => tokens[t].revoked \/ t \in excused'
  BY <1>1, <1>2, <1>4 DEF Swept
<1>8. \A t : ~Issuing(r, t)
  BY <1>1 DEF Issuing
<1> QED BY <1>1, <1>4, <1>5, <1>6, <1>7, <1>8, TaskEnds

LEMMA IssueInv ==
  ASSUME Inv, NEW r \in Requests, Issue(r)
  PROVE  Inv'
<1> DEFINE k   == task[r]
           new == [user |-> k.user, role |-> k.row.role, parent |-> k.token,
                   revoked |-> FALSE, expired |-> FALSE]
<1>1. /\ TypeOK /\ k # NoTask /\ k \in Task /\ k.step = "issue"
      /\ k.token <= Len(tokens) /\ k.row # Gone
      /\ Len(tokens) < MaxTokens
      /\ task' = [task EXCEPT ![r] = NoTask] /\ UNCHANGED <<users, excused, events>>
      /\ tokens' = Append(tokens, new)
  BY Reads DEF Inv, TypeOK, Issue
<1>2. /\ new \in Token /\ new.parent = k.token /\ new.revoked = FALSE
  BY <1>1 DEF Task, Token, Account
<1> HIDE DEF new
<1>3. /\ tokens' \in Seq(Token) /\ Len(tokens') = Len(tokens) + 1
      /\ DOMAIN tokens' = DOMAIN tokens \cup {Len(tokens) + 1}
      /\ tokens'[Len(tokens) + 1] = new /\ \A t \in DOMAIN tokens : tokens'[t] = tokens[t]
  BY <1>1, <1>2, Reads DEF TypeOK
<1>4. TokensStay
  BY <1>3 DEF TokensStay
<1>5. TypeOK'
  <2>1. \A t \in DOMAIN tokens' : tokens'[t].parent < t
    BY <1>1, <1>2, <1>3, Reads DEF TypeOK, Task
  <2>2. Len(tokens') <= MaxTokens
    BY <1>1, <1>3, SessionsAssumption, Reads
  <2>3. \A q \in Requests : task'[q] # NoTask =>
          /\ task'[q].token <= Len(tokens')
          /\ task'[q].step \in {"revoke", "issue"} => task'[q].row # Gone
    <3> SUFFICES ASSUME NEW q \in Requests, task'[q] # NoTask
                 PROVE  /\ task'[q].token <= Len(tokens')
                        /\ task'[q].step \in {"revoke", "issue"} => task'[q].row # Gone
      OBVIOUS
    <3>1. task'[q] = task[q] /\ task[q] \in Task
      BY <1>1, Reads DEF TypeOK
    <3>2. task[q].token <= Len(tokens) /\ task[q].token \in Int /\ Len(tokens) \in Nat
      BY <1>1, <3>1, Reads, SessionsAssumption DEF TypeOK, Task
    <3> QED BY <1>1, <1>3, <3>1, <3>2 DEF TypeOK
  <2> QED BY <1>1, <1>3, <2>1, <2>2, <2>3 DEF TypeOK
<1>6. \A t : Issuing(r, t) => Owed(t)'
  BY <1>2, <1>3 DEF Owed, Issuing
<1>7. \A t \in DOMAIN tokens' : tokens'[t].revoked => t \in DOMAIN tokens /\ tokens[t].revoked
  BY <1>2, <1>3
<1> QED BY <1>1, <1>4, <1>5, <1>6, <1>7, TaskEnds

LEMMA CrashInv ==
  ASSUME Inv, NEW r \in Requests, Crash(r)
  PROVE  Inv'
<1>1. /\ TypeOK /\ task[r] # NoTask /\ task[r] \in Task /\ task[r].token <= Len(tokens)
      /\ task' = [task EXCEPT ![r] = NoTask] /\ UNCHANGED <<users, tokens>>
      /\ events < MaxEvents /\ events' = events + 1
      /\ excused' = IF task[r].step = "issue" THEN excused \cup {task[r].token} ELSE excused
  BY Reads DEF Inv, TypeOK, Crash
<1>2. TypeOK'
  <2>1. task[r].token \in DOMAIN tokens \cup {0}
    BY <1>1, Reads, SessionsAssumption DEF Task
  <2>2. events' \in 0..MaxEvents
    BY <1>1, SessionsAssumption DEF TypeOK
  <2> QED BY <1>1, <2>1, <2>2 DEF TypeOK
<1>3. TokensStay
  BY <1>1 DEF TokensStay
<1>4. \A t : Issuing(r, t) => Owed(t)'
  BY <1>1 DEF Owed, Issuing
<1> QED BY <1>1, <1>2, <1>3, <1>4, TaskEnds

\* The first half of a rotation: the request is now the reason.
LEMMA RevokeOldInv ==
  ASSUME Inv, NEW r \in Requests, RevokeOld(r)
  PROVE  Inv'
<1> DEFINE k   == task[r]
           new == [k EXCEPT !.step = "issue"]
<1>1. /\ TypeOK /\ k # NoTask /\ k \in Task /\ k.step = "revoke" /\ Fine(k)
      /\ k.token <= Len(tokens) /\ k.row # Gone
      /\ task' = [task EXCEPT ![r] = new] /\ UNCHANGED <<users, excused, events>>
      /\ tokens' = [tokens EXCEPT ![k.token].revoked = TRUE]
  BY Reads DEF Inv, TypeOK, TasksFine, RevokeOld
<1>2. /\ new \in Task /\ new # NoTask /\ new.step = "issue"
      /\ new.user = k.user /\ new.token = k.token /\ new.usedBefore = k.usedBefore
      /\ new.seen = k.seen /\ new.row = k.row
  BY <1>1, NoTaskAssumption DEF Task
<1> HIDE DEF new
<1>3. task'[r] = new /\ \A q \in Requests \ {r} : task'[q] = task[q]
  BY <1>1 DEF TypeOK
<1>4. \A t \in DOMAIN tokens :
        /\ tokens'[t] \in Token
        /\ tokens'[t].parent = tokens[t].parent
        /\ tokens'[t].revoked = (tokens[t].revoked \/ t = k.token)
  BY <1>1, Reads DEF Token
<1>5. tokens' \in [DOMAIN tokens -> Token]
  BY <1>1, <1>4, Reads
<1>6. /\ tokens' \in Seq(Token) /\ Len(tokens') = Len(tokens)
      /\ DOMAIN tokens' = DOMAIN tokens
      /\ \A t \in DOMAIN tokens' : tokens'[t].parent < t
  BY <1>1, <1>4, <1>5, RowsUpdated
<1>7. TypeOK'
  BY <1>1, <1>2, <1>3, <1>6 DEF TypeOK
<1>8. TokensStay
  BY <1>4, <1>6 DEF TokensStay
<1>9. TasksFine'
  <2>1. Fine(task[r])'
    BY <1>1, <1>2, <1>3, <1>8 DEF Fine, TokensStay
  <2> QED BY <1>1, <1>3, <1>8, <2>1, OthersStayFine
<1>10. RevocationsOwed'
  <2> SUFFICES ASSUME NEW t \in DOMAIN tokens, tokens'[t].revoked
               PROVE  Owed(t)'
    BY <1>6 DEF RevocationsOwed
  <2>1. CASE t = k.token
    BY <1>2, <1>3, <2>1 DEF Owed, Issuing
  <2>2. CASE t # k.token
    <3>1. Owed(t)
      BY <1>4, <2>2 DEF Inv, RevocationsOwed
    <3>2. \A q \in Requests : Issuing(q, t) => Issuing(q, t)'
      BY <1>1, <1>2, <1>3 DEF Issuing
    <3> QED BY <1>1, <1>8, <3>1, <3>2, OwedStays
  <2> QED BY <2>1, <2>2
<1> QED BY <1>7, <1>9, <1>10 DEF Inv

-----------------------------------------------------------------------------
(* What happens meanwhile.                                                 *)

\* Rows of tokens change, and no request does.
LEMMA TokensChange ==
  ASSUME Inv, UNCHANGED <<users, task>>, TypeOK', TokensStay, excused \subseteq excused',
         DOMAIN tokens' = DOMAIN tokens,
         \A t \in DOMAIN tokens : tokens'[t].revoked => tokens[t].revoked \/ t \in excused'
  PROVE  Inv'
<1>1. TasksFine'
  <2> SUFFICES ASSUME NEW q \in Requests, task[q] # NoTask
               PROVE  Fine(task[q])'
    BY DEF TasksFine
  <2>1. Fine(task[q])
    BY DEF Inv, TasksFine
  <2> QED BY <2>1 DEF Fine, TokensStay
<1>2. RevocationsOwed'
  <2> SUFFICES ASSUME NEW t \in DOMAIN tokens, tokens'[t].revoked
               PROVE  Owed(t)'
    BY DEF RevocationsOwed
  <2>1. CASE t \in excused'
    BY <2>1 DEF Owed
  <2>2. CASE tokens[t].revoked
    <3>1. Owed(t)
      BY <2>2 DEF Inv, RevocationsOwed
    <3>2. \A q \in Requests : Issuing(q, t) => Issuing(q, t)'
      BY DEF Issuing
    <3> QED BY <3>1, <3>2, OwedStays
  <2> QED BY <2>1, <2>2
<1> QED BY <1>1, <1>2 DEF Inv

LEMMA LogoutInv ==
  ASSUME Inv, NEW t \in DOMAIN tokens, Logout(t)
  PROVE  Inv'
<1>1. /\ TypeOK /\ UNCHANGED <<users, task, events>> /\ excused' = excused \cup {t}
      /\ tokens' = [tokens EXCEPT ![t].revoked = TRUE]
  BY DEF Inv, Logout
<1>2. \A x \in DOMAIN tokens :
        /\ tokens'[x] \in Token
        /\ tokens'[x].parent = tokens[x].parent
        /\ tokens'[x].revoked = (tokens[x].revoked \/ x = t)
  BY <1>1, Reads DEF Token
<1>3. tokens' \in [DOMAIN tokens -> Token]
  BY <1>1, <1>2, Reads
<1>4. /\ tokens' \in Seq(Token) /\ Len(tokens') = Len(tokens)
      /\ DOMAIN tokens' = DOMAIN tokens
      /\ \A x \in DOMAIN tokens' : tokens'[x].parent < x
  BY <1>1, <1>2, <1>3, RowsUpdated
<1>5. TypeOK'
  BY <1>1, <1>4 DEF TypeOK
<1>6. TokensStay
  BY <1>2, <1>4 DEF TokensStay
<1> QED BY <1>1, <1>2, <1>4, <1>5, <1>6, TokensChange

LEMMA ExpireInv ==
  ASSUME Inv, NEW t \in DOMAIN tokens, Expire(t)
  PROVE  Inv'
<1>1. /\ TypeOK /\ UNCHANGED <<users, task, excused>>
      /\ events < MaxEvents /\ events' = events + 1
      /\ tokens' = [tokens EXCEPT ![t].expired = TRUE]
  BY DEF Inv, Expire
<1>2. \A x \in DOMAIN tokens :
        /\ tokens'[x] \in Token
        /\ tokens'[x].parent = tokens[x].parent
        /\ tokens'[x].revoked = tokens[x].revoked
  BY <1>1, Reads DEF Token
<1>3. tokens' \in [DOMAIN tokens -> Token]
  BY <1>1, <1>2, Reads
<1>4. /\ tokens' \in Seq(Token) /\ Len(tokens') = Len(tokens)
      /\ DOMAIN tokens' = DOMAIN tokens
      /\ \A x \in DOMAIN tokens' : tokens'[x].parent < x
  BY <1>1, <1>2, <1>3, RowsUpdated
<1>5. TypeOK'
  <2>1. events' \in 0..MaxEvents
    BY <1>1, SessionsAssumption DEF TypeOK
  <2> QED BY <1>1, <1>4, <2>1 DEF TypeOK
<1>6. TokensStay
  BY <1>2, <1>4 DEF TokensStay
<1> QED BY <1>1, <1>2, <1>4, <1>5, <1>6, TokensChange

\* Whoever is at work on the user may have seen the new row.
LEMMA ChangeUserInv ==
  ASSUME Inv, NEW u \in Users, NEW row \in Account \cup {Gone}, ChangeUser(u, row)
  PROVE  Inv'
<1>1. /\ TypeOK /\ UNCHANGED <<tokens, excused>>
      /\ events < MaxEvents /\ events' = events + 1
      /\ users' = [users EXCEPT ![u] = row]
  BY DEF Inv, ChangeUser
<1>2. \A q \in Requests :
        task'[q] = IF task[q] # NoTask /\ task[q].user = u
                   THEN [task[q] EXCEPT !.seen = @ \cup {row}] ELSE task[q]
  BY DEF ChangeUser
<1>3. ASSUME NEW q \in Requests, task'[q] # NoTask
      PROVE  /\ task[q] # NoTask /\ task[q] \in Task /\ task'[q] \in Task
             /\ task'[q].step = task[q].step /\ task'[q].user = task[q].user
             /\ task'[q].token = task[q].token /\ task'[q].row = task[q].row
             /\ task'[q].usedBefore = task[q].usedBefore
             /\ task[q].seen \subseteq task'[q].seen
             /\ task[q].user = u => row \in task'[q].seen
  <2>1. task[q] # NoTask /\ task[q] \in Task
    BY <1>1, <1>2, <1>3, Reads
  <2>2. CASE task[q].user = u
    <3>1. task'[q] = [task[q] EXCEPT !.seen = task[q].seen \cup {row}]
      BY <1>2, <2>1, <2>2
    <3>2. task[q].seen \cup {row} \in SUBSET (Account \cup {Gone})
      BY <2>1 DEF Task
    <3> QED BY <2>1, <3>1, <3>2 DEF Task
  <2>3. CASE task[q].user # u
    BY <1>2, <2>1, <2>3
  <2> QED BY <2>1, <2>2, <2>3
<1>4. TypeOK'
  <2>1. events' \in 0..MaxEvents
    BY <1>1, SessionsAssumption DEF TypeOK
  <2>2. task' = [q \in Requests |-> task'[q]]
    BY DEF ChangeUser
  <2>3. task' \in [Requests -> Task \cup {NoTask}]
    BY <1>3, <2>2
  <2>4. \A q \in Requests : task'[q] # NoTask =>
          /\ task'[q].token <= Len(tokens)
          /\ task'[q].step \in {"revoke", "issue"} => task'[q].row # Gone
    BY <1>1, <1>3 DEF TypeOK
  <2> QED BY <1>1, <2>1, <2>3, <2>4 DEF TypeOK
<1>5. TasksFine'
  <2> SUFFICES ASSUME NEW q \in Requests, task'[q] # NoTask
               PROVE  Fine(task[q])'
    BY DEF TasksFine
  <2>1. Fine(task[q])
    BY <1>3 DEF Inv, TasksFine
  <2>2. users'[task[q].user] = IF task[q].user = u THEN row ELSE users[task[q].user]
    BY <1>1, <1>3 DEF TypeOK, Task
  <2>3. users'[task'[q].user] \in task'[q].seen
    BY <1>3, <2>1, <2>2 DEF Fine
  <2> QED BY <1>1, <1>3, <2>1, <2>3 DEF Fine
<1>6. RevocationsOwed'
  <2> SUFFICES ASSUME NEW t \in DOMAIN tokens, Owed(t)
               PROVE  Owed(t)'
    BY <1>1 DEF Inv, RevocationsOwed
  <2>1. ASSUME NEW q \in Requests, Issuing(q, t)
        PROVE  Issuing(q, t)'
    <3>1. task[q] # NoTask /\ task[q] \in Task
      BY <1>1, <2>1, Reads DEF Issuing
    <3>2. task'[q] = task[q] \/ task'[q] = [task[q] EXCEPT !.seen = task[q].seen \cup {row}]
      BY <1>2
    <3>3. task[q].seen \cup {row} \in SUBSET (Account \cup {Gone})
      BY <3>1 DEF Task
    <3>4. task'[q] \in Task
      BY <3>1, <3>2, <3>3 DEF Task
    <3>5. task'[q] # NoTask
      BY <3>4, NoTaskAssumption
    <3> QED BY <1>3, <2>1, <3>5 DEF Issuing
  <2> QED BY <1>1, <2>1, OwedStays DEF TokensStay
<1> QED BY <1>4, <1>5, <1>6 DEF Inv

-----------------------------------------------------------------------------
(* Theorems.                                                               *)

LEMMA InitInv == Init => Inv
<1> SUFFICES ASSUME Init PROVE Inv
  OBVIOUS
<1>1. TypeOK
  BY SessionsAssumption DEF Init, TypeOK, Account
<1>2. TasksFine /\ RevocationsOwed
  BY DEF Init, TasksFine, RevocationsOwed
<1> QED BY <1>1, <1>2 DEF Inv

LEMMA StepInv == Inv /\ [Next]_vars => Inv'
<1> SUFFICES ASSUME Inv, [Next]_vars PROVE Inv'
  OBVIOUS
<1>1. CASE UNCHANGED vars
  BY <1>1 DEF vars, Inv, TypeOK, TasksFine, Fine, RevocationsOwed, Owed, Issuing
<1>2. ASSUME NEW r \in Requests, NEW u \in Users, Login(r, u) PROVE Inv'
  BY <1>2, LoginInv
<1>3. ASSUME NEW r \in Requests, NEW t \in DOMAIN tokens, Refresh(r, t) PROVE Inv'
  BY <1>3, RefreshInv
<1>4. ASSUME NEW r \in Requests, Proceed(r) PROVE Inv'
  BY <1>4, FindInv, ReadUserInv, RevokeAllInv, RevokeOldInv, IssueInv DEF Proceed
<1>5. ASSUME NEW r \in Requests, Crash(r) PROVE Inv'
  BY <1>5, CrashInv
<1>6. ASSUME NEW t \in DOMAIN tokens, Logout(t) \/ Expire(t) PROVE Inv'
  BY <1>6, LogoutInv, ExpireInv
<1>7. ASSUME NEW u \in Users, NEW row \in Account \cup {Gone}, ChangeUser(u, row) PROVE Inv'
  BY <1>7, ChangeUserInv
<1> QED BY <1>1, <1>2, <1>3, <1>4, <1>5, <1>6, <1>7 DEF Next

\* The invariant of requests and tokens, types included.
THEOREM Invariant == Spec => []Inv
  BY InitInv, StepInv, PTL DEF Spec

\* Whoever gets a pair was an active user with its role at some moment of the
\* request, and a token that was used up before the request began gets none:
\* however its statements interleave with others, crashes and administrators.
THEOREM PairsAreDue == Spec => PairIsDue
<1>1. Inv /\ [Next]_vars =>
        [\A r \in Requests :
           Issue(r) => /\ ~task[r].usedBefore
                       /\ [status |-> "active", role |-> tokens'[Len(tokens')].role]
                            \in task[r].seen]_vars
  <2> SUFFICES ASSUME Inv, NEW r \in Requests, Issue(r)
               PROVE  /\ ~task[r].usedBefore
                      /\ [status |-> "active", role |-> tokens'[Len(tokens')].role]
                           \in task[r].seen
    OBVIOUS
  <2>1. /\ TypeOK /\ task[r] \in Task /\ Fine(task[r])
        /\ task[r].step = "issue" /\ task[r].row # Gone
    BY Reads DEF Inv, TypeOK, TasksFine, Issue
  <2>2. task[r].row \in Account /\ task[r].row.status = "active"
    BY <2>1 DEF Task, Fine
  <2>3. [status |-> "active", role |-> task[r].row.role] = task[r].row
    BY <2>2 DEF Account
  <2> DEFINE new == [user |-> task[r].user, role |-> task[r].row.role,
                     parent |-> task[r].token, revoked |-> FALSE, expired |-> FALSE]
  <2>4. tokens' = Append(tokens, new) /\ new.role = task[r].row.role
    BY DEF Issue
  <2>5. new \in Token
    BY <2>1, <2>2 DEF Task, Token, Account
  <2> HIDE DEF new
  <2>6. tokens'[Len(tokens')] = new
    BY <2>1, <2>4, <2>5 DEF TypeOK
  <2> QED BY <2>1, <2>3, <2>4, <2>6 DEF Fine
<1> QED BY <1>1, Invariant, PTL DEF Spec, PairIsDue

\* No token is revoked without a reason, and the reason stays.
THEOREM RevocationsHaveReasons == Spec => []RevokedForAReason
<1>1. Inv => RevokedForAReason
  BY DEF Inv, RevocationsOwed, Owed, Issuing, RevokedForAReason
<1> QED BY <1>1, Invariant, PTL
=============================================================================
