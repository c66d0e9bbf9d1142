------------------------ MODULE AccountServiceProofs ------------------------
(***************************************************************************)
(* What holds of AccountService for every set of accounts, amounts,        *)
(* documents and keys, and of Statements for every size of page, screen    *)
(* and ledger.                                                             *)
(*                                                                         *)
(* Every step of AccountService either posts one new transaction, with at  *)
(* most one row per account (lemma StepPosts), or leaves the ledger alone; *)
(* the theorems on balances and cancellations follow from that one fact.   *)
(* Those on transfers, documents and idempotency keys look at what a       *)
(* posted row says of its request (lemma StepForms).  The daily limit      *)
(* rests on the sums of the rows in a window, to which a step adds that of *)
(* its own transaction; the laws of such sums are proved on the way.       *)
(*                                                                         *)
(* The n-th row of a filtered list is the one at the position up to which  *)
(* n positions match, so what pages show is a matter of counting           *)
(* positions.  A row that is committed while an export runs moves every    *)
(* old row at most one place on (lemma PutInCounts): a row never moves     *)
(* from the pages to come to those that were read, and at most one moves   *)
(* the other way, to be repeated.                                          *)
(***************************************************************************)
EXTENDS AccountService, Statements, FiniteSetTheorems, SequenceTheorems,
        WellFoundedInduction, TLAPS

\* A row that account a may receive in the current state: it belongs to the
\* transaction being posted and its snapshot continues the balance.
LegOK(a, e) ==
  /\ e.tx = nextTx /\ e.at = now
  /\ IF e.type = "CREDIT" THEN e.snapshot = balance[a] + e.amount
                          ELSE balance[a] = e.snapshot + e.amount

\* The rows posted in one step.
Posts(legs, S) ==
  /\ S \in SUBSET Accounts
  /\ legs \in [S -> Entry]
  /\ \A a \in S : LegOK(a, legs[a])
  /\ InsertEntries(legs)
  /\ UpdateBalances(legs)

\* A transaction that reverses nothing.
PostsPlain == \E S \in SUBSET Accounts : \E legs \in [S -> Entry] :
  Posts(legs, S) /\ \A a \in S : legs[a].compensates = 0

\* The reversal of transaction t: one row for each row of t, opposite to it.
PostsReversal(t) ==
  /\ NotCancelledYet(t)
  /\ Touched(t) # {}
  /\ \A a \in Touched(t) : ledger[a][RowOf(a, t)].compensates = 0
  /\ \E legs \in [Touched(t) -> Entry] :
       /\ Posts(legs, Touched(t))
       /\ \A a \in Touched(t) :
            LET e == ledger[a][RowOf(a, t)]
            IN  /\ legs[a].compensates = RowOf(a, t)
                /\ legs[a].amount = e.amount
                /\ legs[a].type # e.type
                /\ legs[a].kind = "CANCELLATION" /\ legs[a].doc = NoDoc
  /\ cancelled' = cancelled \cup {[original |-> t, cancellation |-> nextTx]}

-----------------------------------------------------------------------------

\* A leg built for an account that can afford it is a row of the ledger.
LEMMA LegType ==
  ASSUME TypeOK, NEW a \in Accounts, NEW type \in {"CREDIT", "DEBIT"},
         NEW kind \in TxTypes, NEW m \in Nat, NEW comp \in Nat,
         NEW d \in DocOrNone, type = "CREDIT" \/ balance[a] >= m
  PROVE  /\ Leg(a, type, kind, m, comp, d) \in Entry
         /\ LegOK(a, Leg(a, type, kind, m, comp, d))
         /\ Leg(a, type, kind, m, comp, d).compensates = comp
<1>1. balance[a] \in Nat /\ nextTx \in Nat /\ now \in Nat
  BY DEF TypeOK
<1> QED
  BY <1>1 DEF Leg, LegOK, Entry

LEMMA TxEventType ==
  ASSUME NEW a \in Accounts, NEW e \in Entry
  PROVE  TxEvent(a, e) \in Event
BY DEF TxEvent, Event, Entry

LEMMA LinkDocumentType ==
  ASSUME TypeOK, NEW d \in DocOrNone, LinkDocument(d)
  PROVE  docTx' \in [Docs -> Nat]
BY DEF TypeOK, LinkDocument, DocOrNone

\* Posting keeps the types of what it writes.
LEMMA PostsType ==
  ASSUME TypeOK, NEW S, NEW legs, Posts(legs, S)
  PROVE  /\ ledger' \in [Accounts -> Seq(Entry)]
         /\ balance' \in [Accounts -> Nat]
         /\ nextTx' \in Nat \ {0}
<1>1. DOMAIN legs = S
  BY DEF Posts
<1>2. ASSUME NEW a \in Accounts
      PROVE  /\ a \in S => legs[a] \in Entry /\ legs[a].snapshot \in Nat
             /\ ledger[a] \in Seq(Entry)
             /\ balance[a] \in Nat
  BY DEF Posts, TypeOK, Entry
<1>3. ledger' \in [Accounts -> Seq(Entry)]
  BY <1>1, <1>2 DEF Posts, InsertEntries
<1>4. balance' \in [Accounts -> Nat]
  BY <1>1, <1>2 DEF Posts, UpdateBalances
<1>5. nextTx' \in Nat \ {0}
  BY DEF Posts, InsertEntries, TypeOK
<1> QED
  BY <1>3, <1>4, <1>5

\* withdrawTx posts one plain row.
LEMMA WithdrawPosts ==
  ASSUME TypeOK, NEW u \in Accounts, NEW m \in Int, NEW d \in DocOrNone,
         WithdrawTx(u, m, d)
  PROVE  PostsPlain /\ outbox' \in Seq(Event) /\ docTx' \in [Docs -> Nat]
<1> DEFINE legs == [a \in {u} |-> Leg(a, "DEBIT", "WITHDRAW", m, 0, d)]
<1>1. m \in Nat /\ balance[u] >= m
  BY DEF WithdrawTx, ParseAmount, SufficientFunds
<1>2. ASSUME NEW a \in {u}
      PROVE  legs[a] \in Entry /\ LegOK(a, legs[a]) /\ legs[a].compensates = 0
  BY <1>1, LegType DEF TxTypes
<1>3. Posts(legs, {u})
  BY <1>2 DEF Posts, WithdrawTx
<1>4. PostsPlain
  BY <1>2, <1>3 DEF PostsPlain, Posts
<1>5. outbox' \in Seq(Event)
  BY <1>2, TxEventType DEF WithdrawTx, Enqueue, TypeOK
<1>6. docTx' \in [Docs -> Nat]
  BY LinkDocumentType DEF WithdrawTx
<1> QED
  BY <1>4, <1>5, <1>6

\* moveFundsTx posts two plain rows.
LEMMA MoveFundsPosts ==
  ASSUME TypeOK, NEW actor, NEW src \in Accounts, NEW dst \in Accounts,
         NEW m \in Int, NEW kind \in OutboundTypes, NEW d \in DocOrNone,
         MoveFundsTx(actor, src, dst, m, kind, d)
  PROVE  PostsPlain /\ outbox' \in Seq(Event) /\ docTx' \in [Docs -> Nat]
<1> DEFINE legs == [a \in {src, dst} |->
                      Leg(a, IF a = src THEN "DEBIT" ELSE "CREDIT", kind, m, 0, d)]
<1>1. m \in Nat /\ balance[src] >= m
  BY DEF MoveFundsTx, ParseAmount, SufficientFunds
<1>2. ASSUME NEW a \in {src, dst}
      PROVE  legs[a] \in Entry /\ LegOK(a, legs[a]) /\ legs[a].compensates = 0
  BY <1>1, LegType DEF TxTypes
<1>3. Posts(legs, {src, dst})
  BY <1>2 DEF Posts, MoveFundsTx
<1>4. PostsPlain
  BY <1>2, <1>3 DEF PostsPlain, Posts
<1>5. outbox' \in Seq(Event)
  <2>1. TxEvent(src, legs[src]) \in Event /\ TxEvent(dst, legs[dst]) \in Event
    BY <1>2, TxEventType
  <2>2. outbox' = outbox \o <<TxEvent(src, legs[src]), TxEvent(dst, legs[dst])>>
    BY DEF MoveFundsTx, Enqueue
  <2> QED
    BY <2>1, <2>2 DEF TypeOK
<1>6. docTx' \in [Docs -> Nat]
  BY LinkDocumentType DEF MoveFundsTx
<1> QED
  BY <1>4, <1>5, <1>6

\* So does whatever request is executed.
LEMMA ExecuteRequestPosts ==
  ASSUME TypeOK, NEW owner \in Accounts, NEW r \in Requests, NEW actor,
         NEW d \in DocOrNone, ExecuteRequestTx(owner, r, actor, d)
  PROVE  PostsPlain /\ outbox' \in Seq(Event) /\ docTx' \in [Docs -> Nat]
<1>1. r.amount \in Int
  BY ConstantsAssumption DEF Requests
<1>2. CASE r.kind = "WITHDRAW" /\ WithdrawTx(owner, r.amount, d)
  BY <1>1, <1>2, WithdrawPosts
<1>3. CASE /\ r.kind \in OutboundTypes
           /\ MoveFundsTx(actor, owner, r.dest, r.amount, r.kind, d)
  <2>1. r.dest \in Accounts
    BY <1>3 DEF Requests, OutboundTypes
  <2> QED
    BY <1>1, <1>3, <2>1, MoveFundsPosts
<1> QED
  BY <1>2, <1>3 DEF ExecuteRequestTx

\* The row of an account that transaction t touched.
LEMMA RowOfTouched ==
  ASSUME TypeOK, NEW t, NEW a \in Touched(t)
  PROVE  /\ a \in Accounts
         /\ RowOf(a, t) \in DOMAIN ledger[a] /\ RowOf(a, t) \in Nat \ {0}
         /\ ledger[a][RowOf(a, t)] \in Entry
         /\ ledger[a][RowOf(a, t)].tx = t
<1>1. a \in Accounts /\ \E i \in DOMAIN ledger[a] : ledger[a][i].tx = t
  BY DEF Touched
<1>2. RowOf(a, t) \in DOMAIN ledger[a] /\ ledger[a][RowOf(a, t)].tx = t
  BY <1>1 DEF RowOf, RowIn
<1>3. ledger[a] \in Seq(Entry)
  BY <1>1 DEF TypeOK
<1> QED
  BY <1>1, <1>2, <1>3

\* deposit posts one plain row.
LEMMA DepositPosts ==
  ASSUME TypeOK, NEW x \in Accounts, NEW m \in Int, Deposit(x, m)
  PROVE  PostsPlain /\ outbox' \in Seq(Event)
<1> DEFINE legs == [a \in {x} |-> Leg(a, "CREDIT", "DEPOSIT", m, 0, NoDoc)]
<1>1. m \in Nat
  BY DEF Deposit, ParseAmount
<1>2. ASSUME NEW a \in {x}
      PROVE  legs[a] \in Entry /\ LegOK(a, legs[a]) /\ legs[a].compensates = 0
  BY <1>1, LegType DEF TxTypes, DocOrNone
<1>3. Posts(legs, {x})
  BY <1>2 DEF Posts, Deposit
<1>4. PostsPlain
  BY <1>2, <1>3 DEF PostsPlain, Posts
<1>5. TxEvent(x, legs[x]) \in Event
  BY <1>2, TxEventType
<1>6. outbox' = outbox \o <<TxEvent(x, legs[x])>>
  BY DEF Deposit, Enqueue
<1>7. outbox' \in Seq(Event)
  BY <1>5, <1>6 DEF TypeOK
<1> QED
  BY <1>4, <1>7

\* cancelTransaction posts the reversal of its target.
LEMMA CancelPosts ==
  ASSUME TypeOK, NEW t \in Nat, CancelTransaction(t)
  PROVE  PostsReversal(t) /\ outbox' \in Seq(Event)
<1> DEFINE S    == Touched(t)
           legs == [a \in S |-> ReverseLeg(a, t)]
<1>1. ASSUME NEW a \in S
      PROVE  /\ legs[a] \in Entry /\ LegOK(a, legs[a])
             /\ legs[a].compensates = RowOf(a, t)
             /\ legs[a].amount = ledger[a][RowOf(a, t)].amount
             /\ legs[a].type # ledger[a][RowOf(a, t)].type
             /\ legs[a].kind = "CANCELLATION" /\ legs[a].doc = NoDoc
             /\ ledger[a][RowOf(a, t)].compensates = 0
  <2> DEFINE e == ledger[a][RowOf(a, t)]
  <2>1. a \in Accounts /\ e \in Entry /\ RowOf(a, t) \in Nat
    BY RowOfTouched
  <2>2. e.compensates = 0 /\ (e.type = "CREDIT" => balance[a] >= e.amount)
    BY DEF CancelTransaction, Reversible
  <2>3. /\ e.amount \in Nat
        /\ e.type \in {"CREDIT", "DEBIT"}
        /\ ReverseType(e.type) \in {"CREDIT", "DEBIT"}
        /\ ReverseType(e.type) # e.type
        /\ ReverseType(e.type) = "CREDIT" \/ balance[a] >= e.amount
    BY <2>1, <2>2 DEF Entry, ReverseType
  <2>4. legs[a] = Leg(a, ReverseType(e.type), "CANCELLATION", e.amount, RowOf(a, t), NoDoc)
    BY DEF ReverseLeg
  <2>5. legs[a] \in Entry /\ LegOK(a, legs[a]) /\ legs[a].compensates = RowOf(a, t)
    BY <2>1, <2>3, <2>4, LegType DEF TxTypes, DocOrNone
  <2>6. /\ legs[a].amount = e.amount /\ legs[a].type = ReverseType(e.type)
        /\ legs[a].kind = "CANCELLATION" /\ legs[a].doc = NoDoc
    BY <2>4 DEF Leg
  <2> QED
    BY <2>2, <2>3, <2>5, <2>6
<1>2. S \in SUBSET Accounts
  BY DEF Touched
<1>3. Posts(legs, S)
  BY <1>1, <1>2 DEF Posts, CancelTransaction
<1>4. PostsReversal(t)
  BY <1>1, <1>3 DEF PostsReversal, CancelTransaction, Reversible, Posts
<1>5. outbox' \in Seq(Event)
  <2> DEFINE ev == [tx |-> nextTx, topic |-> "transaction.cancelled",
                    key |-> CHOOSE a \in Touched(t) : TRUE,
                    type |-> "CANCELLED", snapshot |-> 0]
  <2>1. (CHOOSE a \in Touched(t) : TRUE) \in Accounts
    <3>1. Touched(t) # {}
      BY DEF CancelTransaction, Reversible
    <3> QED
      BY <1>2, <3>1
  <2>2. ev \in Event
    BY <2>1 DEF Event, TypeOK
  <2>3. outbox' = outbox \o <<ev>>
    BY DEF CancelTransaction, Enqueue
  <2> QED
    BY <2>2, <2>3 DEF TypeOK
<1> QED
  BY <1>4, <1>5

\* What createTransaction does: park the request and post nothing, or post.
LEMMA CreateTransactionPosts ==
  ASSUME TypeOK, NEW u \in Customers, NEW k \in Keys \cup {NoKey},
         NEW r \in Requests, NEW d \in DocOrNone, CreateTransaction(u, k, r, d)
  PROVE  /\ \/ UNCHANGED <<ledger, balance, nextTx>>
            \/ PostsPlain
         /\ outbox' \in Seq(Event) /\ docTx' \in [Docs -> Nat]
         /\ holds' \in Seq(Hold)
         /\ idem' \in [Customers -> [Keys -> Response]]
         /\ applied' \in [Customers -> [Keys -> Nat]]
<1>1. ASSUME NEW response \in Response, StoreIdempotentResponse(u, k, response)
      PROVE  /\ idem' \in [Customers -> [Keys -> Response]]
             /\ applied' \in [Customers -> [Keys -> Nat]]
  <2>1. CASE k = NoKey
    BY <1>1, <2>1 DEF StoreIdempotentResponse, TypeOK
  <2>2. CASE k # NoKey
    <3>1. /\ idem' = [idem EXCEPT ![u][k] = response]
          /\ applied' = [applied EXCEPT ![u][k] = @ + 1]
      BY <1>1, <2>2 DEF StoreIdempotentResponse
    <3> QED
      BY <2>2, <3>1 DEF TypeOK
  <2> QED
    BY <2>1, <2>2
<1>2. CASE /\ HoldDecision(d)
           /\ CreateHold(u, r, d)
           /\ StoreIdempotentResponse(u, k, [held |-> TRUE, id |-> Len(holds) + 1])
  <2>1. [held |-> TRUE, id |-> Len(holds) + 1] \in Response
    BY DEF TypeOK, Response
  <2>2. d \in Docs
    BY <1>2 DEF HoldDecision, DocOrNone
  <2>3. [user |-> u, request |-> r, doc |-> d, status |-> "PENDING_REVIEW", tx |-> 0] \in Hold
    BY <2>2 DEF Hold
  <2>4. holds' \in Seq(Hold)
    BY <1>2, <2>3 DEF CreateHold, TypeOK
  <2> QED
    BY <1>1, <1>2, <2>1, <2>4 DEF CreateHold, TypeOK
<1>3. CASE /\ ExecuteRequestTx(u, r, u, d)
           /\ StoreIdempotentResponse(u, k, [held |-> FALSE, id |-> nextTx])
           /\ UNCHANGED holds
  <2>1. [held |-> FALSE, id |-> nextTx] \in Response
    BY DEF TypeOK, Response
  <2>2. u \in Accounts
    BY DEF Customers
  <2>3. PostsPlain /\ outbox' \in Seq(Event) /\ docTx' \in [Docs -> Nat]
    BY <1>3, <2>2, ExecuteRequestPosts
  <2> QED
    BY <1>1, <1>3, <2>1, <2>3 DEF TypeOK
<1> QED
  BY <1>2, <1>3 DEF CreateTransaction

LEMMA ReleaseHoldPosts ==
  ASSUME TypeOK, NEW h \in DOMAIN holds, ReleaseHold(h)
  PROVE  /\ PostsPlain /\ outbox' \in Seq(Event) /\ docTx' \in [Docs -> Nat]
         /\ holds' \in Seq(Hold)
<1>1. holds \in Seq(Hold) /\ holds[h] \in Hold /\ h \in 1..Len(holds)
  BY DEF TypeOK
<1>2. /\ holds[h].user \in Accounts /\ holds[h].request \in Requests
      /\ holds[h].doc \in DocOrNone
  BY <1>1 DEF Hold, Customers, DocOrNone
<1>3. PostsPlain /\ outbox' \in Seq(Event) /\ docTx' \in [Docs -> Nat]
  BY <1>2, ExecuteRequestPosts DEF ReleaseHold
<1>4. [holds[h] EXCEPT !.status = "RELEASED", !.tx = nextTx] \in Hold
  BY <1>1 DEF Hold, TypeOK
<1>5. holds' = [holds EXCEPT ![h] = [holds[h] EXCEPT !.status = "RELEASED", !.tx = nextTx]]
  BY DEF ReleaseHold
<1>6. holds' \in Seq(Hold)
  BY <1>1, <1>4, <1>5
<1> QED
  BY <1>3, <1>6

-----------------------------------------------------------------------------

\* Every step posts one plain transaction, posts one reversal, or leaves the
\* ledger, the balances and the registry of cancellations alone.
LEMMA StepPosts ==
  ASSUME TypeOK, [Next]_vars
  PROVE  \/ PostsPlain /\ cancelled' = cancelled
         \/ \E t \in Nat : PostsReversal(t)
         \/ UNCHANGED <<ledger, balance, nextTx, cancelled>>
<1>1. ASSUME NEW a \in Customers, CreateAccount(a)
      PROVE  UNCHANGED <<ledger, balance, nextTx, cancelled>>
  BY <1>1 DEF CreateAccount
<1>2. ASSUME NEW a \in Accounts, NEW m \in Amounts, Deposit(a, m)
      PROVE  PostsPlain /\ cancelled' = cancelled
  BY <1>2, DepositPosts, ConstantsAssumption DEF Deposit
<1>3. ASSUME NEW u \in Customers, NEW m \in Amounts, Withdraw(u, m)
      PROVE  PostsPlain /\ cancelled' = cancelled
  <2>1. u \in Accounts /\ m \in Int /\ NoDoc \in DocOrNone
    BY ConstantsAssumption DEF Customers, DocOrNone
  <2> QED
    BY <1>3, <2>1, WithdrawPosts DEF Withdraw
<1>4. ASSUME NEW src \in Accounts, NEW dst \in Accounts, NEW m \in Amounts,
             NEW actor \in {Staff} \cup Customers, Transfer(actor, src, dst, m)
      PROVE  PostsPlain /\ cancelled' = cancelled
  <2>1. "TRANSFER" \in OutboundTypes /\ m \in Int /\ NoDoc \in DocOrNone
    BY ConstantsAssumption DEF OutboundTypes, DocOrNone
  <2> QED
    BY <1>4, <2>1, MoveFundsPosts DEF Transfer
<1>5. ASSUME NEW u \in Customers, NEW k \in Keys \cup {NoKey}, NEW r \in Requests,
             NEW d \in DocOrNone, CreateTransaction(u, k, r, d)
      PROVE  \/ PostsPlain /\ cancelled' = cancelled
             \/ UNCHANGED <<ledger, balance, nextTx, cancelled>>
  BY <1>5, CreateTransactionPosts DEF CreateTransaction
<1>6. ASSUME NEW t \in 1..MaxTx, CancelTransaction(t)
      PROVE  \E x \in Nat : PostsReversal(x)
  <2>1. t \in Nat
    BY ConstantsAssumption
  <2> QED
    BY <1>6, <2>1, CancelPosts
<1>7. ASSUME NEW h \in DOMAIN holds, ReleaseHold(h)
      PROVE  PostsPlain /\ cancelled' = cancelled
  BY <1>7, ReleaseHoldPosts DEF ReleaseHold
<1>8. ASSUME NEW h \in DOMAIN holds, RejectHold(h)
      PROVE  UNCHANGED <<ledger, balance, nextTx, cancelled>>
  BY <1>8 DEF RejectHold
<1>9. CASE Tick
  BY <1>9 DEF Tick
<1>10. CASE UNCHANGED vars
  BY <1>10 DEF vars
<1> QED
  BY <1>1, <1>2, <1>3, <1>4, <1>5, <1>6, <1>7, <1>8, <1>9, <1>10 DEF Next

\* The part of TypeOK about what a posting leaves alone.
RestTypeOK ==
  /\ opened \in SUBSET Accounts
  /\ outbox \in Seq(Event)
  /\ idem \in [Customers -> [Keys -> Response]]
  /\ holds \in Seq(Hold)
  /\ docTx \in [Docs -> Nat]
  /\ now \in Nat
  /\ applied \in [Customers -> [Keys -> Nat]]

\* The money path never leaves its types: no balance and no snapshot ever
\* goes below zero, for any accounts, amounts and interleaving.
THEOREM TypeCorrect == Spec => []TypeOK
<1>1. Init => TypeOK
  BY ConstantsAssumption DEF Init, TypeOK, Response, NoResponse
<1>2. TypeOK /\ [Next]_vars => TypeOK'
  <2> SUFFICES ASSUME TypeOK, [Next]_vars PROVE TypeOK'
    OBVIOUS
  <2>1. /\ ledger' \in [Accounts -> Seq(Entry)]
        /\ balance' \in [Accounts -> Nat]
        /\ nextTx' \in Nat \ {0}
        /\ cancelled' \in SUBSET [original : Nat, cancellation : Nat]
    <3>1. CASE PostsPlain /\ cancelled' = cancelled
      BY <3>1, PostsType DEF PostsPlain, TypeOK
    <3>2. CASE \E t \in Nat : PostsReversal(t)
      <4>1. PICK t \in Nat : PostsReversal(t)
        BY <3>2
      <4>2. PICK legs \in [Touched(t) -> Entry] : Posts(legs, Touched(t))
        BY <4>1 DEF PostsReversal
      <4>3. cancelled' = cancelled \cup {[original |-> t, cancellation |-> nextTx]}
        BY <4>1 DEF PostsReversal
      <4> QED
        BY <4>2, <4>3, PostsType DEF TypeOK
    <3>3. CASE UNCHANGED <<ledger, balance, nextTx, cancelled>>
      BY <3>3 DEF TypeOK
    <3> QED
      BY <3>1, <3>2, <3>3, StepPosts
  <2>2. ASSUME NEW a \in Customers, CreateAccount(a) PROVE RestTypeOK'
    BY <2>2 DEF CreateAccount, TypeOK, RestTypeOK, Customers
  <2>3. ASSUME NEW a \in Accounts, NEW m \in Amounts, Deposit(a, m) PROVE RestTypeOK'
    <3>1. m \in Int
      BY ConstantsAssumption
    <3>2. outbox' \in Seq(Event)
      BY <2>3, <3>1, DepositPosts
    <3> QED
      BY <2>3, <3>2 DEF Deposit, TypeOK, RestTypeOK
  <2>4. ASSUME NEW u \in Customers, NEW m \in Amounts, Withdraw(u, m) PROVE RestTypeOK'
    <3>1. u \in Accounts /\ m \in Int /\ NoDoc \in DocOrNone
      BY ConstantsAssumption DEF Customers, DocOrNone
    <3>2. outbox' \in Seq(Event) /\ docTx' \in [Docs -> Nat]
      BY <2>4, <3>1, WithdrawPosts DEF Withdraw
    <3> QED
      BY <2>4, <3>2 DEF Withdraw, TypeOK, RestTypeOK
  <2>5. ASSUME NEW src \in Accounts, NEW dst \in Accounts, NEW m \in Amounts,
               NEW actor \in {Staff} \cup Customers, Transfer(actor, src, dst, m)
        PROVE  RestTypeOK'
    <3>1. "TRANSFER" \in OutboundTypes /\ m \in Int /\ NoDoc \in DocOrNone
      BY ConstantsAssumption DEF OutboundTypes, DocOrNone
    <3>2. outbox' \in Seq(Event) /\ docTx' \in [Docs -> Nat]
      BY <2>5, <3>1, MoveFundsPosts DEF Transfer
    <3> QED
      BY <2>5, <3>2 DEF Transfer, TypeOK, RestTypeOK
  <2>6. ASSUME NEW u \in Customers, NEW k \in Keys \cup {NoKey}, NEW r \in Requests,
               NEW d \in DocOrNone, CreateTransaction(u, k, r, d)
        PROVE  RestTypeOK'
    <3>1. /\ outbox' \in Seq(Event) /\ docTx' \in [Docs -> Nat]
          /\ holds' \in Seq(Hold)
          /\ idem' \in [Customers -> [Keys -> Response]]
          /\ applied' \in [Customers -> [Keys -> Nat]]
      BY <2>6, CreateTransactionPosts
    <3> QED
      BY <2>6, <3>1 DEF CreateTransaction, TypeOK, RestTypeOK
  <2>7. ASSUME NEW t \in 1..MaxTx, CancelTransaction(t) PROVE RestTypeOK'
    <3>1. t \in Nat
      BY ConstantsAssumption
    <3>2. outbox' \in Seq(Event)
      BY <2>7, <3>1, CancelPosts
    <3> QED
      BY <2>7, <3>2 DEF CancelTransaction, TypeOK, RestTypeOK
  <2>8. ASSUME NEW h \in DOMAIN holds, ReleaseHold(h) PROVE RestTypeOK'
    <3>1. /\ outbox' \in Seq(Event) /\ docTx' \in [Docs -> Nat]
          /\ holds' \in Seq(Hold)
      BY <2>8, ReleaseHoldPosts
    <3> QED
      BY <2>8, <3>1 DEF ReleaseHold, TypeOK, RestTypeOK
  <2>9. ASSUME NEW h \in DOMAIN holds, RejectHold(h) PROVE RestTypeOK'
    <3>1. holds \in Seq(Hold) /\ holds[h] \in Hold
      BY DEF TypeOK
    <3>2. [holds[h] EXCEPT !.status = "REJECTED"] \in Hold
      BY <3>1 DEF Hold
    <3>3. holds' = [holds EXCEPT ![h] = [holds[h] EXCEPT !.status = "REJECTED"]]
      BY <2>9 DEF RejectHold
    <3>4. holds' \in Seq(Hold)
      BY <3>1, <3>2, <3>3
    <3> QED
      BY <2>9, <3>4 DEF RejectHold, TypeOK, RestTypeOK
  <2>10. ASSUME Tick PROVE RestTypeOK'
    BY <2>10 DEF Tick, TypeOK, RestTypeOK
  <2>11. ASSUME UNCHANGED vars PROVE RestTypeOK'
    BY <2>11 DEF vars, TypeOK, RestTypeOK
  <2>12. RestTypeOK'
    BY <2>2, <2>3, <2>4, <2>5, <2>6, <2>7, <2>8, <2>9, <2>10, <2>11 DEF Next
  <2> QED
    BY <2>1, <2>12 DEF TypeOK, RestTypeOK
<1> QED
  BY <1>1, <1>2, PTL DEF Spec

-----------------------------------------------------------------------------

\* Posting appends: an account in S gains its leg, every other ledger stays.
LEMMA PostsAppends ==
  ASSUME TypeOK, NEW S, NEW legs, Posts(legs, S), NEW a \in Accounts
  PROVE  /\ ledger[a] \in Seq(Entry) /\ Len(ledger[a]) \in Nat
         /\ a \in S => /\ legs[a] \in Entry /\ LegOK(a, legs[a])
                       /\ ledger'[a] = Append(ledger[a], legs[a])
                       /\ Len(ledger'[a]) = Len(ledger[a]) + 1
                       /\ ledger'[a][Len(ledger[a]) + 1] = legs[a]
                       /\ balance'[a] = legs[a].snapshot
         /\ a \notin S => ledger'[a] = ledger[a] /\ balance'[a] = balance[a]
         /\ \A i \in DOMAIN ledger[a] : /\ i \in DOMAIN ledger'[a]
                                        /\ ledger'[a][i] = ledger[a][i]
<1>1. DOMAIN legs = S /\ ledger[a] \in Seq(Entry)
  BY DEF Posts, TypeOK
<1>2. a \in S => /\ legs[a] \in Entry /\ LegOK(a, legs[a])
                 /\ ledger'[a] = Append(ledger[a], legs[a])
                 /\ balance'[a] = legs[a].snapshot
  BY <1>1 DEF Posts, InsertEntries, UpdateBalances
<1>3. a \notin S => ledger'[a] = ledger[a] /\ balance'[a] = balance[a]
  BY <1>1 DEF Posts, InsertEntries, UpdateBalances
<1> QED
  BY <1>1, <1>2, <1>3

\* One more row that continues the balance keeps the account explained.
LEMMA AppendExplains ==
  ASSUME NEW rows \in Seq(Entry), NEW bal \in Nat, Explains(rows, bal), NEW e \in Entry,
         IF e.type = "CREDIT" THEN e.snapshot = bal + e.amount
                              ELSE bal = e.snapshot + e.amount
  PROVE  Explains(Append(rows, e), e.snapshot)
<1> DEFINE n    == Len(rows)
           more == Append(rows, e)
<1>1. /\ n \in Nat /\ Len(more) = n + 1
      /\ DOMAIN rows = 1..n /\ DOMAIN more = 1..(n + 1)
      /\ more[n + 1] = e /\ \A i \in 1..n : more[i] = rows[i]
  OBVIOUS
<1>2. \A i \in 1..(n + 1) : BalanceBefore(more, i) = BalanceBefore(rows, i)
  BY <1>1 DEF BalanceBefore
<1>3. BalanceBefore(more, n + 2) = e.snapshot
  BY <1>1 DEF BalanceBefore
<1>4. bal = BalanceBefore(more, n + 1)
  BY <1>1, <1>2 DEF Explains
<1>5. \A i \in 1..n : IF more[i].type = "CREDIT"
                      THEN more[i].snapshot = BalanceBefore(more, i) + more[i].amount
                      ELSE BalanceBefore(more, i) = more[i].snapshot + more[i].amount
  BY <1>1, <1>2 DEF Explains
<1>6. IF more[n + 1].type = "CREDIT"
      THEN more[n + 1].snapshot = BalanceBefore(more, n + 1) + more[n + 1].amount
      ELSE BalanceBefore(more, n + 1) = more[n + 1].snapshot + more[n + 1].amount
  BY <1>1, <1>4
<1>7. Len(more) + 1 = n + 2
  BY <1>1
<1>8. Explains(more, e.snapshot)
  <2> HIDE DEF more
  <2>1. \A i \in DOMAIN more : \/ i \in 1..n
                               \/ i = n + 1
    BY <1>1
  <2> QED
    BY <1>1, <1>3, <1>5, <1>6, <1>7, <2>1 DEF Explains
<1> QED
  BY <1>8

LEMMA PostsExplain ==
  ASSUME TypeOK, LedgerExplainsBalance, NEW S, NEW legs, Posts(legs, S)
  PROVE  LedgerExplainsBalance'
<1> SUFFICES ASSUME NEW a \in Accounts
             PROVE  Explains(ledger'[a], balance'[a])
  BY PostsType DEF LedgerExplainsBalance
<1>1. Explains(ledger[a], balance[a]) /\ balance[a] \in Nat
  BY DEF LedgerExplainsBalance, TypeOK
<1>2. CASE a \in S
  <2>1. /\ ledger[a] \in Seq(Entry) /\ legs[a] \in Entry /\ LegOK(a, legs[a])
        /\ ledger'[a] = Append(ledger[a], legs[a]) /\ balance'[a] = legs[a].snapshot
    BY <1>2, PostsAppends
  <2> QED
    BY <1>1, <2>1, AppendExplains DEF LegOK
<1>3. CASE a \notin S
  BY <1>1, <1>3, PostsAppends
<1> QED
  BY <1>2, <1>3

\* The balance of every account is what its ledger says: each snapshot
\* continues the one before it, the cached balance is the last one, and none is
\* overdrawn.
THEOREM BalanceExplained == Spec => []LedgerExplainsBalance
<1>1. Init => LedgerExplainsBalance
  BY DEF Init, LedgerExplainsBalance, Explains, BalanceBefore
<1>2. TypeOK /\ LedgerExplainsBalance /\ [Next]_vars => LedgerExplainsBalance'
  <2> SUFFICES ASSUME TypeOK, LedgerExplainsBalance, [Next]_vars
               PROVE  LedgerExplainsBalance'
    OBVIOUS
  <2>1. CASE PostsPlain
    BY <2>1, PostsExplain DEF PostsPlain
  <2>2. ASSUME NEW t \in Nat, PostsReversal(t)
        PROVE  LedgerExplainsBalance'
    BY <2>2, PostsExplain DEF PostsReversal
  <2>3. CASE UNCHANGED <<ledger, balance, nextTx, cancelled>>
    BY <2>3 DEF LedgerExplainsBalance
  <2> QED
    BY <2>1, <2>2, <2>3, StepPosts
<1> QED
  BY <1>1, <1>2, TypeCorrect, PTL DEF Spec

-----------------------------------------------------------------------------
(* Reversals.                                                              *)

\* Transaction ids are never reused.
TxIdsFresh ==
  \A a \in Accounts : \A i \in DOMAIN ledger[a] : ledger[a][i].tx < nextTx

\* A transaction has at most one row in an account's ledger.
OneRowPerTx ==
  \A a \in Accounts : \A i \in DOMAIN ledger[a], j \in DOMAIN ledger[a] :
    ledger[a][i].tx = ledger[a][j].tx => i = j

\* cancelled_transactions has original_transaction_id as its key, and no
\* cancellation is registered for two originals.
RegistryKeyed ==
  /\ \A c \in cancelled : c.original < nextTx /\ c.cancellation < nextTx
  /\ \A c \in cancelled, e \in cancelled :
       c.original = e.original \/ c.cancellation = e.cancellation => c = e

\* A row that reverses another belongs to the cancellation registered for the
\* transaction of that other row.
ReversalsRegistered ==
  \A a \in Accounts : \A i \in DOMAIN ledger[a] :
    LET k == ledger[a][i].compensates
    IN  k # 0 => /\ k \in DOMAIN ledger[a]
                 /\ \E c \in cancelled : /\ c.original = ledger[a][k].tx
                                         /\ c.cancellation = ledger[a][i].tx

\* The inductive invariant behind the two theorems about cancellations.
ReversalInv ==
  TxIdsFresh /\ OneRowPerTx /\ RegistryKeyed /\ ReversalsRegistered

LEMMA ReversedAtMostOnce ==
  ASSUME ReversalInv PROVE CompensatedAtMostOnce
<1> SUFFICES ASSUME NEW a \in Accounts, NEW i \in DOMAIN ledger[a], NEW j \in DOMAIN ledger[a],
                    ledger[a][i].compensates = ledger[a][j].compensates,
                    ledger[a][i].compensates # 0
             PROVE  i = j
  BY DEF CompensatedAtMostOnce
<1> DEFINE k == ledger[a][i].compensates
<1>1. PICK c \in cancelled : c.original = ledger[a][k].tx /\ c.cancellation = ledger[a][i].tx
  BY DEF ReversalInv, ReversalsRegistered
<1>2. PICK e \in cancelled : e.original = ledger[a][k].tx /\ e.cancellation = ledger[a][j].tx
  BY DEF ReversalInv, ReversalsRegistered
<1>3. c = e
  BY <1>1, <1>2 DEF ReversalInv, RegistryKeyed
<1> QED
  BY <1>1, <1>2, <1>3 DEF ReversalInv, OneRowPerTx

\* The rows an account has after a posting: the old ones, and its leg.
LEMMA PostsRows ==
  ASSUME TypeOK, NEW S, NEW legs, Posts(legs, S), NEW a \in Accounts,
         NEW i \in DOMAIN ledger'[a]
  PROVE  \/ i \in DOMAIN ledger[a] /\ ledger'[a][i] = ledger[a][i]
         \/ a \in S /\ i = Len(ledger[a]) + 1 /\ ledger'[a][i] = legs[a]
<1>1. CASE a \in S
  <2>1. /\ ledger[a] \in Seq(Entry) /\ Len(ledger[a]) \in Nat
        /\ legs[a] \in Entry /\ ledger'[a] = Append(ledger[a], legs[a])
    BY <1>1, PostsAppends
  <2> QED
    BY <1>1, <2>1
<1>2. CASE a \notin S
  BY <1>2, PostsAppends
<1> QED
  BY <1>1, <1>2

LEMMA PostsKeepIds ==
  ASSUME TypeOK, TxIdsFresh, OneRowPerTx, NEW S, NEW legs, Posts(legs, S)
  PROVE  TxIdsFresh' /\ OneRowPerTx'
<1>1. nextTx \in Nat /\ nextTx' = nextTx + 1
  BY DEF TypeOK, Posts, InsertEntries
<1>2. ASSUME NEW a \in Accounts, NEW i \in DOMAIN ledger[a]
      PROVE  ledger[a][i].tx \in Nat /\ ledger[a][i].tx < nextTx
  <2>1. ledger[a] \in Seq(Entry)
    BY DEF TypeOK
  <2>2. ledger[a][i] \in Entry
    BY <2>1
  <2> QED
    BY <2>2 DEF Entry, TxIdsFresh
<1>3. ASSUME NEW a \in S PROVE legs[a].tx = nextTx
  BY DEF Posts, LegOK
<1>4. TxIdsFresh'
  <2> SUFFICES ASSUME NEW a \in Accounts, NEW i \in DOMAIN ledger'[a]
               PROVE  ledger'[a][i].tx < nextTx'
    BY DEF TxIdsFresh
  <2> QED
    BY <1>1, <1>2, <1>3, PostsRows
<1>5. OneRowPerTx'
  <2> SUFFICES ASSUME NEW a \in Accounts, NEW i \in DOMAIN ledger'[a],
                      NEW j \in DOMAIN ledger'[a], ledger'[a][i].tx = ledger'[a][j].tx
               PROVE  i = j
    BY DEF OneRowPerTx
  <2>1. \/ i \in DOMAIN ledger[a] /\ ledger'[a][i] = ledger[a][i]
        \/ a \in S /\ i = Len(ledger[a]) + 1 /\ ledger'[a][i] = legs[a]
    BY PostsRows
  <2>2. \/ j \in DOMAIN ledger[a] /\ ledger'[a][j] = ledger[a][j]
        \/ a \in S /\ j = Len(ledger[a]) + 1 /\ ledger'[a][j] = legs[a]
    BY PostsRows
  <2> QED
    BY <1>1, <1>2, <1>3, <2>1, <2>2 DEF OneRowPerTx
<1> QED
  BY <1>4, <1>5

LEMMA ReversalInvStep ==
  ASSUME TypeOK, ReversalInv, [Next]_vars
  PROVE  ReversalInv'
<1> USE DEF ReversalInv
<1>1. ASSUME NEW S, NEW legs, Posts(legs, S), NEW a \in Accounts, NEW i \in DOMAIN ledger[a],
             cancelled \subseteq cancelled', ledger[a][i].compensates # 0
      PROVE  LET k == ledger'[a][i].compensates
             IN  /\ k \in DOMAIN ledger'[a]
                 /\ \E c \in cancelled' : /\ c.original = ledger'[a][k].tx
                                          /\ c.cancellation = ledger'[a][i].tx
  <2> DEFINE k == ledger[a][i].compensates
  <2>1. k \in DOMAIN ledger[a]
    BY <1>1 DEF ReversalsRegistered
  <2>2. /\ ledger'[a][i] = ledger[a][i]
        /\ k \in DOMAIN ledger'[a] /\ ledger'[a][k] = ledger[a][k]
    BY <1>1, <2>1, PostsAppends
  <2>3. PICK c \in cancelled : c.original = ledger[a][k].tx /\ c.cancellation = ledger[a][i].tx
    BY <1>1 DEF ReversalsRegistered
  <2> QED
    BY <1>1, <2>2, <2>3
<1>2. CASE PostsPlain /\ cancelled' = cancelled
  <2>0. PICK S \in SUBSET Accounts : \E legs \in [S -> Entry] :
          Posts(legs, S) /\ \A a \in S : legs[a].compensates = 0
    BY <1>2 DEF PostsPlain
  <2>1. PICK legs \in [S -> Entry] :
          Posts(legs, S) /\ \A a \in S : legs[a].compensates = 0
    BY <2>0
  <2>2. TxIdsFresh' /\ OneRowPerTx'
    BY <2>1, PostsKeepIds
  <2>3. RegistryKeyed'
    BY <1>2, <2>1 DEF RegistryKeyed, Posts, InsertEntries, TypeOK
  <2>4. ReversalsRegistered'
    <3> SUFFICES ASSUME NEW a \in Accounts, NEW i \in DOMAIN ledger'[a],
                        ledger'[a][i].compensates # 0
                 PROVE  LET k == ledger'[a][i].compensates
                        IN  /\ k \in DOMAIN ledger'[a]
                            /\ \E c \in cancelled' : /\ c.original = ledger'[a][k].tx
                                                     /\ c.cancellation = ledger'[a][i].tx
      BY DEF ReversalsRegistered
    <3>1. i \in DOMAIN ledger[a] /\ ledger'[a][i] = ledger[a][i]
      BY <2>1, PostsRows
    <3> QED
      BY <1>1, <1>2, <2>1, <3>1
  <2> QED
    BY <2>2, <2>3, <2>4
<1>3. ASSUME NEW t \in Nat, PostsReversal(t)
      PROVE  ReversalInv'
  <2>1. PICK legs \in [Touched(t) -> Entry] :
          /\ Posts(legs, Touched(t))
          /\ \A a \in Touched(t) : legs[a].compensates = RowOf(a, t)
    BY <1>3 DEF PostsReversal
  <2> DEFINE new == [original |-> t, cancellation |-> nextTx]
  <2>2. cancelled' = cancelled \cup {new} /\ NotCancelledYet(t) /\ Touched(t) # {}
    BY <1>3 DEF PostsReversal
  <2>3. TxIdsFresh' /\ OneRowPerTx'
    BY <2>1, PostsKeepIds
  <2>4. nextTx \in Nat /\ nextTx' = nextTx + 1
    BY <2>1 DEF Posts, InsertEntries, TypeOK
  <2>5. t < nextTx
    BY <2>2, RowOfTouched DEF TxIdsFresh
  <2>6. RegistryKeyed'
    BY <2>2, <2>4, <2>5 DEF RegistryKeyed, NotCancelledYet, TypeOK
  <2>7. ReversalsRegistered'
    <3> SUFFICES ASSUME NEW a \in Accounts, NEW i \in DOMAIN ledger'[a],
                        ledger'[a][i].compensates # 0
                 PROVE  LET k == ledger'[a][i].compensates
                        IN  /\ k \in DOMAIN ledger'[a]
                            /\ \E c \in cancelled' : /\ c.original = ledger'[a][k].tx
                                                     /\ c.cancellation = ledger'[a][i].tx
      BY DEF ReversalsRegistered
    <3>1. CASE i \in DOMAIN ledger[a] /\ ledger'[a][i] = ledger[a][i]
      BY <1>1, <2>1, <2>2, <3>1
    <3>2. CASE a \in Touched(t) /\ ledger'[a][i] = legs[a]
      <4> DEFINE k == RowOf(a, t)
      <4>1. k \in DOMAIN ledger[a] /\ ledger[a][k].tx = t
        BY <3>2, RowOfTouched
      <4>2. k \in DOMAIN ledger'[a] /\ ledger'[a][k] = ledger[a][k]
        BY <2>1, <4>1, PostsAppends
      <4>3. ledger'[a][i].compensates = k /\ ledger'[a][i].tx = nextTx
        BY <2>1, <3>2 DEF Posts, LegOK
      <4>4. /\ new \in cancelled' /\ new.original = ledger'[a][k].tx
            /\ new.cancellation = ledger'[a][i].tx
        BY <2>2, <4>1, <4>2, <4>3
      <4> HIDE DEF k, new
      <4> QED
        BY <4>2, <4>3, <4>4
    <3> QED
      BY <2>1, <3>1, <3>2, PostsRows
  <2> QED
    BY <2>3, <2>6, <2>7
<1>4. CASE UNCHANGED <<ledger, balance, nextTx, cancelled>>
  BY <1>4 DEF TxIdsFresh, OneRowPerTx, RegistryKeyed, ReversalsRegistered
<1> QED
  BY <1>2, <1>3, <1>4, StepPosts

LEMMA ReversalInvariant == Spec => []ReversalInv
<1>1. Init => ReversalInv
  BY DEF Init, ReversalInv, TxIdsFresh, OneRowPerTx, RegistryKeyed, ReversalsRegistered
<1> QED
  BY <1>1, ReversalInvStep, TypeCorrect, PTL DEF Spec

\* However often, and by however many employees, a cancellation is asked for,
\* no row of the ledger is reversed twice.
THEOREM ReversedOnce == Spec => []CompensatedAtMostOnce
BY ReversalInvariant, ReversedAtMostOnce, PTL

-----------------------------------------------------------------------------

LEMMA RowInUnique ==
  ASSUME NEW rows, NEW t, NEW i \in DOMAIN rows, rows[i].tx = t,
         \A j \in DOMAIN rows : rows[j].tx = t => j = i
  PROVE  RowIn(rows, t) = i
BY DEF RowIn

\* A posting leaves the rows of earlier transactions where they are, and gives
\* each account it touches a last row.
LEMMA PostsTouched ==
  ASSUME TypeOK, TxIdsFresh, OneRowPerTx, NEW S, NEW legs, Posts(legs, S)
  PROVE  /\ \A t : t # nextTx =>
              /\ Touched(t)' = Touched(t)
              /\ \A a \in Touched(t) : RowIn(ledger'[a], t) = RowIn(ledger[a], t)
         /\ \A t : t = nextTx =>
              /\ Touched(t)' = S
              /\ \A a \in S : RowIn(ledger'[a], t) = Len(ledger[a]) + 1
<1>0. OneRowPerTx'
  BY PostsKeepIds
<1>1. S \subseteq Accounts /\ \A a \in S : legs[a].tx = nextTx
  BY DEF Posts, LegOK
<1>2. ASSUME NEW t, t # nextTx, NEW a \in Accounts
      PROVE  (\E i \in DOMAIN ledger'[a] : ledger'[a][i].tx = t)
               <=> (\E i \in DOMAIN ledger[a] : ledger[a][i].tx = t)
  BY <1>1, <1>2, PostsRows, PostsAppends
<1>3. ASSUME NEW t, t # nextTx
      PROVE  Touched(t)' = Touched(t)
  BY <1>2, <1>3 DEF Touched
<1>4. ASSUME NEW t, t # nextTx, NEW a \in Touched(t)
      PROVE  RowIn(ledger'[a], t) = RowIn(ledger[a], t)
  <2> DEFINE r == RowIn(ledger[a], t)
  <2>1. a \in Accounts /\ r \in DOMAIN ledger[a] /\ ledger[a][r].tx = t
    BY RowOfTouched DEF RowOf
  <2>2. r \in DOMAIN ledger'[a] /\ ledger'[a][r].tx = t
    BY <2>1, PostsAppends
  <2>3. \A j \in DOMAIN ledger'[a] : ledger'[a][j].tx = t => j = r
    BY <1>0, <2>1, <2>2 DEF OneRowPerTx
  <2> HIDE DEF r
  <2>4. RowIn(ledger'[a], t) = r
    BY <2>2, <2>3, RowInUnique
  <2> QED
    BY <2>4 DEF r
<1>5. ASSUME NEW a \in S
      PROVE  /\ \E i \in DOMAIN ledger'[a] : ledger'[a][i].tx = nextTx
             /\ RowIn(ledger'[a], nextTx) = Len(ledger[a]) + 1
  <2> DEFINE r == Len(ledger[a]) + 1
  <2>1. a \in Accounts /\ ledger[a] \in Seq(Entry) /\ legs[a] \in Entry
        /\ ledger'[a] = Append(ledger[a], legs[a])
    BY <1>1, PostsAppends
  <2>2. r \in DOMAIN ledger'[a] /\ ledger'[a][r] = legs[a]
    BY <2>1
  <2>3. ledger'[a][r].tx = nextTx
    BY <1>1, <2>2
  <2>4. \A j \in DOMAIN ledger'[a] : ledger'[a][j].tx = nextTx => j = r
    BY <1>0, <2>1, <2>2, <2>3 DEF OneRowPerTx
  <2> HIDE DEF r
  <2>5. RowIn(ledger'[a], nextTx) = r
    BY <2>2, <2>3, <2>4, RowInUnique
  <2> QED
    BY <2>2, <2>3, <2>5 DEF r
<1>6. ASSUME NEW a \in Accounts, a \notin S
      PROVE  ~\E i \in DOMAIN ledger'[a] : ledger'[a][i].tx = nextTx
  <2>1. ledger'[a] = ledger[a]
    BY <1>6, PostsAppends
  <2>2. \A i \in DOMAIN ledger[a] : ledger[a][i].tx < nextTx
    BY DEF TxIdsFresh
  <2>3. nextTx \in Nat
    BY DEF TypeOK
  <2> QED
    BY <2>1, <2>2, <2>3
<1>7. ASSUME NEW t, t = nextTx
      PROVE  Touched(t)' = S
  <2>1. Touched(t)' = {a \in Accounts : \E i \in DOMAIN ledger'[a] : ledger'[a][i].tx = t}
    BY DEF Touched
  <2>2. \A a \in Accounts : (\E i \in DOMAIN ledger'[a] : ledger'[a][i].tx = t) <=> a \in S
    BY <1>5, <1>6, <1>7
  <2> QED
    BY <1>1, <2>1, <2>2
<1> QED
  BY <1>3, <1>4, <1>5, <1>7

\* What CancellationMirrorsOriginal says of one registered cancellation.
Mirrors(orig, cancellation) ==
  /\ Touched(cancellation) = Touched(orig)
  /\ \A a \in Touched(orig) :
       LET e == ledger[a][RowIn(ledger[a], orig)]
           r == ledger[a][RowIn(ledger[a], cancellation)]
       IN  /\ r.compensates = RowIn(ledger[a], orig)
           /\ r.amount = e.amount
           /\ r.type # e.type
           /\ e.compensates = 0

\* A posting leaves an earlier cancellation as it was.
LEMMA MirrorsStays ==
  ASSUME TypeOK, TxIdsFresh, OneRowPerTx, NEW S, NEW legs, Posts(legs, S),
         NEW o, NEW x, o # nextTx, x # nextTx, Mirrors(o, x)
  PROVE  Mirrors(o, x)'
<1>1. /\ Touched(o)' = Touched(o) /\ Touched(x)' = Touched(x)
      /\ Touched(x) = Touched(o)
  BY PostsTouched DEF Mirrors
<1>2. ASSUME NEW a \in Touched(o)
      PROVE  LET e == ledger'[a][RowIn(ledger'[a], o)]
                 r == ledger'[a][RowIn(ledger'[a], x)]
             IN  /\ r.compensates = RowIn(ledger'[a], o)
                 /\ r.amount = e.amount
                 /\ r.type # e.type
                 /\ e.compensates = 0
  <2> DEFINE i == RowIn(ledger[a], o)
             j == RowIn(ledger[a], x)
  <2>1. a \in Accounts /\ i \in DOMAIN ledger[a] /\ j \in DOMAIN ledger[a]
    BY <1>1, RowOfTouched DEF RowOf
  <2>2. ledger'[a][i] = ledger[a][i] /\ ledger'[a][j] = ledger[a][j]
    BY <2>1, PostsAppends
  <2>3. RowIn(ledger'[a], o) = i /\ RowIn(ledger'[a], x) = j
    BY <1>1, PostsTouched
  <2>4. /\ ledger[a][j].compensates = i
        /\ ledger[a][j].amount = ledger[a][i].amount
        /\ ledger[a][j].type # ledger[a][i].type
        /\ ledger[a][i].compensates = 0
    BY DEF Mirrors
  <2> HIDE DEF i, j
  <2> QED
    BY <2>2, <2>3, <2>4
<1> QED
  BY <1>1, <1>2 DEF Mirrors

\* A reversal mirrors its target.
LEMMA ReversalMirrors ==
  ASSUME TypeOK, TxIdsFresh, OneRowPerTx, NEW t \in Nat, PostsReversal(t),
         NEW x, x = nextTx
  PROVE  Mirrors(t, x)'
<1>1. PICK legs \in [Touched(t) -> Entry] :
        /\ Posts(legs, Touched(t))
        /\ \A a \in Touched(t) :
             LET e == ledger[a][RowOf(a, t)]
             IN  /\ legs[a].compensates = RowOf(a, t)
                 /\ legs[a].amount = e.amount
                 /\ legs[a].type # e.type
  BY DEF PostsReversal
<1>2. t # nextTx
  <2>1. PICK a \in Touched(t) : TRUE
    BY DEF PostsReversal
  <2>2. /\ a \in Accounts /\ RowOf(a, t) \in DOMAIN ledger[a]
        /\ ledger[a][RowOf(a, t)].tx = t
    BY <2>1, RowOfTouched
  <2>3. ledger[a][RowOf(a, t)].tx < nextTx
    BY <2>2 DEF TxIdsFresh
  <2> QED
    BY <2>2, <2>3 DEF TypeOK
<1>3. Touched(t)' = Touched(t) /\ Touched(x)' = Touched(t)
  BY <1>1, <1>2, PostsTouched
<1>4. ASSUME NEW a \in Touched(t)
      PROVE  LET e == ledger'[a][RowIn(ledger'[a], t)]
                 r == ledger'[a][RowIn(ledger'[a], x)]
             IN  /\ r.compensates = RowIn(ledger'[a], t)
                 /\ r.amount = e.amount
                 /\ r.type # e.type
                 /\ e.compensates = 0
  <2> DEFINE i == RowIn(ledger[a], t)
             j == Len(ledger[a]) + 1
  <2>1. a \in Accounts /\ i \in DOMAIN ledger[a]
    BY RowOfTouched DEF RowOf
  <2>2. ledger'[a][i] = ledger[a][i] /\ ledger'[a][j] = legs[a]
    BY <1>1, <2>1, PostsAppends
  <2>3. RowIn(ledger'[a], t) = i /\ RowIn(ledger'[a], x) = j
    BY <1>1, <1>2, PostsTouched
  <2>4. /\ legs[a].compensates = i
        /\ legs[a].amount = ledger[a][i].amount
        /\ legs[a].type # ledger[a][i].type
    BY <1>1 DEF RowOf
  <2>5. ledger[a][i].compensates = 0
    BY DEF PostsReversal, RowOf
  <2> HIDE DEF i, j
  <2> QED
    BY <2>2, <2>3, <2>4, <2>5
<1> QED
  BY <1>3, <1>4 DEF Mirrors

\* Whatever else happens, a registered cancellation reverses every row of its
\* original, amount for amount, and nothing else: never half of a transfer,
\* and never another cancellation.
THEOREM CancellationExact == Spec => []CancellationMirrorsOriginal
<1> DEFINE Inv == \A c \in cancelled : Mirrors(c.original, c.cancellation)
<1>1. Inv <=> CancellationMirrorsOriginal
  BY DEF Mirrors, CancellationMirrorsOriginal, RowOf
<1>2. Init => Inv
  BY DEF Init
<1>3. TypeOK /\ ReversalInv /\ Inv /\ [Next]_vars => Inv'
  <2> SUFFICES ASSUME TypeOK, ReversalInv, Inv, [Next]_vars PROVE Inv'
    OBVIOUS
  <2>1. TxIdsFresh /\ OneRowPerTx
    BY DEF ReversalInv
  <2>2. \A c \in cancelled : c.original # nextTx /\ c.cancellation # nextTx
    BY DEF ReversalInv, RegistryKeyed, TypeOK
  <2>3. ASSUME NEW S, NEW legs, Posts(legs, S), NEW c \in cancelled
        PROVE  Mirrors(c.original, c.cancellation)'
    BY <2>1, <2>2, <2>3, MirrorsStays
  <2>4. CASE PostsPlain /\ cancelled' = cancelled
    BY <2>3, <2>4 DEF PostsPlain
  <2>5. ASSUME NEW t \in Nat, PostsReversal(t)
        PROVE  Inv'
    <3> DEFINE new == [original |-> t, cancellation |-> nextTx]
    <3>1. cancelled' = cancelled \cup {new}
      BY <2>5 DEF PostsReversal
    <3>2. \A c \in cancelled : Mirrors(c.original, c.cancellation)'
      BY <2>3, <2>5 DEF PostsReversal
    <3>3. ASSUME NEW x, x = nextTx PROVE Mirrors(t, x)'
      BY <2>1, <2>5, <3>3, ReversalMirrors
    <3> QED
      BY <3>1, <3>2, <3>3
  <2>6. CASE UNCHANGED <<ledger, balance, nextTx, cancelled>>
    BY <2>6 DEF Mirrors, Touched
  <2> QED
    BY <2>4, <2>5, <2>6, StepPosts
<1>4. Spec => []Inv
  BY <1>2, <1>3, TypeCorrect, ReversalInvariant, PTL DEF Spec
<1> QED
  BY <1>1, <1>4, PTL

-----------------------------------------------------------------------------
(* Transfers, documents and keys: what a posted row says of its request.   *)

\* The rows of one transaction: one kind, amount and document, and nothing reversed;
\* two opposite ones on accounts of one currency if it is a transfer or a payment, of
\* which the sending one is within its limit.
RowsOf(legs, S, kind, m, d) ==
  /\ \A a \in S : /\ legs[a].kind = kind /\ legs[a].amount = m /\ legs[a].doc = d
                  /\ legs[a].compensates = 0
  /\ kind \in OutboundTypes =>
       \E src \in Accounts, dst \in Accounts :
         /\ src # dst /\ S = {src, dst} /\ Currency[src] = Currency[dst]
         /\ legs[src].type = "DEBIT" /\ legs[dst].type = "CREDIT"
         /\ WithinDailyCap(src, m)

-----------------------------------------------------------------------------
(* What the operations post.                                               *)

LEMMA WithdrawRows ==
  ASSUME TypeOK, NEW u \in Accounts, NEW m \in Int, NEW d \in DocOrNone, WithdrawTx(u, m, d)
  PROVE  \E S, legs : Posts(legs, S) /\ u \in S /\ RowsOf(legs, S, "WITHDRAW", m, d)
<1> DEFINE legs == [a \in {u} |-> Leg(a, "DEBIT", "WITHDRAW", m, 0, d)]
<1>1. m \in Nat /\ balance[u] >= m
  BY DEF WithdrawTx, ParseAmount, SufficientFunds
<1>2. ASSUME NEW a \in {u}
      PROVE  legs[a] \in Entry /\ LegOK(a, legs[a])
  BY <1>1, LegType DEF TxTypes
<1>3. Posts(legs, {u})
  BY <1>2 DEF Posts, WithdrawTx
<1>4. RowsOf(legs, {u}, "WITHDRAW", m, d)
  BY DEF RowsOf, Leg, OutboundTypes
<1> QED BY <1>3, <1>4

LEMMA DepositRows ==
  ASSUME TypeOK, NEW x \in Accounts, NEW m \in Int, Deposit(x, m)
  PROVE  \E S, legs : Posts(legs, S) /\ RowsOf(legs, S, "DEPOSIT", m, NoDoc)
<1> DEFINE legs == [a \in {x} |-> Leg(a, "CREDIT", "DEPOSIT", m, 0, NoDoc)]
<1>1. m \in Nat
  BY DEF Deposit, ParseAmount
<1>2. ASSUME NEW a \in {x}
      PROVE  legs[a] \in Entry /\ LegOK(a, legs[a])
  BY <1>1, LegType DEF TxTypes, DocOrNone
<1>3. Posts(legs, {x})
  BY <1>2 DEF Posts, Deposit
<1>4. RowsOf(legs, {x}, "DEPOSIT", m, NoDoc)
  BY DEF RowsOf, Leg, OutboundTypes
<1> QED BY <1>3, <1>4

LEMMA MoveFundsRows ==
  ASSUME TypeOK, NEW actor, NEW src \in Accounts, NEW dst \in Accounts, src # dst,
         NEW m \in Int, NEW kind \in OutboundTypes, NEW d \in DocOrNone,
         MoveFundsTx(actor, src, dst, m, kind, d)
  PROVE  \E S, legs : Posts(legs, S) /\ src \in S /\ RowsOf(legs, S, kind, m, d)
<1> DEFINE legs == [a \in {src, dst} |->
                      Leg(a, IF a = src THEN "DEBIT" ELSE "CREDIT", kind, m, 0, d)]
<1>1. /\ m \in Nat /\ balance[src] >= m /\ Currency[src] = Currency[dst]
      /\ WithinDailyCap(src, m)
  BY DEF MoveFundsTx, ParseAmount, SufficientFunds
<1>2. ASSUME NEW a \in {src, dst}
      PROVE  legs[a] \in Entry /\ LegOK(a, legs[a])
  BY <1>1, LegType DEF TxTypes
<1>3. Posts(legs, {src, dst})
  BY <1>2 DEF Posts, MoveFundsTx
<1>4. \A a \in {src, dst} : /\ legs[a].kind = kind /\ legs[a].amount = m /\ legs[a].doc = d
                           /\ legs[a].compensates = 0
  BY DEF Leg
<1>5. legs[src].type = "DEBIT" /\ legs[dst].type = "CREDIT"
  BY DEF Leg
<1> HIDE DEF legs
<1>6. RowsOf(legs, {src, dst}, kind, m, d)
  BY <1>1, <1>4, <1>5 DEF RowsOf
<1> QED BY <1>3, <1>6

LEMMA ExecuteRequestRows ==
  ASSUME TypeOK, NEW owner \in Accounts, NEW r \in Requests, NEW actor,
         NEW d \in DocOrNone, ExecuteRequestTx(owner, r, actor, d)
  PROVE  /\ \E S, legs : Posts(legs, S) /\ owner \in S /\ RowsOf(legs, S, r.kind, r.amount, d)
         /\ LinkDocument(d)
<1>1. r.amount \in Int
  BY ConstantsAssumption DEF Requests
<1>2. CASE r.kind = "WITHDRAW" /\ WithdrawTx(owner, r.amount, d)
  BY <1>1, <1>2, WithdrawRows DEF WithdrawTx
<1>3. CASE /\ r.kind \in OutboundTypes
           /\ ValidateMove(owner, r.dest, r.amount)
           /\ MoveFundsTx(actor, owner, r.dest, r.amount, r.kind, d)
  <2>1. r.dest \in Accounts /\ owner # r.dest
    BY <1>3 DEF Requests, OutboundTypes, ValidateMove
  <2> QED BY <1>1, <1>3, <2>1, MoveFundsRows DEF MoveFundsTx
<1> QED BY <1>2, <1>3 DEF ExecuteRequestTx

-----------------------------------------------------------------------------
(* The six kinds of steps, as far as these properties tell them apart.     *)

\* The outbound rows of one transaction are one DEBIT, within the limit, and one CREDIT.
Balanced(legs, S) ==
  (\E a \in S : legs[a].kind \in OutboundTypes) =>
    \E src \in Accounts, dst \in Accounts :
      /\ src # dst /\ S = {src, dst} /\ Currency[src] = Currency[dst]
      /\ legs[src].type = "DEBIT" /\ legs[dst].type = "CREDIT"
      /\ legs[src].amount = legs[dst].amount
      /\ legs[src].compensates = 0 /\ legs[dst].compensates = 0
      /\ WithinDailyCap(src, legs[src].amount)

\* Request r of user u is executed with document d.
Pays(u, r, d) ==
  /\ LinkDocument(d)
  /\ \E S, legs : /\ Posts(legs, S) /\ Balanced(legs, S) /\ u \in S
                  /\ RowsOf(legs, S, r.kind, r.amount, d)

\* A transaction without a document: a deposit, a transfer, a reversal.
PostsBare ==
  /\ \E S, legs : Posts(legs, S) /\ Balanced(legs, S) /\ \A a \in S : legs[a].doc = NoDoc
  /\ UNCHANGED <<docTx, holds, idem, applied>>

Parks(u, k, r, d) ==
  /\ HoldDecision(d) /\ d \in Docs
  /\ ClaimIdempotencyKey(u, k)
  /\ CreateHold(u, r, d)
  /\ StoreIdempotentResponse(u, k, [held |-> TRUE, id |-> Len(holds) + 1])

PaysAtOnce(u, k, r, d) ==
  /\ ~HoldDecision(d)
  /\ ClaimIdempotencyKey(u, k) /\ CheckDocument(d, u, r.amount)
  /\ Pays(u, r, d)
  /\ StoreIdempotentResponse(u, k, [held |-> FALSE, id |-> nextTx])
  /\ UNCHANGED holds

Releases(h) ==
  /\ ReleaseHold(h)
  /\ Pays(holds[h].user, holds[h].request, holds[h].doc)

LEMMA RowsBalanced ==
  ASSUME NEW legs, NEW S, NEW kind, NEW m, NEW d, RowsOf(legs, S, kind, m, d)
  PROVE  Balanced(legs, S)
BY DEF RowsOf, Balanced

LEMMA ExecuteRequestPays ==
  ASSUME TypeOK, NEW owner \in Accounts, NEW r \in Requests, NEW actor,
         NEW d \in DocOrNone, ExecuteRequestTx(owner, r, actor, d)
  PROVE  Pays(owner, r, d)
<1>1. LinkDocument(d)
  BY ExecuteRequestRows
<1>2. PICK S, legs : /\ Posts(legs, S) /\ owner \in S
                     /\ RowsOf(legs, S, r.kind, r.amount, d)
  BY ExecuteRequestRows
<1>3. Balanced(legs, S)
  BY <1>2, RowsBalanced
<1> QED BY <1>1, <1>2, <1>3 DEF Pays

LEMMA StepForms ==
  ASSUME TypeOK, [Next]_vars
  PROVE  \/ PostsBare
         \/ \E u \in Customers, k \in Keys \cup {NoKey}, r \in Requests, d \in DocOrNone :
              Parks(u, k, r, d)
         \/ \E u \in Customers, k \in Keys \cup {NoKey}, r \in Requests, d \in DocOrNone :
              PaysAtOnce(u, k, r, d)
         \/ \E h \in DOMAIN holds : Releases(h)
         \/ \E h \in DOMAIN holds : RejectHold(h)
         \/ UNCHANGED <<ledger, nextTx, docTx, holds, idem, applied>>
<1>1. ASSUME NEW a \in Customers, CreateAccount(a)
      PROVE  UNCHANGED <<ledger, nextTx, docTx, holds, idem, applied>>
  BY <1>1 DEF CreateAccount
<1>2. ASSUME NEW a \in Accounts, NEW m \in Amounts, Deposit(a, m) PROVE PostsBare
  <2>1. PICK S, legs : Posts(legs, S) /\ RowsOf(legs, S, "DEPOSIT", m, NoDoc)
    BY <1>2, DepositRows, ConstantsAssumption
  <2>2. Balanced(legs, S)
    BY <2>1, RowsBalanced
  <2> QED BY <1>2, <2>1, <2>2 DEF PostsBare, RowsOf, Deposit
<1>3. ASSUME NEW u \in Customers, NEW m \in Amounts, Withdraw(u, m) PROVE PostsBare
  <2>1. PICK S, legs : Posts(legs, S) /\ RowsOf(legs, S, "WITHDRAW", m, NoDoc)
    BY <1>3, WithdrawRows, ConstantsAssumption DEF Withdraw, Customers, DocOrNone
  <2>2. Balanced(legs, S)
    BY <2>1, RowsBalanced
  <2> QED
    BY <1>3, <2>1, <2>2 DEF PostsBare, RowsOf, Withdraw, WithdrawTx, LinkDocument
<1>4. ASSUME NEW src \in Accounts, NEW dst \in Accounts, NEW m \in Amounts,
             NEW actor \in {Staff} \cup Customers, Transfer(actor, src, dst, m)
      PROVE  PostsBare
  <2>1. /\ src # dst /\ m \in Int /\ "TRANSFER" \in OutboundTypes /\ NoDoc \in DocOrNone
        /\ MoveFundsTx(actor, src, dst, m, "TRANSFER", NoDoc)
    BY <1>4, ConstantsAssumption DEF Transfer, ValidateMove, OutboundTypes, DocOrNone
  <2>2. PICK S, legs : Posts(legs, S) /\ RowsOf(legs, S, "TRANSFER", m, NoDoc)
    BY <2>1, MoveFundsRows
  <2>3. Balanced(legs, S)
    BY <2>2, RowsBalanced
  <2> QED
    BY <1>4, <2>1, <2>2, <2>3 DEF PostsBare, RowsOf, Transfer, MoveFundsTx, LinkDocument
<1>5. ASSUME NEW u \in Customers, NEW k \in Keys \cup {NoKey}, NEW r \in Requests,
             NEW d \in DocOrNone, CreateTransaction(u, k, r, d)
      PROVE  Parks(u, k, r, d) \/ PaysAtOnce(u, k, r, d)
  <2>1. CASE /\ HoldDecision(d) /\ CreateHold(u, r, d)
             /\ StoreIdempotentResponse(u, k, [held |-> TRUE, id |-> Len(holds) + 1])
    BY <1>5, <2>1 DEF CreateTransaction, Parks, HoldDecision, DocOrNone
  <2>2. CASE /\ ~HoldDecision(d) /\ ExecuteRequestTx(u, r, u, d)
             /\ StoreIdempotentResponse(u, k, [held |-> FALSE, id |-> nextTx])
             /\ UNCHANGED holds
    <3>1. Pays(u, r, d)
      BY <2>2, ExecuteRequestPays DEF Customers
    <3> QED BY <1>5, <2>2, <3>1 DEF CreateTransaction, PaysAtOnce
  <2> QED BY <1>5, <2>1, <2>2 DEF CreateTransaction
<1>6. ASSUME NEW t \in 1..MaxTx, CancelTransaction(t) PROVE PostsBare
  <2>1. PICK legs \in [Touched(t) -> Entry] :
          /\ Posts(legs, Touched(t))
          /\ \A a \in Touched(t) : legs[a].kind = "CANCELLATION" /\ legs[a].doc = NoDoc
    BY <1>6, CancelPosts, ConstantsAssumption DEF PostsReversal
  <2>2. Balanced(legs, Touched(t))
    BY <2>1 DEF Balanced, OutboundTypes
  <2> QED BY <1>6, <2>1, <2>2 DEF PostsBare, CancelTransaction
<1>7. ASSUME NEW h \in DOMAIN holds, ReleaseHold(h) PROVE Releases(h)
  <2>1. holds[h] \in Hold
    BY DEF TypeOK
  <2>2. /\ holds[h].user \in Accounts /\ holds[h].request \in Requests
        /\ holds[h].doc \in DocOrNone
    BY <2>1 DEF Hold, Customers, DocOrNone
  <2> QED BY <1>7, <2>2, ExecuteRequestPays DEF Releases, ReleaseHold
<1>8. CASE Tick
  BY <1>8 DEF Tick
<1>9. CASE UNCHANGED vars
  BY <1>9 DEF vars
<1>10. CASE Next
  BY <1>10, <1>1, <1>2, <1>3, <1>4, <1>5, <1>6, <1>7, <1>8 DEF Next
<1> QED BY <1>9, <1>10

-----------------------------------------------------------------------------
(* Transfers.                                                              *)

\* What TransfersBalance says of one transaction.
BalancedTx(t) ==
  (\E a \in Touched(t) : ledger[a][RowIn(ledger[a], t)].kind \in OutboundTypes) =>
    \E src \in Accounts, dst \in Accounts :
      /\ src # dst
      /\ Touched(t) = {src, dst}
      /\ ledger[src][RowIn(ledger[src], t)].type = "DEBIT"
      /\ ledger[dst][RowIn(ledger[dst], t)].type = "CREDIT"
      /\ ledger[src][RowIn(ledger[src], t)].amount = ledger[dst][RowIn(ledger[dst], t)].amount
      /\ Currency[src] = Currency[dst]

\* A posting leaves the row that an earlier transaction has in an account.
LEMMA PostsKeepRow ==
  ASSUME TypeOK, TxIdsFresh, OneRowPerTx, NEW S, NEW legs, Posts(legs, S),
         NEW t, t # nextTx, NEW a \in Touched(t)
  PROVE  ledger'[a][RowIn(ledger'[a], t)] = ledger[a][RowIn(ledger[a], t)]
<1> DEFINE r == RowIn(ledger[a], t)
<1>1. a \in Accounts /\ r \in DOMAIN ledger[a]
  BY RowOfTouched DEF RowOf
<1>2. RowIn(ledger'[a], t) = r
  BY PostsTouched
<1> HIDE DEF r
<1>3. ledger'[a][r] = ledger[a][r]
  BY <1>1, PostsAppends
<1> QED BY <1>2, <1>3 DEF r

LEMMA BalancedStays ==
  ASSUME TypeOK, TxIdsFresh, OneRowPerTx, NEW S, NEW legs, Posts(legs, S),
         NEW t, t # nextTx, BalancedTx(t)
  PROVE  BalancedTx(t)'
<1>1. Touched(t)' = Touched(t)
  BY PostsTouched
<1>2. \A a \in Touched(t) : ledger'[a][RowIn(ledger'[a], t)] = ledger[a][RowIn(ledger[a], t)]
  BY PostsKeepRow
<1> SUFFICES ASSUME NEW a \in Touched(t),
                    ledger'[a][RowIn(ledger'[a], t)].kind \in OutboundTypes
             PROVE  \E src \in Accounts, dst \in Accounts :
      /\ src # dst
      /\ Touched(t)' = {src, dst}
      /\ ledger'[src][RowIn(ledger'[src], t)].type = "DEBIT"
      /\ ledger'[dst][RowIn(ledger'[dst], t)].type = "CREDIT"
      /\ ledger'[src][RowIn(ledger'[src], t)].amount = ledger'[dst][RowIn(ledger'[dst], t)].amount
      /\ Currency[src] = Currency[dst]
  BY <1>1 DEF BalancedTx
<1>3. PICK src \in Accounts, dst \in Accounts :
      /\ src # dst
      /\ Touched(t) = {src, dst}
      /\ ledger[src][RowIn(ledger[src], t)].type = "DEBIT"
      /\ ledger[dst][RowIn(ledger[dst], t)].type = "CREDIT"
      /\ ledger[src][RowIn(ledger[src], t)].amount = ledger[dst][RowIn(ledger[dst], t)].amount
      /\ Currency[src] = Currency[dst]
  BY <1>2 DEF BalancedTx
<1> QED BY <1>1, <1>2, <1>3

LEMMA BalancedNew ==
  ASSUME TypeOK, TxIdsFresh, OneRowPerTx, NEW S, NEW legs, Posts(legs, S),
         Balanced(legs, S), NEW t, t = nextTx
  PROVE  BalancedTx(t)'
<1>1. Touched(t)' = S
  BY PostsTouched
<1>2. ASSUME NEW a \in S PROVE ledger'[a][RowIn(ledger'[a], t)] = legs[a]
  <2>1. a \in Accounts /\ RowIn(ledger'[a], t) = Len(ledger[a]) + 1
    BY PostsTouched DEF Posts
  <2> QED BY <2>1, PostsAppends
<1> SUFFICES ASSUME NEW a \in S, legs[a].kind \in OutboundTypes
             PROVE  \E src \in Accounts, dst \in Accounts :
      /\ src # dst
      /\ Touched(t)' = {src, dst}
      /\ ledger'[src][RowIn(ledger'[src], t)].type = "DEBIT"
      /\ ledger'[dst][RowIn(ledger'[dst], t)].type = "CREDIT"
      /\ ledger'[src][RowIn(ledger'[src], t)].amount = ledger'[dst][RowIn(ledger'[dst], t)].amount
      /\ Currency[src] = Currency[dst]
  BY <1>1, <1>2 DEF BalancedTx
<1>3. PICK src \in Accounts, dst \in Accounts :
      /\ src # dst /\ S = {src, dst} /\ Currency[src] = Currency[dst]
      /\ legs[src].type = "DEBIT" /\ legs[dst].type = "CREDIT"
      /\ legs[src].amount = legs[dst].amount
  BY DEF Balanced
<1> QED BY <1>1, <1>2, <1>3

\* Every step that posts, posts balanced rows.
LEMMA StepBalanced ==
  ASSUME TypeOK, [Next]_vars
  PROVE  \/ \E S, legs : Posts(legs, S) /\ Balanced(legs, S)
         \/ UNCHANGED <<ledger, nextTx>>
<1>1. CASE PostsBare
  BY <1>1 DEF PostsBare
<1>2. ASSUME NEW u, NEW k, NEW r, NEW d, Parks(u, k, r, d)
      PROVE  UNCHANGED <<ledger, nextTx>>
  BY <1>2 DEF Parks, CreateHold
<1>3. ASSUME NEW u, NEW k, NEW r, NEW d, PaysAtOnce(u, k, r, d)
      PROVE  \E S, legs : Posts(legs, S) /\ Balanced(legs, S)
  BY <1>3 DEF PaysAtOnce, Pays
<1>4. ASSUME NEW h, Releases(h)
      PROVE  \E S, legs : Posts(legs, S) /\ Balanced(legs, S)
  BY <1>4 DEF Releases, Pays
<1>5. ASSUME NEW h, RejectHold(h)
      PROVE  UNCHANGED <<ledger, nextTx>>
  BY <1>5 DEF RejectHold
<1> QED BY <1>1, <1>2, <1>3, <1>4, <1>5, StepForms

\* Money neither appears nor vanishes on the way: every transfer and payment,
\* also one released from review long after it was asked for, has one DEBIT
\* and one CREDIT of the same amount and currency.
THEOREM DoubleEntry == Spec => []TransfersBalance
<1> DEFINE Inv == \A t \in 1..(nextTx - 1) : BalancedTx(t)
<1>1. Inv <=> TransfersBalance
  BY DEF BalancedTx, TransfersBalance, RowOf
<1>2. Init => Inv
  BY DEF Init
<1>3. TypeOK /\ ReversalInv /\ Inv /\ [Next]_vars => Inv'
  <2> SUFFICES ASSUME TypeOK, ReversalInv, Inv, [Next]_vars PROVE Inv'
    OBVIOUS
  <2>1. TxIdsFresh /\ OneRowPerTx /\ nextTx \in Nat
    BY DEF ReversalInv, TypeOK
  <2>2. ASSUME NEW S, NEW legs, Posts(legs, S), Balanced(legs, S),
               NEW t \in 1..(nextTx' - 1)
        PROVE  BalancedTx(t)'
    <3>1. nextTx' = nextTx + 1
      BY <2>2 DEF Posts, InsertEntries
    <3>2. CASE t = nextTx
      BY <2>1, <2>2, <3>2, BalancedNew
    <3>3. CASE t # nextTx
      <4>1. t \in 1..(nextTx - 1)
        BY <2>1, <3>1, <3>3
      <4> QED BY <2>1, <2>2, <3>3, <4>1, BalancedStays
    <3> QED BY <3>2, <3>3
  <2>3. CASE UNCHANGED <<ledger, nextTx>>
    <3>1. ASSUME NEW t PROVE BalancedTx(t)' <=> BalancedTx(t)
      BY <2>3 DEF BalancedTx, Touched, RowIn
    <3> HIDE DEF BalancedTx
    <3> QED BY <2>3, <3>1
  <2> QED BY <2>2, <2>3, StepBalanced
<1>4. Spec => []Inv
  BY <1>2, <1>3, TypeCorrect, ReversalInvariant, PTL DEF Spec
<1> QED BY <1>1, <1>4, PTL

-----------------------------------------------------------------------------
(* Documents.                                                              *)

\* Hold h was released as the transaction of row e, with what was held.
ReleasedAs(h, e) ==
  /\ holds[h].status = "RELEASED" /\ holds[h].tx = e.tx
  /\ holds[h].doc = e.doc
  /\ holds[h].request.kind = e.kind
  /\ holds[h].request.amount = e.amount
  /\ holds[h].user \in Touched(e.tx)

\* What one row of account a needs if its document was to be reviewed.
RowReleased(a, i) ==
  HoldDecision(ledger[a][i].doc) => \E h \in DOMAIN holds : ReleasedAs(h, ledger[a][i])

\* A decided hold is never touched again, and no hold disappears.
LEMMA DecidedHoldsStay ==
  ASSUME TypeOK, [Next]_vars, NEW h \in DOMAIN holds, holds[h].status = "RELEASED"
  PROVE  h \in DOMAIN holds' /\ holds'[h] = holds[h]
<1>0. holds \in Seq(Hold)
  BY DEF TypeOK
<1>1. CASE PostsBare
  BY <1>1 DEF PostsBare
<1>2. ASSUME NEW u \in Customers, NEW k, NEW r \in Requests, NEW d, Parks(u, k, r, d)
      PROVE  h \in DOMAIN holds' /\ holds'[h] = holds[h]
  <2> DEFINE x == [user |-> u, request |-> r, doc |-> d, status |-> "PENDING_REVIEW", tx |-> 0]
  <2>1. x \in Hold
    BY <1>2 DEF Parks, Hold
  <2>2. holds' = Append(holds, x)
    BY <1>2 DEF Parks, CreateHold
  <2> HIDE DEF x
  <2> QED BY <1>0, <2>1, <2>2
<1>3. ASSUME NEW u, NEW k, NEW r, NEW d, PaysAtOnce(u, k, r, d)
      PROVE  h \in DOMAIN holds' /\ holds'[h] = holds[h]
  BY <1>3 DEF PaysAtOnce
<1>4. ASSUME NEW g \in DOMAIN holds, Releases(g) \/ RejectHold(g)
      PROVE  h \in DOMAIN holds' /\ holds'[h] = holds[h]
  <2>1. g # h
    BY <1>4 DEF Releases, ReleaseHold, RejectHold
  <2>2. PICK x : holds' = [holds EXCEPT ![g] = x]
    <3>1. CASE Releases(g)
      BY <3>1, Zenon DEF Releases, ReleaseHold
    <3>2. CASE RejectHold(g)
      BY <3>2, Zenon DEF RejectHold
    <3> QED BY <1>4, <3>1, <3>2
  <2> QED BY <2>1, <2>2, Zenon
<1> QED BY <1>1, <1>2, <1>3, <1>4, StepForms

\* Deciding about a hold changes what became of it, not what it is.
LEMMA DecisionKeepsRequest ==
  ASSUME TypeOK, NEW g \in DOMAIN holds, ReleaseHold(g) \/ RejectHold(g)
  PROVE  \E x : /\ holds' = [holds EXCEPT ![g] = x]
                /\ x.user = holds[g].user /\ x.doc = holds[g].doc
<1>1. holds \in Seq(Hold)
  BY DEF TypeOK
<1>2. holds[g] \in Hold
  BY <1>1
<1>3. CASE ReleaseHold(g)
  <2> DEFINE x == [holds[g] EXCEPT !.status = "RELEASED", !.tx = nextTx]
  <2>1. holds' = [holds EXCEPT ![g] = x]
    BY <1>3 DEF ReleaseHold
  <2>2. x.user = holds[g].user /\ x.doc = holds[g].doc
    BY <1>2 DEF Hold
  <2> HIDE DEF x
  <2> QED BY <2>1, <2>2
<1>4. CASE RejectHold(g)
  <2> DEFINE x == [holds[g] EXCEPT !.status = "REJECTED"]
  <2>1. holds' = [holds EXCEPT ![g] = x]
    BY <1>4 DEF RejectHold
  <2>2. x.user = holds[g].user /\ x.doc = holds[g].doc
    BY <1>2 DEF Hold
  <2> HIDE DEF x
  <2> QED BY <2>1, <2>2
<1> QED BY <1>3, <1>4

\* A transaction keeps the accounts it touched.
LEMMA TouchedStays ==
  ASSUME TypeOK, TxIdsFresh, OneRowPerTx, [Next]_vars,
         NEW a \in Accounts, NEW i \in DOMAIN ledger[a], NEW t, t = ledger[a][i].tx
  PROVE  Touched(t)' = Touched(t)
<1>1. t # nextTx
  <2>1. ledger[a] \in Seq(Entry) /\ nextTx \in Nat
    BY DEF TypeOK
  <2>2. ledger[a][i] \in Entry
    BY <2>1
  <2>3. t \in Nat /\ t < nextTx
    BY <2>2 DEF Entry, TxIdsFresh
  <2> QED BY <2>1, <2>3
<1>2. ASSUME NEW S, NEW legs, Posts(legs, S)
      PROVE  Touched(t)' = Touched(t)
  BY <1>1, <1>2, PostsTouched
<1>3. CASE UNCHANGED <<ledger, nextTx>>
  BY <1>3 DEF Touched
<1> QED BY <1>2, <1>3, StepBalanced

\* So a released row stays released.
LEMMA ReleasedStays ==
  ASSUME TypeOK, TxIdsFresh, OneRowPerTx, [Next]_vars,
         NEW a \in Accounts, NEW i \in DOMAIN ledger[a], NEW h \in DOMAIN holds,
         ReleasedAs(h, ledger[a][i]), ledger'[a][i] = ledger[a][i]
  PROVE  h \in DOMAIN holds' /\ ReleasedAs(h, ledger[a][i])'
<1>1. h \in DOMAIN holds' /\ holds'[h] = holds[h]
  BY DecidedHoldsStay DEF ReleasedAs
<1>2. ASSUME NEW t, t = ledger[a][i].tx PROVE Touched(t)' = Touched(t)
  BY <1>2, TouchedStays
<1> QED BY <1>1, <1>2 DEF ReleasedAs

\* The row a flagged request leaves behind names the hold it was released from.
LEMMA ReleaseNamesHold ==
  ASSUME TypeOK, TxIdsFresh, OneRowPerTx, NEW h \in DOMAIN holds, ReleaseHold(h),
         NEW S, NEW legs, Posts(legs, S), holds[h].user \in S,
         RowsOf(legs, S, holds[h].request.kind, holds[h].request.amount, holds[h].doc),
         NEW a \in S, NEW i, ledger'[a][i] = legs[a]
  PROVE  h \in DOMAIN holds' /\ ReleasedAs(h, ledger[a][i])'
<1>1. holds \in Seq(Hold)
  BY DEF TypeOK
<1>2. holds' = [holds EXCEPT ![h] = [holds[h] EXCEPT !.status = "RELEASED", !.tx = nextTx]]
  BY DEF ReleaseHold
<1>3. /\ h \in DOMAIN holds' /\ holds[h] \in Hold
      /\ holds'[h] = [holds[h] EXCEPT !.status = "RELEASED", !.tx = nextTx]
  BY <1>1, <1>2
<1>4. /\ holds'[h].status = "RELEASED" /\ holds'[h].tx = nextTx
      /\ holds'[h].user = holds[h].user /\ holds'[h].request = holds[h].request
      /\ holds'[h].doc = holds[h].doc
  BY <1>3 DEF Hold
<1>5. /\ legs[a].tx = nextTx /\ legs[a].kind = holds[h].request.kind
      /\ legs[a].amount = holds[h].request.amount /\ legs[a].doc = holds[h].doc
  BY DEF RowsOf, Posts, LegOK
<1>6. ASSUME NEW t, t = nextTx PROVE Touched(t)' = S
  BY <1>6, PostsTouched
<1> QED BY <1>3, <1>4, <1>5, <1>6 DEF ReleasedAs

\* Whatever is asked for, parked, retried, released or rejected in whatever
\* order, a document that the policy holds for review reaches the ledger only
\* with the request an employee released, for its amount, from its owner.
THEOREM FlaggedReviewed == Spec => []FlaggedDocumentNeedsRelease
<1> DEFINE Inv == \A a \in Accounts : \A i \in DOMAIN ledger[a] : RowReleased(a, i)
<1>1. Inv => FlaggedDocumentNeedsRelease
  BY DEF RowReleased, ReleasedAs, FlaggedDocumentNeedsRelease, HoldDecision
<1>2. Init => Inv
  BY DEF Init
<1>3. TypeOK /\ ReversalInv /\ Inv /\ [Next]_vars => Inv'
  <2> SUFFICES ASSUME TypeOK, ReversalInv, Inv, [Next]_vars,
                      NEW a \in Accounts, NEW i \in DOMAIN ledger'[a]
               PROVE  RowReleased(a, i)'
    OBVIOUS
  <2>1. TxIdsFresh /\ OneRowPerTx
    BY DEF ReversalInv
  <2>2. ASSUME i \in DOMAIN ledger[a], ledger'[a][i] = ledger[a][i]
        PROVE  RowReleased(a, i)'
    <3>1. CASE HoldDecision(ledger[a][i].doc)
      <4>1. PICK h \in DOMAIN holds : ReleasedAs(h, ledger[a][i])
        BY <2>2, <3>1 DEF RowReleased
      <4>2. h \in DOMAIN holds' /\ ReleasedAs(h, ledger[a][i])'
        BY <2>1, <2>2, <4>1, ReleasedStays
      <4> QED BY <4>2 DEF RowReleased
    <3>2. CASE ~HoldDecision(ledger[a][i].doc)
      BY <2>2, <3>2 DEF RowReleased, HoldDecision
    <3> QED BY <3>1, <3>2
  <2>3. ASSUME NEW S, NEW legs, Posts(legs, S),
               \A x \in S : ~HoldDecision(legs[x].doc)
        PROVE  RowReleased(a, i)'
    <3>1. CASE a \in S /\ ledger'[a][i] = legs[a]
      BY <2>3, <3>1 DEF RowReleased, HoldDecision
    <3> QED BY <2>2, <2>3, <3>1, PostsRows
  <2>4. CASE PostsBare
    BY <2>3, <2>4 DEF PostsBare, HoldDecision
  <2>5. ASSUME NEW u, NEW k, NEW r, NEW d, PaysAtOnce(u, k, r, d)
        PROVE  RowReleased(a, i)'
    <3>1. PICK S, legs : Posts(legs, S) /\ RowsOf(legs, S, r.kind, r.amount, d)
      BY <2>5 DEF PaysAtOnce, Pays
    <3>2. \A x \in S : ~HoldDecision(legs[x].doc)
      BY <2>5, <3>1 DEF PaysAtOnce, RowsOf
    <3> QED BY <2>3, <3>1, <3>2
  <2>6. ASSUME NEW h \in DOMAIN holds, Releases(h)
        PROVE  RowReleased(a, i)'
    <3>1. PICK S, legs :
            /\ Posts(legs, S) /\ holds[h].user \in S
            /\ RowsOf(legs, S, holds[h].request.kind, holds[h].request.amount, holds[h].doc)
      BY <2>6 DEF Releases, Pays
    <3>2. CASE a \in S /\ ledger'[a][i] = legs[a]
      <4>1. h \in DOMAIN holds' /\ ReleasedAs(h, ledger[a][i])'
        BY <2>1, <2>6, <3>1, <3>2, ReleaseNamesHold DEF Releases
      <4> QED BY <4>1 DEF RowReleased
    <3> QED BY <2>2, <3>1, <3>2, PostsRows
  <2>7. CASE ledger' = ledger
    BY <2>2, <2>7
  <2>8. ASSUME NEW u, NEW k, NEW r, NEW d, Parks(u, k, r, d) PROVE ledger' = ledger
    BY <2>8 DEF Parks, CreateHold
  <2>9. ASSUME NEW h, RejectHold(h) PROVE ledger' = ledger
    BY <2>9 DEF RejectHold
  <2> QED BY <2>4, <2>5, <2>6, <2>7, <2>8, <2>9, StepForms
<1>4. Spec => []Inv
  BY <1>2, <1>3, TypeCorrect, ReversalInvariant, PTL DEF Spec
<1> QED BY <1>1, <1>4, PTL

\* What keeps a document that needs no review to one transaction: once a row
\* carries it, its link names that row's transaction, and holds never carry it.
LinkNames ==
  /\ \A a \in Accounts : \A i \in DOMAIN ledger[a] :
       LET e == ledger[a][i]
       IN  /\ e.tx # 0
           /\ e.doc # NoDoc /\ ~HoldDecision(e.doc) => docTx[e.doc] = e.tx
  /\ \A h \in DOMAIN holds : HoldDecision(holds[h].doc)

\* Posting rows with document d, which is linked with them.
LEMMA PostsLinkNames ==
  ASSUME TypeOK, LinkNames, NEW S, NEW legs, Posts(legs, S), NEW d \in DocOrNone,
         \A x \in S : legs[x].doc = d, LinkDocument(d),
         HoldDecision(d) \/ d = NoDoc \/ docTx[d] = 0,
         NEW a \in Accounts, NEW i \in DOMAIN ledger'[a]
  PROVE  LET e == ledger'[a][i]
         IN  /\ e.tx # 0
             /\ e.doc # NoDoc /\ ~HoldDecision(e.doc) => docTx'[e.doc] = e.tx
<1>1. nextTx \in Nat \ {0} /\ docTx \in [Docs -> Nat]
  BY DEF TypeOK
<1>2. CASE i \in DOMAIN ledger[a] /\ ledger'[a][i] = ledger[a][i]
  <2> DEFINE e == ledger[a][i]
  <2>1. e.tx # 0 /\ (e.doc # NoDoc /\ ~HoldDecision(e.doc) => docTx[e.doc] = e.tx)
    BY <1>2 DEF LinkNames
  <2>2. ledger[a] \in Seq(Entry)
    BY DEF TypeOK
  <2>3. e \in Entry
    BY <1>2, <2>2
  <2>4. e.doc \in DocOrNone
    BY <2>3 DEF Entry
  <2> HIDE DEF e
  <2>5. e.doc # NoDoc /\ ~HoldDecision(e.doc) => docTx'[e.doc] = docTx[e.doc]
    BY <1>1, <2>1, <2>4 DEF LinkDocument, DocOrNone
  <2> QED BY <1>2, <2>1, <2>5 DEF e
<1>3. CASE a \in S /\ ledger'[a][i] = legs[a]
  <2>1. legs[a].tx = nextTx /\ legs[a].doc = d
    BY <1>3 DEF Posts, LegOK
  <2>2. d # NoDoc => docTx'[d] = nextTx
    BY <1>1 DEF LinkDocument, DocOrNone
  <2> QED BY <1>1, <1>3, <2>1, <2>2
<1> QED BY <1>2, <1>3, PostsRows

LEMMA LinkNamesStep ==
  ASSUME TypeOK, LinkNames, [Next]_vars
  PROVE  LinkNames'
<1>0. holds \in Seq(Hold)
  BY DEF TypeOK
<1>1. ASSUME NEW S, NEW legs, Posts(legs, S), NEW d \in DocOrNone,
             \A x \in S : legs[x].doc = d, LinkDocument(d),
             HoldDecision(d) \/ d = NoDoc \/ docTx[d] = 0,
             \A h \in DOMAIN holds' : HoldDecision(holds'[h].doc)
      PROVE  LinkNames'
  BY <1>1, PostsLinkNames DEF LinkNames, HoldDecision
<1>2. CASE PostsBare
  <2>1. PICK S, legs : Posts(legs, S) /\ \A x \in S : legs[x].doc = NoDoc
    BY <1>2 DEF PostsBare
  <2>2. NoDoc \in DocOrNone /\ LinkDocument(NoDoc) /\ holds' = holds
    BY <1>2 DEF PostsBare, LinkDocument, DocOrNone
  <2>3. \A h \in DOMAIN holds' : HoldDecision(holds'[h].doc)
    BY <2>2 DEF LinkNames
  <2> QED BY <1>1, <2>1, <2>2, <2>3
<1>3. ASSUME NEW u \in Customers, NEW k, NEW r \in Requests, NEW d, Parks(u, k, r, d)
      PROVE  LinkNames'
  <2> DEFINE x == [user |-> u, request |-> r, doc |-> d, status |-> "PENDING_REVIEW", tx |-> 0]
  <2>1. x \in Hold /\ x.doc = d
    BY <1>3 DEF Parks, Hold
  <2>2. holds' = Append(holds, x) /\ UNCHANGED <<ledger, docTx>> /\ HoldDecision(d)
    BY <1>3 DEF Parks, CreateHold
  <2> HIDE DEF x
  <2>3. \A h \in DOMAIN holds' : (h \in DOMAIN holds /\ holds'[h] = holds[h]) \/ holds'[h] = x
    BY <1>0, <2>1, <2>2
  <2>4. \A h \in DOMAIN holds' : HoldDecision(holds'[h].doc)
    BY <2>1, <2>2, <2>3 DEF LinkNames
  <2> QED BY <2>2, <2>4 DEF LinkNames, HoldDecision
<1>4. ASSUME NEW u, NEW k, NEW r, NEW d \in DocOrNone, PaysAtOnce(u, k, r, d)
      PROVE  LinkNames'
  <2>1. PICK S, legs : Posts(legs, S) /\ RowsOf(legs, S, r.kind, r.amount, d)
    BY <1>4 DEF PaysAtOnce, Pays
  <2>2. /\ LinkDocument(d) /\ (d = NoDoc \/ docTx[d] = 0) /\ holds' = holds
        /\ \A x \in S : legs[x].doc = d
    BY <1>4, <2>1 DEF PaysAtOnce, Pays, CheckDocument, RowsOf
  <2>3. \A h \in DOMAIN holds' : HoldDecision(holds'[h].doc)
    BY <2>2 DEF LinkNames
  <2> QED BY <1>1, <2>1, <2>2, <2>3
<1>5. ASSUME NEW g \in DOMAIN holds, ReleaseHold(g) \/ RejectHold(g)
      PROVE  \A h \in DOMAIN holds' : HoldDecision(holds'[h].doc)
  <2>1. PICK x : holds' = [holds EXCEPT ![g] = x] /\ x.doc = holds[g].doc
    BY <1>5, DecisionKeepsRequest
  <2>2. DOMAIN holds' = DOMAIN holds
    BY <2>1
  <2>3. \A h \in DOMAIN holds : holds'[h].doc = holds[h].doc
    BY <2>1
  <2> QED BY <2>2, <2>3 DEF LinkNames, HoldDecision
<1>6. ASSUME NEW h \in DOMAIN holds, Releases(h)
      PROVE  LinkNames'
  <2> DEFINE d == holds[h].doc
  <2>1. PICK S, legs :
          Posts(legs, S) /\ RowsOf(legs, S, holds[h].request.kind, holds[h].request.amount, d)
    BY <1>6 DEF Releases, Pays
  <2>2. /\ d \in DocOrNone /\ LinkDocument(d)
        /\ \A x \in S : legs[x].doc = d
    <3>1. holds[h] \in Hold
      BY <1>0
    <3>2. d \in DocOrNone
      BY <3>1 DEF Hold, DocOrNone
    <3> QED BY <1>6, <2>1, <3>2 DEF Releases, Pays, RowsOf
  <2>3. HoldDecision(d)
    BY DEF LinkNames
  <2>4. \A g \in DOMAIN holds' : HoldDecision(holds'[g].doc)
    BY <1>5, <1>6 DEF Releases
  <2> QED BY <1>1, <2>1, <2>2, <2>3, <2>4
<1>7. ASSUME NEW h \in DOMAIN holds, RejectHold(h)
      PROVE  LinkNames'
  <2>1. UNCHANGED <<ledger, docTx>>
    BY <1>7 DEF RejectHold
  <2> QED BY <1>5, <1>7, <2>1 DEF LinkNames, HoldDecision
<1>8. CASE UNCHANGED <<ledger, nextTx, docTx, holds, idem, applied>>
  BY <1>8 DEF LinkNames, HoldDecision
<1> QED BY <1>2, <1>3, <1>4, <1>6, <1>7, <1>8, StepForms

\* A document the policy lets through supports one transaction at most: it
\* cannot be shown again, by a second request that runs beside the first.
THEOREM CleanDocumentOnce == Spec => []CleanDocumentSingleUse
<1>1. Init => LinkNames
  BY DEF Init, LinkNames
<1>2. LinkNames => CleanDocumentSingleUse
  <2> SUFFICES ASSUME LinkNames, NEW d \in Docs, ~HoldDecision(d)
               PROVE  Cardinality(AttachedTo(d)) <= 1
    BY DEF CleanDocumentSingleUse
  <2>1. AttachedTo(d) \subseteq {docTx[d]}
    BY ConstantsAssumption DEF AttachedTo, LinkNames
  <2>2. /\ IsFiniteSet({docTx[d]}) /\ Cardinality({docTx[d]}) = 1
    BY FS_Singleton
  <2>3. Cardinality(AttachedTo(d)) <= Cardinality({docTx[d]})
    BY <2>1, <2>2, FS_Subset
  <2> QED BY <2>2, <2>3
<1> QED BY <1>1, <1>2, LinkNamesStep, TypeCorrect, PTL DEF Spec

-----------------------------------------------------------------------------
(* Idempotency keys.                                                       *)

\* The effect a stored response names exists, and is of user u.
Names(u, response) ==
  IF response.held
  THEN response.id \in DOMAIN holds /\ holds[response.id].user = u
  ELSE u \in Touched(response.id)

\* A hold keeps its user, and no hold disappears.
LEMMA HoldUsersStay ==
  ASSUME TypeOK, [Next]_vars, NEW h \in DOMAIN holds
  PROVE  h \in DOMAIN holds' /\ holds'[h].user = holds[h].user
<1>0. holds \in Seq(Hold)
  BY DEF TypeOK
<1>1. ASSUME NEW u \in Customers, NEW k, NEW r \in Requests, NEW d, Parks(u, k, r, d)
      PROVE  h \in DOMAIN holds' /\ holds'[h] = holds[h]
  <2> DEFINE x == [user |-> u, request |-> r, doc |-> d, status |-> "PENDING_REVIEW", tx |-> 0]
  <2>1. x \in Hold
    BY <1>1 DEF Parks, Hold
  <2>2. holds' = Append(holds, x)
    BY <1>1 DEF Parks, CreateHold
  <2> HIDE DEF x
  <2> QED BY <1>0, <2>1, <2>2
<1>2. ASSUME NEW g \in DOMAIN holds, ReleaseHold(g) \/ RejectHold(g)
      PROVE  h \in DOMAIN holds' /\ holds'[h].user = holds[h].user
  <2>1. PICK x : holds' = [holds EXCEPT ![g] = x] /\ x.user = holds[g].user
    BY <1>2, DecisionKeepsRequest
  <2> QED BY <2>1
<1>3. CASE holds' = holds
  BY <1>3
<1>4. PostsBare => holds' = holds
  BY DEF PostsBare
<1>5. ASSUME NEW u, NEW k, NEW r, NEW d, PaysAtOnce(u, k, r, d) PROVE holds' = holds
  BY <1>5 DEF PaysAtOnce
<1>6. ASSUME NEW g, Releases(g) PROVE ReleaseHold(g)
  BY <1>6 DEF Releases
<1> QED BY <1>1, <1>2, <1>3, <1>4, <1>5, <1>6, StepForms

\* What a response names goes on existing.
LEMMA NamesStay ==
  ASSUME TypeOK, TxIdsFresh, OneRowPerTx, [Next]_vars,
         NEW v \in Customers, NEW x \in Response, Names(v, x)
  PROVE  Names(v, x)'
<1>1. CASE x.held
  BY <1>1, HoldUsersStay DEF Names
<1>2. CASE ~x.held
  <2>1. PICK a \in Accounts : a = v /\ \E i \in DOMAIN ledger[a] : ledger[a][i].tx = x.id
    BY <1>2 DEF Names, Touched
  <2>2. PICK i \in DOMAIN ledger[a] : ledger[a][i].tx = x.id
    BY <2>1
  <2>3. Touched(x.id)' = Touched(x.id)
    BY <2>2, TouchedStays
  <2> QED BY <1>2, <2>3 DEF Names
<1> QED BY <1>1, <1>2

\* What a response names is older than the next effect.
LEMMA NamesOld ==
  ASSUME TypeOK, TxIdsFresh, NEW v, NEW x \in Response, Names(v, x)
  PROVE  /\ x # [held |-> TRUE, id |-> Len(holds) + 1]
         /\ x # [held |-> FALSE, id |-> nextTx]
<1>1. holds \in Seq(Hold) /\ nextTx \in Nat
  BY DEF TypeOK
<1>2. CASE x.held
  BY <1>1, <1>2 DEF Names
<1>3. CASE ~x.held
  <2>1. x.id < nextTx
    BY <1>3 DEF Names, Touched, TxIdsFresh
  <2> QED BY <1>1, <1>3, <2>1
<1> QED BY <1>2, <1>3

\* Storing the response of an effect that has just been made, under a key that
\* had none.
LEMMA StoreKeeps ==
  ASSUME TypeOK, KeyTakesEffectOnce,
         NEW u \in Customers, NEW k \in Keys \cup {NoKey}, NEW response \in Response,
         ClaimIdempotencyKey(u, k), StoreIdempotentResponse(u, k, response),
         response # NoResponse, Names(u, response)',
         \A v \in Customers, x \in Response : Names(v, x) => Names(v, x)' /\ x # response
  PROVE  KeyTakesEffectOnce'
<1>1. /\ idem \in [Customers -> [Keys -> Response]] /\ applied \in [Customers -> [Keys -> Nat]]
      /\ \A v \in Customers, l \in Keys :
           /\ applied[v][l] = IF idem[v][l] = NoResponse THEN 0 ELSE 1
           /\ idem[v][l] # NoResponse =>
                /\ Names(v, idem[v][l])
                /\ \A w \in Customers, m \in Keys : idem[w][m] = idem[v][l] => w = v /\ m = l
  BY DEF TypeOK, KeyTakesEffectOnce, Names
<1> SUFFICES ASSUME NEW v \in Customers, NEW l \in Keys
             PROVE  /\ applied'[v][l] = IF idem'[v][l] = NoResponse THEN 0 ELSE 1
                    /\ idem'[v][l] # NoResponse =>
                         /\ \A x \in Response : x = idem'[v][l] => Names(v, x)'
                         /\ \A w \in Customers, m \in Keys :
                              idem'[w][m] = idem'[v][l] => w = v /\ m = l
  <2>1. ASSUME k = NoKey PROVE idem' \in [Customers -> [Keys -> Response]]
    BY <2>1 DEF StoreIdempotentResponse, TypeOK
  <2>2. ASSUME k # NoKey PROVE idem' \in [Customers -> [Keys -> Response]]
    <3>1. idem' = [idem EXCEPT ![u][k] = response]
      BY <2>2 DEF StoreIdempotentResponse
    <3> QED BY <2>2, <3>1 DEF TypeOK
  <2>3. idem' \in [Customers -> [Keys -> Response]]
    BY <2>1, <2>2
  <2>4. ASSUME NEW v \in Customers, NEW l \in Keys PROVE idem'[v][l] \in Response
    BY <2>3
  <2> QED BY <2>4 DEF KeyTakesEffectOnce, Names
<1>2. \A w \in Customers, m \in Keys :
        IF w = u /\ m = k
        THEN idem'[w][m] = response /\ applied'[w][m] = 1
        ELSE idem'[w][m] = idem[w][m] /\ applied'[w][m] = applied[w][m]
  BY <1>1, ConstantsAssumption DEF StoreIdempotentResponse, ClaimIdempotencyKey
<1>3. CASE v = u /\ l = k
  <2>1. \A w \in Customers, m \in Keys : ~(w = u /\ m = k) => idem[w][m] # response
    BY <1>1
  <2> QED BY <1>2, <1>3, <2>1
<1>4. CASE ~(v = u /\ l = k)
  <2>1. idem[v][l] # NoResponse => idem[v][l] # response
    BY <1>1
  <2> QED BY <1>1, <1>2, <1>4, <2>1
<1> QED BY <1>3, <1>4

\* However often a client retries, whatever it sends along and whether the
\* request is parked or executed, a key takes effect once; what its stored
\* response names exists, is the client's own, and is no other key's effect.
THEOREM KeyOnce == Spec => []KeyTakesEffectOnce
<1>1. Init => KeyTakesEffectOnce
  BY DEF Init, KeyTakesEffectOnce
<1>2. TypeOK /\ ReversalInv /\ KeyTakesEffectOnce /\ [Next]_vars => KeyTakesEffectOnce'
  <2> SUFFICES ASSUME TypeOK, ReversalInv, KeyTakesEffectOnce, [Next]_vars
               PROVE  KeyTakesEffectOnce'
    OBVIOUS
  <2>1. /\ TxIdsFresh /\ OneRowPerTx /\ holds \in Seq(Hold) /\ nextTx \in Nat \ {0}
        /\ idem \in [Customers -> [Keys -> Response]]
    BY DEF ReversalInv, TypeOK
  <2>2. \A v \in Customers, x \in Response :
          Names(v, x) => /\ Names(v, x)'
                         /\ x # [held |-> TRUE, id |-> Len(holds) + 1]
                         /\ x # [held |-> FALSE, id |-> nextTx]
    BY <2>1, NamesStay, NamesOld
  <2>3. CASE UNCHANGED <<idem, applied>>
    <3>1. \A v \in Customers, l \in Keys : idem[v][l] # NoResponse => Names(v, idem[v][l])
      BY DEF KeyTakesEffectOnce, Names
    <3>2. ASSUME NEW v \in Customers, NEW l \in Keys, idem[v][l] # NoResponse,
                 NEW x, x = idem[v][l]
          PROVE  Names(v, x)'
      BY <2>1, <2>2, <3>1, <3>2
    <3> QED BY <2>3, <3>2 DEF KeyTakesEffectOnce, Names
  <2>4. ASSUME NEW u \in Customers, NEW k \in Keys \cup {NoKey}, NEW r \in Requests,
               NEW d, Parks(u, k, r, d)
        PROVE  KeyTakesEffectOnce'
    <3>1. ASSUME NEW response, response = [held |-> TRUE, id |-> Len(holds) + 1]
          PROVE  KeyTakesEffectOnce'
      <4>1. response \in Response /\ response # NoResponse
        BY <2>1, <3>1 DEF Response, NoResponse
      <4>2. Names(u, response)'
        <5> DEFINE x == [user |-> u, request |-> r, doc |-> d,
                         status |-> "PENDING_REVIEW", tx |-> 0]
        <5>1. x \in Hold /\ x.user = u
          BY <2>4 DEF Parks, Hold
        <5>2. holds' = Append(holds, x)
          BY <2>4 DEF Parks, CreateHold
        <5> HIDE DEF x
        <5>3. Len(holds) + 1 \in DOMAIN holds' /\ holds'[Len(holds) + 1] = x
          BY <2>1, <5>1, <5>2
        <5> QED BY <3>1, <5>1, <5>3 DEF Names
      <4> QED BY <2>2, <2>4, <3>1, <4>1, <4>2, StoreKeeps DEF Parks
    <3> QED BY <3>1
  <2>5. ASSUME NEW u \in Customers, NEW k \in Keys \cup {NoKey}, NEW r \in Requests,
               NEW d, PaysAtOnce(u, k, r, d)
        PROVE  KeyTakesEffectOnce'
    <3>1. ASSUME NEW response, response = [held |-> FALSE, id |-> nextTx]
          PROVE  KeyTakesEffectOnce'
      <4>1. response \in Response /\ response # NoResponse
        BY <2>1, <3>1 DEF Response, NoResponse
      <4>2. Names(u, response)'
        <5>1. PICK S, legs : Posts(legs, S) /\ u \in S
          BY <2>5 DEF PaysAtOnce, Pays
        <5>2. ASSUME NEW t, t = nextTx PROVE Touched(t)' = S
          BY <2>1, <5>1, <5>2, PostsTouched
        <5> QED BY <3>1, <5>1, <5>2 DEF Names
      <4> QED BY <2>2, <2>5, <3>1, <4>1, <4>2, StoreKeeps DEF PaysAtOnce
    <3> QED BY <3>1
  <2>6. ASSUME NEW h, Releases(h) PROVE UNCHANGED <<idem, applied>>
    BY <2>6 DEF Releases, ReleaseHold
  <2>7. ASSUME NEW h, RejectHold(h) PROVE UNCHANGED <<idem, applied>>
    BY <2>7 DEF RejectHold
  <2>8. PostsBare => UNCHANGED <<idem, applied>>
    BY DEF PostsBare
  <2> QED BY <2>3, <2>4, <2>5, <2>6, <2>7, <2>8, StepForms
<1> QED BY <1>1, <1>2, TypeCorrect, ReversalInvariant, PTL DEF Spec

-----------------------------------------------------------------------------
(* Sums over finite sets.  The library computes them by a recursive        *)
(* function; that it has values, and which, is shown by induction over the *)
(* size of the set, and the induction by the least counterexample.         *)

\* Induction, for a set of numbers.
LEMMA NatInduct ==
  ASSUME NEW T, 0 \in T, \A n \in Nat : n \in T => n + 1 \in T
  PROVE  \A n \in Nat : n \in T
<1> DEFINE R == {ss \in Nat \X Nat : ss[1] < ss[2]}
           B == {n \in Nat : n \notin T}
<1>0. IsWellFoundedOn(R, Nat)
  BY NatLessThanWellFounded, Zenon DEF OpToRel
<1> SUFFICES ASSUME B # {} PROVE FALSE
  OBVIOUS
<1>1. PICK x \in B : \A y \in B : ~(<<y, x>> \in R)
  <2>1. B \subseteq Nat
    OBVIOUS
  <2> HIDE DEF R, B
  <2> QED BY <1>0, <2>1, WFMin, Zenon
<1>2. x \in Nat /\ x # 0
  OBVIOUS
<1>3. x - 1 \in Nat /\ x - 1 \in B
  BY <1>2
<1>4. <<x - 1, x>> \in R
  BY <1>2, <1>3
<1> QED BY <1>1, <1>3, <1>4

\* What the recursion of the sum computes for a set, from a function for the smaller ones.
AnyOf(s) == CHOOSE x \in s : TRUE

SumBody(f, g, s) ==
  IF s = {} THEN 0 ELSE f[AnyOf(s)] + g[s \ {AnyOf(s)}]

SumTable(f, S) == CHOOSE g : g = [s \in SUBSET S |-> SumBody(f, g, s)]

LEMMA SumIsInTable ==
  ASSUME NEW f, NEW S
  PROVE  SumFunctionOnSet(f, S) = SumTable(f, S)[S]
BY Zenon DEF SumFunctionOnSet, FoldFunctionOnSet, MapThenFoldSet, SumTable, SumBody, AnyOf

UpTo(S, n) == {s \in SUBSET S : Cardinality(s) <= n}

LEMMA WithoutAny ==
  ASSUME NEW S, IsFiniteSet(S), NEW s \in SUBSET S
  PROVE  /\ IsFiniteSet(s) /\ Cardinality(s) \in Nat
         /\ s # {} => /\ AnyOf(s) \in s
                      /\ s \ {AnyOf(s)} \in SUBSET S
                      /\ Cardinality(s \ {AnyOf(s)}) = Cardinality(s) - 1
         /\ s # {} => Cardinality(s) # 0
<1>1. IsFiniteSet(s) /\ Cardinality(s) \in Nat
  BY FS_Subset, FS_CardinalityType
<1>2. s # {} => Cardinality(s) # 0
  BY <1>1, FS_EmptySet
<1>3. ASSUME s # {} PROVE \A x \in s : Cardinality(s \ {x}) = Cardinality(s) - 1
  BY <1>1, <1>3, FS_RemoveElement
<1>4. s # {} => AnyOf(s) \in s
  BY DEF AnyOf
<1> QED BY <1>1, <1>2, <1>3, <1>4

LEMMA BelowZero ==
  ASSUME NEW S, IsFiniteSet(S), NEW s \in UpTo(S, 0)
  PROVE  s = {}
<1>1. s \in SUBSET S /\ Cardinality(s) <= 0
  BY DEF UpTo
<1>2. IsFiniteSet(s) /\ Cardinality(s) \in Nat
  BY <1>1, FS_Subset, FS_CardinalityType
<1>3. Cardinality(s) = 0
  BY <1>1, <1>2
<1> QED BY <1>2, <1>3, FS_EmptySet

\* The recursion has a solution for the subsets of up to n elements.
LEMMA SumTableExists ==
  ASSUME NEW f, NEW S, IsFiniteSet(S)
  PROVE  SumTable(f, S) = [s \in SUBSET S |-> SumBody(f, SumTable(f, S), s)]
<1> DEFINE T == {n \in Nat : \E g : g = [s \in UpTo(S, n) |-> SumBody(f, g, s)]}
<1>1. 0 \in T
  <2> DEFINE g == [s \in UpTo(S, 0) |-> 0]
  <2>1. \A s \in UpTo(S, 0) : s = {}
    BY BelowZero
  <2>2. g = [s \in UpTo(S, 0) |-> SumBody(f, g, s)]
    BY <2>1 DEF SumBody
  <2> QED BY <2>2
<1>2. ASSUME NEW n \in Nat, n \in T PROVE n + 1 \in T
  <2>1. PICK g : g = [s \in UpTo(S, n) |-> SumBody(f, g, s)]
    BY <1>2
  <2> DEFINE h == [s \in UpTo(S, n + 1) |-> SumBody(f, g, s)]
  <2>2. ASSUME NEW s \in UpTo(S, n + 1), s # {}, NEW x, x = AnyOf(s)
        PROVE  h[s \ {x}] = g[s \ {x}]
    <3>1. s \ {x} \in UpTo(S, n) /\ s \ {x} \in UpTo(S, n + 1)
      BY <2>2, WithoutAny DEF UpTo
    <3>2. g[s \ {x}] = SumBody(f, g, s \ {x})
      BY <2>1, <3>1
    <3>3. h[s \ {x}] = SumBody(f, g, s \ {x})
      BY <3>1
    <3> QED BY <3>2, <3>3
  <2> HIDE DEF h
  <2>3. \A s \in UpTo(S, n + 1) : SumBody(f, h, s) = SumBody(f, g, s)
    BY <2>2 DEF SumBody
  <2>4. h = [s \in UpTo(S, n + 1) |-> SumBody(f, h, s)]
    BY <2>3 DEF h
  <2> QED BY <2>4
<1>3. Cardinality(S) \in T
  <2> HIDE DEF T
  <2> QED BY <1>1, <1>2, NatInduct, FS_CardinalityType
<1>4. UpTo(S, Cardinality(S)) = SUBSET S
  BY FS_Subset DEF UpTo
<1>5. \E g : g = [s \in SUBSET S |-> SumBody(f, g, s)]
  BY <1>3, <1>4
<1> QED BY <1>5 DEF SumTable

LEMMA SumTableAt ==
  ASSUME NEW f, NEW S, IsFiniteSet(S), NEW s \in SUBSET S
  PROVE  SumTable(f, S)[s] = SumBody(f, SumTable(f, S), s)
<1> DEFINE g == SumTable(f, S)
<1>1. g = [t \in SUBSET S |-> SumBody(f, g, t)]
  BY SumTableExists
<1> HIDE DEF g
<1>2. g[s] = SumBody(f, g, s)
  BY <1>1, Zenon
<1> QED BY <1>2 DEF g

\* The sums of a set's subsets do not depend on the set.
LEMMA SumTableLocal ==
  ASSUME NEW f, NEW S, IsFiniteSet(S), NEW R \in SUBSET S
  PROVE  SumTable(f, S)[R] = SumTable(f, R)[R]
<1> DEFINE g == SumTable(f, S)  h == SumTable(f, R)
           T == {n \in Nat : \A s \in UpTo(R, n) : g[s] = h[s]}
<1>0. IsFiniteSet(R) /\ Cardinality(R) \in Nat
  BY WithoutAny
<1>1. \A s \in SUBSET R : g[s] = SumBody(f, g, s) /\ h[s] = SumBody(f, h, s)
  BY <1>0, SumTableAt
<1> HIDE DEF g, h
<1>2. 0 \in T
  <2>1. \A s \in UpTo(R, 0) : s = {}
    BY <1>0, BelowZero
  <2> QED BY <1>1, <2>1 DEF SumBody, UpTo
<1>3. ASSUME NEW n \in Nat, n \in T PROVE n + 1 \in T
  <2> SUFFICES ASSUME NEW s \in UpTo(R, n + 1) PROVE g[s] = h[s]
    OBVIOUS
  <2>0. s \in SUBSET R /\ Cardinality(s) <= n + 1
    BY DEF UpTo
  <2>1. CASE s = {}
    BY <1>1, <2>0, <2>1 DEF SumBody
  <2>2. CASE s # {}
    <3> DEFINE x == AnyOf(s)
    <3>1. s \ {x} \in UpTo(R, n)
      BY <1>0, <2>0, <2>2, WithoutAny DEF UpTo
    <3>2. g[s \ {x}] = h[s \ {x}]
      BY <1>3, <3>1
    <3> QED BY <1>1, <2>0, <2>2, <3>2 DEF SumBody
  <2> QED BY <2>1, <2>2
<1>4. Cardinality(R) \in T
  <2> HIDE DEF T
  <2> QED BY <1>0, <1>2, <1>3, NatInduct
<1>5. R \in UpTo(R, Cardinality(R))
  BY <1>0 DEF UpTo
<1> QED BY <1>4, <1>5 DEF g, h

LEMMA SumEmpty ==
  ASSUME NEW f PROVE SumFunctionOnSet(f, {}) = 0
<1>1. IsFiniteSet({}) /\ {} \in SUBSET {}
  BY FS_EmptySet
<1>3. SumTable(f, {})[{}] = SumBody(f, SumTable(f, {}), {})
  BY <1>1, SumTableAt
<1> QED BY <1>3, SumIsInTable DEF SumBody

\* The sum of a set is its chosen element's amount and the sum of the others.
LEMMA SumOfChosen ==
  ASSUME NEW f, NEW S, IsFiniteSet(S), S # {}
  PROVE  SumFunctionOnSet(f, S) = f[AnyOf(S)] + SumFunctionOnSet(f, S \ {AnyOf(S)})
<1> DEFINE x == AnyOf(S)
<1>1. SumTable(f, S)[S] = SumBody(f, SumTable(f, S), S)
  BY SumTableAt
<1>2. SumTable(f, S)[S \ {x}] = SumTable(f, S \ {x})[S \ {x}]
  BY SumTableLocal
<1>3. SumBody(f, SumTable(f, S), S) = f[x] + SumTable(f, S)[S \ {x}]
  BY DEF SumBody
<1> HIDE DEF x
<1>4. SumFunctionOnSet(f, S) = f[x] + SumFunctionOnSet(f, S \ {x})
  BY <1>1, <1>2, <1>3, SumIsInTable
<1> QED BY <1>4 DEF x

\* What holds of a set when it holds of the set without any one element, holds of all.
LEMMA SubsetInduct ==
  ASSUME NEW S, IsFiniteSet(S), NEW T,
         \A s \in SUBSET S : (\A x \in s : s \ {x} \in T) => s \in T
  PROVE  \A s \in SUBSET S : s \in T
<1> DEFINE N == {n \in Nat : \A s \in UpTo(S, n) : s \in T}
<1>1. 0 \in N
  <2>1. {} \in SUBSET S
    OBVIOUS
  <2>2. {} \in T
    BY <2>1
  <2> QED BY <2>2, BelowZero
<1>2. ASSUME NEW n \in Nat, n \in N PROVE n + 1 \in N
  <2> SUFFICES ASSUME NEW s \in UpTo(S, n + 1) PROVE s \in T
    OBVIOUS
  <2>1. s \in SUBSET S /\ Cardinality(s) <= n + 1 /\ IsFiniteSet(s)
    BY FS_Subset DEF UpTo
  <2>2. ASSUME NEW x \in s PROVE s \ {x} \in UpTo(S, n)
    <3>1. Cardinality(s \ {x}) = Cardinality(s) - 1 /\ Cardinality(s) \in Nat
      BY <2>1, FS_RemoveElement, FS_CardinalityType
    <3> QED BY <2>1, <3>1 DEF UpTo
  <2>3. \A x \in s : s \ {x} \in T
    BY <1>2, <2>2
  <2> QED BY <2>1, <2>3
<1>3. \A n \in Nat : n \in N
  <2> HIDE DEF N
  <2> QED BY <1>1, <1>2, NatInduct
<1> SUFFICES ASSUME NEW s \in SUBSET S PROVE s \in T
  OBVIOUS
<1>4. Cardinality(s) \in Nat /\ s \in UpTo(S, Cardinality(s))
  BY FS_Subset, FS_CardinalityType DEF UpTo
<1> QED BY <1>3, <1>4

\* Rows that may be summed up.
Summable(f, S) == IsFiniteSet(S) /\ \A i \in S : f[i] \in Int

LEMMA SumType ==
  ASSUME NEW f, NEW S, Summable(f, S)
  PROVE  SumFunctionOnSet(f, S) \in Int
<1> DEFINE T == {s \in SUBSET S : SumFunctionOnSet(f, s) \in Int}
<1>1. ASSUME NEW s \in SUBSET S, \A x \in s : s \ {x} \in T PROVE SumFunctionOnSet(f, s) \in Int
  <2>1. CASE s = {}
    BY <2>1, SumEmpty
  <2>2. CASE s # {}
    <3>1. IsFiniteSet(s) /\ AnyOf(s) \in s
      BY <2>2, FS_Subset DEF AnyOf, Summable
    <3>2. SumFunctionOnSet(f, s \ {AnyOf(s)}) \in Int /\ f[AnyOf(s)] \in Int
      BY <1>1, <3>1 DEF Summable
    <3> QED BY <2>2, <3>1, <3>2, SumOfChosen
  <2> QED BY <2>1, <2>2
<1>2. \A s \in SUBSET S : s \in T
  <2>1. \A s \in SUBSET S : (\A x \in s : s \ {x} \in T) => s \in T
    BY <1>1
  <2> HIDE DEF T
  <2> QED BY <2>1, SubsetInduct DEF Summable
<1> QED BY <1>2

\* Any element may be taken out first.
LEMMA SumRemove ==
  ASSUME NEW f, NEW S, Summable(f, S), NEW x \in S
  PROVE  SumFunctionOnSet(f, S) = f[x] + SumFunctionOnSet(f, S \ {x})
<1> DEFINE T == {s \in SUBSET S :
                   \A i \in s : SumFunctionOnSet(f, s) = f[i] + SumFunctionOnSet(f, s \ {i})}
<1>1. ASSUME NEW s \in SUBSET S, \A i \in s : s \ {i} \in T, NEW i \in s
      PROVE  SumFunctionOnSet(f, s) = f[i] + SumFunctionOnSet(f, s \ {i})
  <2> DEFINE y == AnyOf(s)
  <2>0. IsFiniteSet(s) /\ s # {}
    BY FS_Subset DEF Summable
  <2>1. y \in s /\ SumFunctionOnSet(f, s) = f[y] + SumFunctionOnSet(f, s \ {y})
    BY <2>0, SumOfChosen DEF AnyOf
  <2> HIDE DEF y
  <2>2. CASE y = i
    BY <2>1, <2>2
  <2>3. CASE y # i
    <3>1. (s \ {y}) \ {i} = (s \ {i}) \ {y}
      OBVIOUS
    <3>2. SumFunctionOnSet(f, s \ {y}) = f[i] + SumFunctionOnSet(f, (s \ {y}) \ {i})
      BY <1>1, <2>1, <2>3
    <3>3. SumFunctionOnSet(f, s \ {i}) = f[y] + SumFunctionOnSet(f, (s \ {i}) \ {y})
      BY <1>1, <2>1, <2>3
    <3>4. Summable(f, (s \ {i}) \ {y})
      BY <2>0, FS_Subset DEF Summable
    <3>5. SumFunctionOnSet(f, (s \ {i}) \ {y}) \in Int /\ f[i] \in Int /\ f[y] \in Int
      BY <2>1, <3>4, SumType DEF Summable
    <3> DEFINE rest == SumFunctionOnSet(f, (s \ {i}) \ {y})
    <3>6. SumFunctionOnSet(f, s) = f[y] + (f[i] + rest)
      BY <2>1, <3>1, <3>2, Zenon
    <3>7. SumFunctionOnSet(f, s \ {i}) = f[y] + rest
      BY <3>3, Zenon
    <3>8. rest \in Int
      BY <3>5
    <3> HIDE DEF rest
    <3>9. f[y] + (f[i] + rest) = f[i] + (f[y] + rest)
      BY <3>5, <3>8
    <3> QED BY <3>6, <3>7, <3>9
  <2> QED BY <2>2, <2>3
<1>2. \A s \in SUBSET S : s \in T
  <2>1. \A s \in SUBSET S : (\A i \in s : s \ {i} \in T) => s \in T
    BY <1>1
  <2> HIDE DEF T
  <2> QED BY <2>1, SubsetInduct DEF Summable
<1> QED BY <1>2

\* One g row, and fewer f.
LEMMA SumAdd ==
  ASSUME NEW f, NEW S, Summable(f, S), NEW x, x \notin S, f[x] \in Int
  PROVE  SumFunctionOnSet(f, S \cup {x}) = f[x] + SumFunctionOnSet(f, S)
<1>1. Summable(f, S \cup {x})
  BY FS_AddElement DEF Summable
<1>2. (S \cup {x}) \ {x} = S
  OBVIOUS
<1> QED BY <1>1, <1>2, SumRemove

LEMMA SumMonotone ==
  ASSUME NEW f, NEW S, Summable(f, S), \A i \in S : f[i] >= 0, NEW R \in SUBSET S
  PROVE  SumFunctionOnSet(f, R) <= SumFunctionOnSet(f, S)
<1> DEFINE T == {s \in SUBSET (S \ R) : SumFunctionOnSet(f, R) <= SumFunctionOnSet(f, R \cup s)}
<1>1. ASSUME NEW s \in SUBSET (S \ R), \A i \in s : s \ {i} \in T
      PROVE  SumFunctionOnSet(f, R) <= SumFunctionOnSet(f, R \cup s)
  <2>0. Summable(f, R \cup s) /\ Summable(f, R)
    BY FS_Subset DEF Summable
  <2>1. CASE s = {}
    BY <2>0, <2>1, SumType
  <2>2. CASE s # {}
    <3>1. PICK i \in s : TRUE
      BY <2>2
    <3>2. SumFunctionOnSet(f, R) <= SumFunctionOnSet(f, R \cup (s \ {i}))
      BY <1>1, <3>1
    <3>3. (R \cup s) \ {i} = R \cup (s \ {i})
      BY <3>1
    <3>4. SumFunctionOnSet(f, R \cup s) = f[i] + SumFunctionOnSet(f, R \cup (s \ {i}))
      BY <2>0, <3>1, <3>3, SumRemove
    <3>5. Summable(f, R \cup (s \ {i})) /\ f[i] \in Int /\ f[i] >= 0
      BY <2>0, <3>1, <3>3, FS_Subset DEF Summable
    <3>6. SumFunctionOnSet(f, R \cup (s \ {i})) \in Int /\ SumFunctionOnSet(f, R) \in Int
      BY <2>0, <3>5, SumType
    <3> QED BY <3>2, <3>4, <3>5, <3>6
  <2> QED BY <2>1, <2>2
<1>2. \A s \in SUBSET (S \ R) : s \in T
  <2>1. \A s \in SUBSET (S \ R) : (\A i \in s : s \ {i} \in T) => s \in T
    BY <1>1
  <2>2. IsFiniteSet(S \ R)
    BY FS_Subset DEF Summable
  <2> HIDE DEF T
  <2> QED BY <2>1, <2>2, SubsetInduct
<1>3. R \cup (S \ R) = S /\ S \ R \in SUBSET (S \ R)
  OBVIOUS
<1> QED BY <1>2, <1>3

\* The sum depends on the f summed up only.
LEMMA SumSame ==
  ASSUME NEW f, NEW g, NEW S, IsFiniteSet(S), \A i \in S : f[i] = g[i]
  PROVE  SumFunctionOnSet(f, S) = SumFunctionOnSet(g, S)
<1> DEFINE T == {s \in SUBSET S : SumFunctionOnSet(f, s) = SumFunctionOnSet(g, s)}
<1>1. ASSUME NEW s \in SUBSET S, \A i \in s : s \ {i} \in T
      PROVE  SumFunctionOnSet(f, s) = SumFunctionOnSet(g, s)
  <2>1. CASE s = {}
    BY <2>1, SumEmpty
  <2>2. CASE s # {}
    <3>1. IsFiniteSet(s) /\ AnyOf(s) \in s
      BY <2>2, FS_Subset DEF AnyOf
    <3>2. SumFunctionOnSet(f, s \ {AnyOf(s)}) = SumFunctionOnSet(g, s \ {AnyOf(s)})
      BY <1>1, <3>1
    <3> QED BY <2>2, <3>1, <3>2, SumOfChosen
  <2> QED BY <2>1, <2>2
<1>2. \A s \in SUBSET S : s \in T
  <2>1. \A s \in SUBSET S : (\A i \in s : s \ {i} \in T) => s \in T
    BY <1>1
  <2> HIDE DEF T
  <2> QED BY <2>1, SubsetInduct
<1> QED BY <1>2

-----------------------------------------------------------------------------
(* The daily limit.                                                        *)

\* What an account sent out from one time to another, and how much it was.
SentRows(rows, from, to) ==
  {i \in DOMAIN rows : /\ rows[i].type = "DEBIT" /\ rows[i].kind \in OutboundTypes
                       /\ rows[i].at \in from..to}
Sent(rows, from, to) == SumFunctionOnSet(AmountsOf(rows), SentRows(rows, from, to))

Limited(a) == Currency[a] = "TND" /\ DailyLimit > 0

\* The limit, in windows that may also start later, and what makes the query that
\* the check is based on count every outbound row: none of them is a reversal.
CapInv ==
  \A a \in Accounts :
    /\ \A i \in DOMAIN ledger[a] :
         ledger[a][i].kind \in OutboundTypes => ledger[a][i].compensates = 0
    /\ Limited(a) => \A start \in Nat : Sent(ledger[a], start, start + Window) <= DailyLimit

\* The amounts of an account's rows can be summed up.
LEMMA RowsSummable ==
  ASSUME NEW rows \in Seq(Entry), NEW S \in SUBSET (DOMAIN rows)
  PROVE  /\ Summable(AmountsOf(rows), S)
         /\ \A i \in S : AmountsOf(rows)[i] = rows[i].amount /\ AmountsOf(rows)[i] >= 0
<1>1. DOMAIN rows = 1..Len(rows) /\ Len(rows) \in Nat
  OBVIOUS
<1>2. IsFiniteSet(S)
  <2>1. IsFiniteSet(1..Len(rows))
    BY <1>1, FS_Interval
  <2> QED BY <1>1, <2>1, FS_Subset
<1>3. ASSUME NEW i \in S
      PROVE  /\ AmountsOf(rows)[i] = rows[i].amount
             /\ AmountsOf(rows)[i] \in Int /\ AmountsOf(rows)[i] >= 0
  <2>1. i \in DOMAIN rows /\ rows[i] \in Entry
    BY <1>1
  <2> QED BY <2>1 DEF AmountsOf, Entry
<1> QED BY <1>2, <1>3 DEF Summable

\* One more row counts if it was sent in the period.
LEMMA AppendSent ==
  ASSUME NEW rows \in Seq(Entry), NEW e \in Entry, NEW from, NEW to
  PROVE  LET sends == e.type = "DEBIT" /\ e.kind \in OutboundTypes /\ e.at \in from..to
         IN  Sent(Append(rows, e), from, to) =
               IF sends THEN e.amount + Sent(rows, from, to) ELSE Sent(rows, from, to)
<1> DEFINE sends == e.type = "DEBIT" /\ e.kind \in OutboundTypes /\ e.at \in from..to
           n     == Len(rows) + 1
           more  == Append(rows, e)
           S     == SentRows(rows, from, to)
<1>1. /\ DOMAIN more = (DOMAIN rows) \cup {n} /\ n \notin DOMAIN rows
      /\ more[n] = e /\ \A i \in DOMAIN rows : more[i] = rows[i]
      /\ more \in Seq(Entry)
  OBVIOUS
<1> HIDE DEF more, n
<1>2. SentRows(more, from, to) = IF sends THEN S \cup {n} ELSE S
  BY <1>1 DEF SentRows
<1>3. S \in SUBSET (DOMAIN rows) /\ S \in SUBSET (DOMAIN more) /\ n \notin S
  BY <1>1 DEF SentRows
<1>4. SumFunctionOnSet(AmountsOf(more), S) = SumFunctionOnSet(AmountsOf(rows), S)
  <2>1. \A i \in S : AmountsOf(rows)[i] = AmountsOf(more)[i]
    BY <1>1, <1>3 DEF AmountsOf
  <2> QED BY <1>3, <2>1, RowsSummable, SumSame DEF Summable
<1>5. /\ AmountsOf(more)[n] = e.amount /\ e.amount \in Int
      /\ Summable(AmountsOf(more), S)
  <2>1. AmountsOf(more)[n] = e.amount
    BY <1>1 DEF AmountsOf
  <2>2. e.amount \in Int
    BY DEF Entry
  <2> QED BY <1>1, <1>3, <2>1, <2>2, RowsSummable
<1>6. SumFunctionOnSet(AmountsOf(more), S \cup {n})
        = e.amount + SumFunctionOnSet(AmountsOf(more), S)
  BY <1>3, <1>5, SumAdd
<1>7. Sent(more, from, to) = IF sends THEN e.amount + Sent(rows, from, to)
                                      ELSE Sent(rows, from, to)
  BY <1>2, <1>4, <1>6 DEF Sent
<1> QED BY <1>7 DEF more

\* A period within another one.
LEMMA SentLess ==
  ASSUME NEW rows \in Seq(Entry), NEW S \in SUBSET (DOMAIN rows), NEW R \in SUBSET S
  PROVE  /\ SumFunctionOnSet(AmountsOf(rows), R) <= SumFunctionOnSet(AmountsOf(rows), S)
         /\ SumFunctionOnSet(AmountsOf(rows), R) \in Int
         /\ SumFunctionOnSet(AmountsOf(rows), S) \in Int
BY RowsSummable, SumMonotone, SumType

\* Whatever is posted to an account, its sums stay within the limit.
LEMMA PostsCapped ==
  ASSUME TypeOK, CapInv, NEW S, NEW legs, Posts(legs, S), Balanced(legs, S)
  PROVE  CapInv'
<1> SUFFICES ASSUME NEW a \in Accounts
             PROVE  /\ \A i \in DOMAIN ledger'[a] :
                         ledger'[a][i].kind \in OutboundTypes => ledger'[a][i].compensates = 0
                    /\ Limited(a) => \A start \in Nat :
                         Sent(ledger'[a], start, start + Window) <= DailyLimit
  BY Zenon DEF CapInv, Limited, Sent, SentRows, AmountsOf
<1> DEFINE rows == ledger[a]
<1>0. /\ rows \in Seq(Entry)
      /\ \A i \in DOMAIN rows : rows[i].kind \in OutboundTypes => rows[i].compensates = 0
      /\ Limited(a) => \A start \in Nat : Sent(rows, start, start + Window) <= DailyLimit
  BY DEF TypeOK, CapInv
<1>1. CASE a \notin S
  <2>1. ledger'[a] = rows
    BY <1>1, PostsAppends
  <2> QED BY <1>0, <2>1
<1>2. CASE a \in S
  <2> DEFINE e == legs[a]
  <2>1. ledger'[a] = Append(rows, e) /\ e \in Entry /\ e.at = now
    BY <1>2, PostsAppends DEF LegOK
  <2>2. e.kind \in OutboundTypes =>
          /\ e.compensates = 0
          /\ e.type = "DEBIT" => WithinDailyCap(a, e.amount)
    BY <1>2 DEF Balanced
  <2> HIDE DEF rows, e
  <2>3. \A i \in DOMAIN ledger'[a] :
          ledger'[a][i].kind \in OutboundTypes => ledger'[a][i].compensates = 0
    <3>1. /\ DOMAIN ledger'[a] = (DOMAIN rows) \cup {Len(rows) + 1}
          /\ ledger'[a][Len(rows) + 1] = e
          /\ \A i \in DOMAIN rows : ledger'[a][i] = rows[i]
      BY <1>0, <2>1
    <3> QED BY <1>0, <2>2, <3>1
  <2>4. ASSUME Limited(a), NEW start \in Nat
        PROVE  Sent(ledger'[a], start, start + Window) <= DailyLimit
    <3> DEFINE to    == start + Window
               sends == e.type = "DEBIT" /\ e.kind \in OutboundTypes /\ e.at \in start..to
    <3>1. Sent(ledger'[a], start, to) =
            IF sends THEN e.amount + Sent(rows, start, to) ELSE Sent(rows, start, to)
      BY <1>0, <2>1, AppendSent
    <3>2. CASE ~sends
      BY <1>0, <2>4, <3>1, <3>2
    <3>3. CASE sends
      <4> DEFINE counted == {i \in DOMAIN rows : /\ rows[i].type = "DEBIT"
                                                 /\ rows[i].kind \in OutboundTypes
                                                 /\ rows[i].compensates = 0
                                                 /\ rows[i].at >= now - Window}
      <4>1. SumFunctionOnSet(AmountsOf(rows), counted) + e.amount <= DailyLimit
        <5>1. WithinDailyCap(a, e.amount)
          BY <2>2, <3>3
        <5>2. SumTransferDebitsSince(a, now - Window) + e.amount <= DailyLimit
          BY <2>4, <5>1 DEF WithinDailyCap, Limited
        <5>3. SumTransferDebitsSince(a, now - Window) = SumFunctionOnSet(AmountsOf(rows), counted)
          BY Zenon DEF SumTransferDebitsSince, rows
        <5> QED BY <5>2, <5>3
      <4>2. start >= now - Window /\ start \in Int /\ now \in Int /\ Window \in Int
        BY <2>1, <3>3, ConstantsAssumption DEF TypeOK
      <4>3. \A i \in DOMAIN rows : rows[i] \in Entry
        BY <1>0
      <4>4. SentRows(rows, start, to) \in SUBSET counted /\ counted \in SUBSET (DOMAIN rows)
        BY <1>0, <4>2, <4>3 DEF SentRows, Entry
      <4> HIDE DEF counted
      <4>5. /\ Sent(rows, start, to) <= SumFunctionOnSet(AmountsOf(rows), counted)
            /\ Sent(rows, start, to) \in Int
            /\ SumFunctionOnSet(AmountsOf(rows), counted) \in Int
        BY <1>0, <4>4, SentLess DEF Sent
      <4>6. e.amount \in Int /\ DailyLimit \in Int
        BY <2>1, ConstantsAssumption DEF Entry
      <4>7. e.amount + Sent(rows, start, to) <= DailyLimit
        BY <4>1, <4>5, <4>6
      <4> QED BY <3>1, <3>3, <4>7
    <3> QED BY <3>2, <3>3
  <2> QED BY <2>3, <2>4
<1> QED BY <1>1, <1>2

\* In every window a TND account sends out at most the daily limit, whether its money
\* moves at once or when a hold is released.
THEOREM CapHolds == Spec => []DailyCapInEveryWindow
<1>1. Init => CapInv
  <2> SUFFICES ASSUME Init, NEW a \in Accounts
               PROVE  /\ ledger[a] = <<>>
                      /\ \A start \in Nat : Sent(ledger[a], start, start + Window) <= DailyLimit
    BY DEF CapInv
  <2>1. ledger[a] = <<>>
    BY DEF Init
  <2>2. ASSUME NEW start \in Nat PROVE Sent(ledger[a], start, start + Window) = 0
    <3>1. SentRows(ledger[a], start, start + Window) = {}
      BY <2>1 DEF SentRows
    <3> QED BY <3>1, SumEmpty DEF Sent
  <2> QED BY <2>1, <2>2, ConstantsAssumption
<1>2. TypeOK /\ CapInv /\ [Next]_vars => CapInv'
  <2> SUFFICES ASSUME TypeOK, CapInv, [Next]_vars PROVE CapInv'
    OBVIOUS
  <2>1. CASE UNCHANGED <<ledger, nextTx>>
    BY <2>1 DEF CapInv, Limited
  <2> QED BY <2>1, PostsCapped, StepBalanced
<1>3. CapInv => DailyCapInEveryWindow
  <2> SUFFICES ASSUME CapInv, NEW a \in Accounts, Limited(a), NEW start \in 0..now
               PROVE  Sent(ledger[a], start, start + Window) <= DailyLimit
    BY DEF DailyCapInEveryWindow, Limited, Sent, SentRows
  <2> QED BY DEF CapInv
<1> QED BY <1>1, <1>2, <1>3, TypeCorrect, PTL DEF Spec

-----------------------------------------------------------------------------
(* Counting the positions of a list.                                       *)

\* How many of the positions of a set there are up to k.
CountTo(at, k) == Cardinality(at \cap (1..k))

\* The next position counts one more, if it is among them.
LEMMA CountStep ==
  ASSUME NEW at, NEW k \in Nat
  PROVE  /\ IsFiniteSet(at \cap (1..k)) /\ CountTo(at, k) \in Nat /\ CountTo(at, 0) = 0
         /\ CountTo(at, k + 1) = IF k + 1 \in at THEN CountTo(at, k) + 1 ELSE CountTo(at, k)
<1>1. IsFiniteSet(1..k) /\ 1..0 = {}
  BY FS_Interval
<1>2. IsFiniteSet(at \cap (1..k))
  BY <1>1, FS_Subset
<1>3. at \cap (1..0) = {}
  BY <1>1
<1>4. k + 1 \notin at \cap (1..k)
  OBVIOUS
<1>5. CASE k + 1 \in at
  <2>1. at \cap (1..(k + 1)) = (at \cap (1..k)) \cup {k + 1}
    BY <1>5
  <2> QED BY <1>2, <1>3, <1>4, <1>5, <2>1, FS_AddElement, FS_CardinalityType, FS_EmptySet
          DEF CountTo
<1>6. CASE k + 1 \notin at
  <2>1. at \cap (1..(k + 1)) = at \cap (1..k)
    BY <1>6
  <2> QED BY <1>2, <1>3, <1>6, <2>1, FS_CardinalityType, FS_EmptySet DEF CountTo
<1> QED BY <1>5, <1>6

\* The count grows with the position, at every position of the set.
LEMMA CountMonotone ==
  ASSUME NEW at, NEW j \in Nat, NEW k \in Nat, j <= k
  PROVE  /\ CountTo(at, j) <= CountTo(at, k)
         /\ j < k /\ k \in at => CountTo(at, j) < CountTo(at, k)
<1>1. IsFiniteSet(at \cap (1..k)) /\ at \cap (1..j) \subseteq at \cap (1..k)
  BY CountStep
<1>2. CountTo(at, j) <= CountTo(at, k)
  BY <1>1, FS_Subset DEF CountTo
<1>3. ASSUME j < k, k \in at PROVE CountTo(at, j) < CountTo(at, k)
  <2>1. k - 1 \in Nat /\ k = (k - 1) + 1
    BY <1>3
  <2>2. /\ IsFiniteSet(at \cap (1..(k - 1))) /\ at \cap (1..j) \subseteq at \cap (1..(k - 1))
        /\ CountTo(at, (k - 1) + 1) = CountTo(at, k - 1) + 1
        /\ CountTo(at, k - 1) \in Nat /\ CountTo(at, j) \in Nat
    <3> DEFINE h == k - 1
    <3>1. h \in Nat /\ k = h + 1 /\ 1..j \subseteq 1..h /\ h + 1 \in at
      BY <1>3, <2>1
    <3> HIDE DEF h
    <3>2. /\ IsFiniteSet(at \cap (1..h)) /\ CountTo(at, h) \in Nat
          /\ CountTo(at, h + 1) = CountTo(at, h) + 1
      BY <3>1, CountStep
    <3>3. CountTo(at, j) \in Nat
      BY CountStep
    <3> QED BY <3>1, <3>2, <3>3 DEF h
  <2>3. CountTo(at, j) <= CountTo(at, k - 1)
    BY <2>2, FS_Subset DEF CountTo
  <2> QED BY <2>1, <2>2, <2>3
<1> QED BY <1>2, <1>3

\* No two positions have the same count, and every count up to the last is reached.
LEMMA CountUnique ==
  ASSUME NEW at, NEW j \in at \cap Nat, NEW k \in at \cap Nat, CountTo(at, j) = CountTo(at, k)
  PROVE  j = k
<1>1. CountTo(at, j) \in Nat /\ CountTo(at, k) \in Nat
  BY CountStep
<1>2. CASE j < k
  BY <1>1, <1>2, CountMonotone
<1>3. CASE k < j
  BY <1>1, <1>3, CountMonotone
<1> QED BY <1>2, <1>3

LEMMA CountReaches ==
  ASSUME NEW at, NEW N \in Nat
  PROVE  \A m \in 1..CountTo(at, N) : \E k \in at \cap (1..N) : CountTo(at, k) = m
<1> DEFINE T == {n \in Nat : \A m \in 1..CountTo(at, n) :
                               \E k \in at \cap (1..n) : CountTo(at, k) = m}
<1>1. 0 \in T
  <2>1. 0 \in Nat /\ CountTo(at, 0) = 0
    BY CountStep
  <2> QED BY <2>1
<1>2. ASSUME NEW n \in Nat, n \in T PROVE n + 1 \in T
  <2>1. CountTo(at, n) \in Nat
        /\ CountTo(at, n + 1) = IF n + 1 \in at THEN CountTo(at, n) + 1 ELSE CountTo(at, n)
    BY CountStep
  <2>2. ASSUME NEW m \in 1..CountTo(at, n + 1)
        PROVE  \E k \in at \cap (1..(n + 1)) : CountTo(at, k) = m
    <3>1. CASE m \in 1..CountTo(at, n)
      <4>1. PICK k \in at \cap (1..n) : CountTo(at, k) = m
        BY <1>2, <3>1
      <4>2. k \in at \cap (1..(n + 1))
        OBVIOUS
      <4> QED BY <4>1, <4>2
    <3>2. CASE m \notin 1..CountTo(at, n)
      <4>1. n + 1 \in at /\ m = CountTo(at, n + 1)
        BY <2>1, <3>2
      <4>2. n + 1 \in at \cap (1..(n + 1))
        BY <4>1
      <4> QED BY <4>1, <4>2
    <3> QED BY <3>1, <3>2
  <2> QED BY <2>2
<1>3. \A n \in Nat : n \in T => n + 1 \in T
  BY <1>2
<1> HIDE DEF T
<1>4. N \in T
  BY <1>1, <1>3, NatInduct
<1> QED BY <1>4 DEF T

\* Up to the last position there are all.
LEMMA CountAll ==
  ASSUME NEW N \in Nat, NEW at \in SUBSET (1..N)
  PROVE  /\ IsFiniteSet(at) /\ Cardinality(at) = CountTo(at, N)
         /\ \A k \in at : CountTo(at, k) \in 1..Cardinality(at)
<1>1. at \cap (1..N) = at
  OBVIOUS
<1>2. IsFiniteSet(at) /\ Cardinality(at) = CountTo(at, N) /\ CountTo(at, N) \in Nat
  BY <1>1, CountStep DEF CountTo
<1>3. ASSUME NEW k \in at PROVE CountTo(at, k) \in 1..Cardinality(at)
  <2>1. k \in Nat /\ 0 < k /\ k <= N /\ 0 \in Nat
    OBVIOUS
  <2>2. CountTo(at, 0) = 0 /\ CountTo(at, k) \in Nat
    BY <2>1, CountStep
  <2>3. CountTo(at, 0) < CountTo(at, k)
    BY <2>1, CountMonotone
  <2>4. CountTo(at, k) <= CountTo(at, N)
    BY <2>1, CountMonotone
  <2> QED BY <1>2, <2>2, <2>3, <2>4
<1> QED BY <1>2, <1>3

\* A position more, p, moves those from p on one place, and their counts by one at most.
LEMMA CountShifted ==
  ASSUME NEW at, NEW new, NEW p \in Nat \ {0},
         \A k \in Nat : k < p => (k \in at <=> k \in new),
         \A k \in Nat : k >= p => (k \in at <=> k + 1 \in new)
  PROVE  \A k \in Nat : /\ k < p => CountTo(new, k) = CountTo(at, k)
                        /\ k >= p => CountTo(new, k + 1) \in CountTo(at, k)..(CountTo(at, k) + 1)
<1> DEFINE e == IF p \in new THEN 1 ELSE 0
           T == {k \in Nat : /\ k < p => CountTo(new, k) = CountTo(at, k)
                             /\ k >= p - 1 => CountTo(new, k + 1) = CountTo(at, k) + e}
<1>0. \A k \in Nat : /\ CountTo(at, k) \in Nat /\ CountTo(new, k) \in Nat
                     /\ CountTo(at, 0) = 0 /\ CountTo(new, 0) = 0
                     /\ CountTo(at, k + 1)
                          = IF k + 1 \in at THEN CountTo(at, k) + 1 ELSE CountTo(at, k)
                     /\ CountTo(new, k + 1)
                          = IF k + 1 \in new THEN CountTo(new, k) + 1 ELSE CountTo(new, k)
  BY CountStep
<1>1. 0 \in T
  <2>1. 0 \in Nat /\ CountTo(at, 0) = 0 /\ CountTo(new, 0) = 0
    BY <1>0
  <2>2. CountTo(new, 0 + 1) = IF 0 + 1 \in new THEN 1 ELSE 0
    BY <1>0, <2>1
  <2> QED BY <2>1, <2>2
<1>2. ASSUME NEW k \in Nat, k \in T PROVE k + 1 \in T
  <2>1. CASE k + 1 < p
    <3>1. CountTo(new, k) = CountTo(at, k) /\ (k + 1 \in at <=> k + 1 \in new)
      BY <1>2, <2>1
    <3>2. CountTo(new, k + 1) = CountTo(at, k + 1)
      BY <1>0, <3>1
    <3>3. ASSUME k + 1 >= p - 1 PROVE CountTo(new, (k + 1) + 1) = CountTo(at, k + 1) + e
      <4>1. (k + 1) + 1 = p /\ k + 1 \in Nat
        BY <2>1, <3>3
      <4>2. CountTo(new, (k + 1) + 1)
              = IF p \in new THEN CountTo(new, k + 1) + 1 ELSE CountTo(new, k + 1)
        BY <1>0, <4>1
      <4> QED BY <1>0, <3>2, <4>1, <4>2
    <3> QED BY <2>1, <3>2, <3>3
  <2>2. CASE k + 1 >= p
    <3>1. CountTo(new, k + 1) = CountTo(at, k) + e /\ k + 1 \in Nat
      BY <1>2, <2>2
    <3>2. k + 1 \in at <=> (k + 1) + 1 \in new
      BY <2>2
    <3>3. CountTo(new, (k + 1) + 1) = CountTo(at, k + 1) + e
      BY <1>0, <3>1, <3>2
    <3> QED BY <2>2, <3>3
  <2> QED BY <2>1, <2>2
<1>3. \A k \in Nat : k \in T => k + 1 \in T
  BY <1>2
<1> HIDE DEF T
<1>4. ASSUME NEW k \in Nat PROVE k \in T
  BY <1>1, <1>3, NatInduct
<1>5. e \in {0, 1}
  OBVIOUS
<1> QED BY <1>0, <1>4, <1>5 DEF T

-----------------------------------------------------------------------------
(* What a list, and a page of it, contain.                                 *)

\* The positions of a list whose rows match.
At(rows, filter) == {k \in DOMAIN rows : Matches(rows[k], filter)}

\* The position of the n-th row that matches.
Nth(at, n) == CHOOSE k \in at : Cardinality(at \cap (1..k)) = n

\* The definition of Matching, with its parts named.
LEMMA MatchingUnfolds ==
  ASSUME NEW rows, NEW filter
  PROVE  Matching(rows, filter)
           = [n \in 1..Cardinality(At(rows, filter)) |-> rows[Nth(At(rows, filter), n)]]
BY Zenon DEF Matching, At, Nth

\* A filtered list has the rows at the positions that match, in their order.
LEMMA MatchingLists ==
  ASSUME NEW X, NEW rows \in Seq(X), NEW filter, NEW at, at = At(rows, filter),
         NEW list, list = Matching(rows, filter)
  PROVE  /\ at \in SUBSET (1..Len(rows)) /\ IsFiniteSet(at)
         /\ list \in Seq(X) /\ Len(list) = Cardinality(at)
         /\ \A k \in at : CountTo(at, k) \in 1..Len(list) /\ list[CountTo(at, k)] = rows[k]
         /\ \A n \in 1..Len(list) : \E k \in at : CountTo(at, k) = n /\ list[n] = rows[k]
<1>1. at \in SUBSET (1..Len(rows)) /\ Len(rows) \in Nat
  BY DEF At
<1>2. IsFiniteSet(at) /\ Cardinality(at) = CountTo(at, Len(rows)) /\ Cardinality(at) \in Nat
  BY <1>1, CountAll, FS_CardinalityType
<1>3. \A n \in 1..Cardinality(at) : \E k \in at : CountTo(at, k) = n
  BY <1>1, <1>2, CountReaches
<1>4. \A n \in 1..Cardinality(at) : Nth(at, n) \in at /\ CountTo(at, Nth(at, n)) = n
  BY <1>3, Zenon DEF Nth, CountTo
<1>5. list = [n \in 1..Cardinality(at) |-> rows[Nth(at, n)]]
  BY MatchingUnfolds
<1>6. \A k \in at : k \in 1..Len(rows) /\ rows[k] \in X
  BY <1>1
<1>7. list \in Seq(X) /\ Len(list) = Cardinality(at)
  BY <1>2, <1>4, <1>5, <1>6
<1>8. ASSUME NEW k \in at
      PROVE  CountTo(at, k) \in 1..Len(list) /\ list[CountTo(at, k)] = rows[k]
  <2>1. CountTo(at, k) \in 1..Cardinality(at)
    BY <1>1, CountAll
  <2> DEFINE n == CountTo(at, k)
  <2>2. Nth(at, n) \in at /\ CountTo(at, Nth(at, n)) = n
    BY <1>4, <2>1
  <2>3. Nth(at, n) = k
    BY <1>1, <2>2, CountUnique
  <2> QED BY <1>5, <1>7, <2>1, <2>3
<1>9. ASSUME NEW n \in 1..Len(list)
      PROVE  \E k \in at : CountTo(at, k) = n /\ list[n] = rows[k]
  BY <1>4, <1>5, <1>7, <1>9
<1> QED BY <1>1, <1>2, <1>7, <1>8, <1>9

\* The least of two numbers.
LEMMA LeastOfTwo ==
  ASSUME NEW x \in Int, NEW y \in Int
  PROVE  Min({x, y}) = IF x <= y THEN x ELSE y
BY DEF Min

\* No row is in a list twice.
Distinct(rows) == \A j, k \in DOMAIN rows : rows[j] = rows[k] => j = k

\* The positions on a page.
OnPage(at, limit, offset) == {k \in at : CountTo(at, k) \in (offset + 1)..(offset + limit)}

\* Their rows.
Paged(rows, at, limit, offset) == {rows[k] : k \in OnPage(at, limit, offset)}

\* The definition of Page.
LEMMA PageUnfolds ==
  ASSUME NEW filter, NEW order, NEW limit, NEW offset
  PROVE  Page(filter, order, limit, offset)
           = SubSeq(Matching(Ordered(order), filter), offset + 1,
                    Min({offset + limit, Len(Matching(Ordered(order), filter))}))
BY DEF Page

\* A page has the rows of its positions, each once; when it is not full, no position
\* comes after it.
LEMMA PageLists ==
  ASSUME NEW X, NEW filter, NEW order, NEW limit \in Nat, NEW offset \in Nat,
         NEW rows \in Seq(X), rows = Ordered(order), Distinct(rows),
         NEW at, at = At(rows, filter),
         NEW page, page = Page(filter, order, limit, offset)
  PROVE  /\ page \in Seq(X) /\ Distinct(page)
         /\ IsFiniteSet(ToSet(page)) /\ Cardinality(ToSet(page)) = Len(page)
         /\ ToSet(page) = Paged(rows, at, limit, offset)
         /\ Len(page) <= limit
         /\ Len(page) < limit => \A k \in at : CountTo(at, k) <= offset + limit
<1> DEFINE list == Matching(rows, filter)
           last == Min({offset + limit, Len(list)})
<1>1. /\ at \in SUBSET (1..Len(rows)) /\ IsFiniteSet(at)
      /\ list \in Seq(X) /\ Len(list) = Cardinality(at)
      /\ \A k \in at : CountTo(at, k) \in 1..Len(list) /\ list[CountTo(at, k)] = rows[k]
      /\ \A n \in 1..Len(list) : \E k \in at : CountTo(at, k) = n /\ list[n] = rows[k]
  BY MatchingLists
<1>2. page = SubSeq(list, offset + 1, last)
  BY PageUnfolds
<1> HIDE DEF list
<1>3. /\ Len(list) \in Nat /\ last \in Nat /\ last <= Len(list) /\ last <= offset + limit
      /\ (last = Len(list) \/ last = offset + limit)
  <2>1. Len(list) \in Nat /\ offset + limit \in Nat
    BY <1>1
  <2>2. last = IF offset + limit <= Len(list) THEN offset + limit ELSE Len(list)
    BY <2>1, LeastOfTwo
  <2> HIDE DEF last
  <2> QED BY <2>1, <2>2
<1> HIDE DEF last
<1>4. /\ page \in Seq(X)
      /\ Len(page) = IF offset + 1 <= last THEN last - offset ELSE 0
      /\ \A n \in 1..Len(page) : page[n] = list[offset + n]
  <2> DEFINE first == offset + 1
  <2>1. first \in Int /\ last \in Int /\ \A i \in first..last : list[i] \in X
    BY <1>1, <1>3
  <2>2. /\ SubSeq(list, first, last) \in Seq(X)
        /\ Len(SubSeq(list, first, last)) = IF first <= last THEN last - first + 1 ELSE 0
        /\ \A i \in 1..(last - first + 1) : SubSeq(list, first, last)[i] = list[first + i - 1]
    <3> HIDE DEF first
    <3> QED BY <2>1, SubSeqProperties
  <2>3. \A i \in Nat : first + i - 1 = offset + i
    OBVIOUS
  <2> QED BY <1>2, <1>3, <2>2, <2>3
<1>5. ToSet(page) = Paged(rows, at, limit, offset)
  <2>1. ASSUME NEW n \in DOMAIN page PROVE \E k \in OnPage(at, limit, offset) : page[n] = rows[k]
    <3>1. /\ n \in 1..Len(page) /\ offset + n \in 1..Len(list)
          /\ offset + n \in (offset + 1)..(offset + limit)
      BY <1>3, <1>4
    <3>2. PICK k \in at : CountTo(at, k) = offset + n /\ list[offset + n] = rows[k]
      BY <1>1, <3>1
    <3> QED BY <1>4, <3>1, <3>2 DEF OnPage
  <2>2. ASSUME NEW k \in OnPage(at, limit, offset) PROVE \E n \in DOMAIN page : page[n] = rows[k]
    <3> DEFINE n == CountTo(at, k) - offset
    <3>1. /\ k \in at /\ CountTo(at, k) \in 1..Len(list) /\ list[CountTo(at, k)] = rows[k]
          /\ CountTo(at, k) \in (offset + 1)..(offset + limit)
      BY <1>1 DEF OnPage
    <3>2. n \in 1..Len(page) /\ offset + n = CountTo(at, k)
      BY <1>3, <1>4, <3>1
    <3> QED BY <1>4, <3>1, <3>2
  <2> QED BY <2>1, <2>2 DEF ToSet, Paged
<1>6. Distinct(page)
  <2> SUFFICES ASSUME NEW i \in DOMAIN page, NEW j \in DOMAIN page, page[i] = page[j]
               PROVE  i = j
    BY DEF Distinct
  <2>1. /\ i \in 1..Len(page) /\ offset + i \in 1..Len(list)
        /\ j \in 1..Len(page) /\ offset + j \in 1..Len(list)
    BY <1>3, <1>4
  <2>2. PICK k \in at : CountTo(at, k) = offset + i /\ list[offset + i] = rows[k]
    BY <1>1, <2>1
  <2>3. PICK h \in at : CountTo(at, h) = offset + j /\ list[offset + j] = rows[h]
    BY <1>1, <2>1
  <2>4. k = h
    <3>1. page[i] = rows[k] /\ page[j] = rows[h] /\ k \in DOMAIN rows /\ h \in DOMAIN rows
      <4>1. k \in 1..Len(rows) /\ h \in 1..Len(rows)
        BY <1>1
      <4> QED BY <1>4, <2>1, <2>2, <2>3, <4>1
    <3> QED BY <3>1 DEF Distinct
  <2> QED BY <2>1, <2>2, <2>3, <2>4
<1>7. IsFiniteSet(ToSet(page)) /\ Cardinality(ToSet(page)) = Len(page)
  <2>1. IsFiniteSet(1..Len(page)) /\ Cardinality(1..Len(page)) = Len(page)
    BY <1>4, FS_Interval
  <2>2. page \in Surjection(1..Len(page), ToSet(page)) /\ IsInjective(page)
    BY <1>4, <1>6 DEF Surjection, ToSet, Distinct, IsInjective
  <2>3. page \in Injection(1..Len(page), ToSet(page))
    BY <2>2 DEF Injection, Surjection
  <2> QED BY <2>1, <2>2, <2>3, FS_Surjection
<1>8. ASSUME Len(page) < limit, NEW k \in at PROVE CountTo(at, k) <= offset + limit
  BY <1>1, <1>3, <1>4, <1>8
<1> QED BY <1>3, <1>4, <1>5, <1>6, <1>7, <1>8

-----------------------------------------------------------------------------
(* A row more.                                                             *)

\* The list longer is rows with row x put in at place p.
PutIn(rows, longer, p, x) ==
  /\ Len(longer) = Len(rows) + 1 /\ p \in 1..Len(longer) /\ longer[p] = x
  /\ \A k \in 1..Len(rows) : IF k < p THEN longer[k] = rows[k] ELSE longer[k + 1] = rows[k]

\* The rows that pages after an offset will have.
Ahead(rows, at, offset) == {rows[k] : k \in {k \in at : CountTo(at, k) > offset}}

\* When a row is put in, an old row that pages had moves at most one place on: no row
\* comes before the offset, and at most one goes behind it.
LEMMA PutInCounts ==
  ASSUME NEW n \in Nat, NEW rows \in Seq(1..n), NEW longer \in Seq(1..(n + 1)), Len(rows) = n,
         NEW p, PutIn(rows, longer, p, n + 1),
         NEW at \in SUBSET (1..n), NEW new \in SUBSET (1..(n + 1)),
         \A k \in 1..n : k \in at <=> (IF k < p THEN k ELSE k + 1) \in new,
         NEW offset \in Nat, NEW out \in SUBSET (1..n), IsFiniteSet(out)
  PROVE  /\ \A k \in new : longer[k] # n + 1 /\ CountTo(new, k) <= offset =>
              \E j \in at : CountTo(at, j) <= offset /\ longer[k] = rows[j]
         /\ Cardinality(out \cap Ahead(longer, new, offset))
              <= Cardinality(out \cap Ahead(rows, at, offset)) + 1
<1>1. p \in Nat \ {0} /\ p <= n + 1
  BY DEF PutIn
<1>2. \A k \in Nat : k < p => (k \in at <=> k \in new)
  BY <1>1
<1>3. \A k \in Nat : k >= p => (k \in at <=> k + 1 \in new)
  BY <1>1
<1>4. \A k \in Nat : /\ k < p => CountTo(new, k) = CountTo(at, k)
                     /\ k >= p => CountTo(new, k + 1) \in CountTo(at, k)..(CountTo(at, k) + 1)
  BY <1>1, <1>2, <1>3, CountShifted
<1>5. /\ \A k \in at : k \in Nat /\ CountTo(at, k) \in Nat
      /\ \A k \in new : k \in Nat /\ CountTo(new, k) \in Nat
  <2>1. (\A k \in at : k \in Nat) /\ (\A k \in new : k \in Nat)
    OBVIOUS
  <2> QED BY <2>1, CountStep
\* Where an old row was before.
<1>6. ASSUME NEW k \in new, longer[k] # n + 1
      PROVE  \E j \in at : /\ longer[k] = rows[j]
                           /\ CountTo(at, j) <= CountTo(new, k)
                           /\ CountTo(new, k) <= CountTo(at, j) + 1
  <2>1. k \in 1..(n + 1) /\ k # p
    BY <1>6 DEF PutIn
  <2>2. CASE k < p
    <3>1. k \in 1..n /\ k \in at /\ CountTo(new, k) = CountTo(at, k) /\ longer[k] = rows[k]
      BY <1>1, <1>2, <1>4, <2>1, <2>2 DEF PutIn
    <3> QED BY <1>5, <3>1
  <2>3. CASE k > p
    <3> DEFINE j == k - 1
    <3>1. j \in 1..n /\ j >= p /\ k = j + 1
      BY <1>1, <2>1, <2>3
    <3> HIDE DEF j
    <3>2. j \in at /\ CountTo(new, k) \in CountTo(at, j)..(CountTo(at, j) + 1)
      BY <1>3, <1>4, <3>1
    <3>3. longer[k] = rows[j]
      BY <1>1, <3>1 DEF PutIn
    <3> QED BY <1>5, <3>1, <3>2, <3>3
  <2> QED BY <1>1, <2>1, <2>2, <2>3
<1>7. ASSUME NEW k \in new, longer[k] # n + 1, CountTo(new, k) <= offset
      PROVE  \E j \in at : CountTo(at, j) <= offset /\ longer[k] = rows[j]
  <2>1. PICK j \in at : longer[k] = rows[j] /\ CountTo(at, j) <= CountTo(new, k)
    BY <1>6, <1>7
  <2>2. CountTo(at, j) \in Nat /\ CountTo(new, k) \in Nat
    BY <1>5
  <2> QED BY <1>7, <2>1, <2>2
\* The one row at the offset.
<1> DEFINE old == out \cap Ahead(rows, at, offset)
           later == out \cap Ahead(longer, new, offset)
           border == CHOOSE i : \E j \in at : CountTo(at, j) = offset /\ i = rows[j]
<1>8. later \subseteq old \cup {border}
  <2> SUFFICES ASSUME NEW i \in later, i \notin old PROVE i = border
    OBVIOUS
  <2>1. PICK k \in new : CountTo(new, k) > offset /\ i = longer[k]
    BY DEF Ahead
  <2>2. i \in out /\ i # n + 1
    OBVIOUS
  <2>3. PICK j \in at : longer[k] = rows[j] /\ CountTo(new, k) <= CountTo(at, j) + 1
    BY <1>6, <2>1, <2>2
  <2>4. ~(CountTo(at, j) > offset)
    BY <2>1, <2>2, <2>3 DEF Ahead
  <2>5. CountTo(at, j) = offset
    BY <1>5, <2>1, <2>3, <2>4
  <2>6. \A h \in at : CountTo(at, h) = offset => h = j
    BY <1>5, <2>5, CountUnique
  <2>7. border = rows[j]
    BY <2>5, <2>6
  <2> QED BY <2>1, <2>3, <2>7
<1> HIDE DEF border
<1>9. /\ IsFiniteSet(old) /\ IsFiniteSet(old \cup {border})
      /\ Cardinality(old) \in Nat
      /\ Cardinality(old \cup {border}) <= Cardinality(old) + 1
  <2>1. IsFiniteSet(old)
    BY FS_Subset
  <2> HIDE DEF old
  <2>2. Cardinality(old) \in Nat
    BY <2>1, FS_CardinalityType
  <2>3. /\ IsFiniteSet(old \cup {border})
        /\ Cardinality(old \cup {border})
             = IF border \in old THEN Cardinality(old) ELSE Cardinality(old) + 1
    BY <2>1, FS_AddElement
  <2> QED BY <2>1, <2>2, <2>3
<1>10. Cardinality(later) <= Cardinality(old \cup {border}) /\ Cardinality(later) \in Nat
  <2> HIDE DEF later, old
  <2> QED BY <1>8, <1>9, FS_Subset, FS_CardinalityType
<1>11. Cardinality(later) <= Cardinality(old) + 1
  <2>1. Cardinality(old \cup {border}) \in Nat
    BY <1>9, FS_CardinalityType
  <2> HIDE DEF later, old
  <2> QED BY <1>9, <1>10, <2>1
<1> QED BY <1>7, <1>11

\* Into both orders a row is put in.
LEMMA OrderedPutIn ==
  ASSUME NEW n \in Nat, NEW rows \in Seq(1..n), Len(rows) = n, NEW place \in 1..(n + 1)
  PROVE  /\ PutIn(rows, InsertAt(rows, place, n + 1), place, n + 1)
         /\ PutIn(Reverse(rows), Reverse(InsertAt(rows, place, n + 1)), n + 2 - place, n + 1)
<1> DEFINE longer == InsertAt(rows, place, n + 1)
<1>1. /\ Len(longer) = n + 1
      /\ \A k \in 1..(n + 1) : longer[k] = IF k < place THEN rows[k]
                                           ELSE IF k = place THEN n + 1 ELSE rows[k - 1]
  BY DEF InsertAt
<1> HIDE DEF longer
<1>2. PutIn(rows, longer, place, n + 1)
  BY <1>1 DEF PutIn
<1>3. /\ Len(Reverse(rows)) = n /\ Len(Reverse(longer)) = n + 1
      /\ \A k \in 1..n : Reverse(rows)[k] = rows[n - k + 1]
      /\ \A k \in 1..(n + 1) : Reverse(longer)[k] = longer[(n + 1) - k + 1]
  BY <1>1 DEF Reverse
<1>4. PutIn(Reverse(rows), Reverse(longer), n + 2 - place, n + 1)
  <2> DEFINE p == n + 2 - place
  <2>1. p \in 1..(n + 1) /\ Reverse(longer)[p] = n + 1
    BY <1>1, <1>3
  <2>2. ASSUME NEW k \in 1..n
        PROVE  IF k < p THEN Reverse(longer)[k] = Reverse(rows)[k]
                        ELSE Reverse(longer)[k + 1] = Reverse(rows)[k]
    <3>1. CASE k < p
      <4>1. k \in 1..(n + 1) /\ (n + 1) - k + 1 \in 1..(n + 1) /\ (n + 1) - k + 1 > place
        BY <3>1
      <4>2. longer[(n + 1) - k + 1] = rows[(n + 1) - k + 1 - 1]
        BY <1>1, <4>1
      <4>3. (n + 1) - k + 1 - 1 = n - k + 1
        OBVIOUS
      <4> QED BY <1>3, <3>1, <4>1, <4>2, <4>3
    <3>2. CASE ~(k < p)
      <4>1. k + 1 \in 1..(n + 1) /\ n - k + 1 \in 1..(n + 1) /\ n - k + 1 < place
        BY <3>2
      <4>2. (n + 1) - (k + 1) + 1 = n - k + 1
        OBVIOUS
      <4> QED BY <1>1, <1>3, <3>2, <4>1, <4>2
    <3> QED BY <3>1, <3>2
  <2> QED BY <1>3, <2>1, <2>2 DEF PutIn
<1> QED BY <1>2, <1>4 DEF longer

-----------------------------------------------------------------------------
(* A page more.                                                            *)

\* How many places of a list repeat a row.
Repeats(out) == Len(out) - Cardinality(ToSet(out))

\* A list has at most as many rows as places, and as many when none is repeated.
LEMMA MembersFinite ==
  ASSUME NEW X, NEW out \in Seq(X)
  PROVE  /\ ToSet(out) \in SUBSET X
         /\ IsFiniteSet(ToSet(out)) /\ Cardinality(ToSet(out)) \in Nat /\ Repeats(out) \in Nat
         /\ Repeats(out) = 0 => Distinct(out)
<1>1. IsFiniteSet(1..Len(out)) /\ Cardinality(1..Len(out)) = Len(out) /\ Len(out) \in Nat
  <2>1. Len(out) \in Nat
    OBVIOUS
  <2> QED BY <2>1, FS_Interval
<1>2. out \in Surjection(1..Len(out), ToSet(out)) /\ ToSet(out) \in SUBSET X
  BY DEF Surjection, ToSet
<1>3. /\ IsFiniteSet(ToSet(out))
      /\ Cardinality(ToSet(out)) <= Len(out)
      /\ Cardinality(ToSet(out)) = Len(out) <=> out \in Injection(1..Len(out), ToSet(out))
  BY <1>1, <1>2, FS_Surjection
<1>4. out \in Injection(1..Len(out), ToSet(out)) => Distinct(out)
  BY Zenon DEF Injection, IsInjective, Distinct
<1>5. Cardinality(ToSet(out)) \in Nat
  BY <1>3, FS_CardinalityType
<1> QED BY <1>1, <1>2, <1>3, <1>4, <1>5 DEF Repeats

\* What a page repeats was ahead, and is not ahead any longer.
LEMMA PageRepeats ==
  ASSUME NEW n \in Nat, NEW rows \in Seq(1..n), Distinct(rows), NEW at \in SUBSET (DOMAIN rows),
         NEW offset \in Nat, NEW limit \in Nat,
         NEW out \in Seq(1..n), NEW page \in Seq(1..n), Cardinality(ToSet(page)) = Len(page),
         ToSet(page) = Paged(rows, at, limit, offset)
  PROVE  /\ ToSet(out \o page) = ToSet(out) \cup ToSet(page)
         /\ Repeats(out \o page)
              + Cardinality(ToSet(out \o page) \cap Ahead(rows, at, offset + limit))
              <= Repeats(out) + Cardinality(ToSet(out) \cap Ahead(rows, at, offset))
<1> DEFINE O == ToSet(out)  P == ToSet(page)
           A == O \cap Ahead(rows, at, offset)
           B == (O \cup P) \cap Ahead(rows, at, offset + limit)
<1>1. \A k \in at : k \in Nat /\ CountTo(at, k) \in Nat
  <2>1. \A k \in at : k \in Nat
    OBVIOUS
  <2> QED BY <2>1, CountStep
<1>2. ASSUME NEW i \in P PROVE i \notin Ahead(rows, at, offset + limit)
  <2> SUFFICES ASSUME i \in Ahead(rows, at, offset + limit) PROVE FALSE
    OBVIOUS
  <2>1. PICK k \in at : i = rows[k] /\ CountTo(at, k) <= offset + limit
    BY <1>1 DEF Paged, OnPage
  <2>2. PICK j \in at : i = rows[j] /\ CountTo(at, j) > offset + limit
    BY DEF Ahead
  <2>3. j = k
    BY <2>1, <2>2 DEF Distinct
  <2> QED BY <1>1, <2>1, <2>2, <2>3
<1>3. P \subseteq Ahead(rows, at, offset)
  BY <1>1 DEF Paged, OnPage, Ahead
<1>4. Ahead(rows, at, offset + limit) \subseteq Ahead(rows, at, offset)
  BY <1>1 DEF Ahead
<1>5. ToSet(out \o page) = O \cup P /\ Len(out \o page) = Len(out) + Len(page)
  <2> DEFINE both == out \o page
  <2>1. /\ \A k \in 1..Len(out) : both[k] = out[k]
        /\ \A k \in 1..Len(page) : both[Len(out) + k] = page[k]
        /\ Len(both) = Len(out) + Len(page) /\ Len(out) \in Nat /\ Len(page) \in Nat
        /\ DOMAIN both = 1..(Len(out) + Len(page))
        /\ DOMAIN out = 1..Len(out) /\ DOMAIN page = 1..Len(page)
    OBVIOUS
  <2> HIDE DEF both
  <2>2. ASSUME NEW k \in DOMAIN both PROVE both[k] \in O \cup P
    <3>0. k \in 1..(Len(out) + Len(page))
      BY <2>1
    <3>1. CASE k <= Len(out)
      <4>1. k \in 1..Len(out)
        BY <2>1, <3>0, <3>1
      <4>2. both[k] = out[k] /\ k \in DOMAIN out
        BY <2>1, <4>1
      <4> QED BY <4>2 DEF ToSet
    <3>2. CASE k > Len(out)
      <4>1. k - Len(out) \in 1..Len(page) /\ k = Len(out) + (k - Len(out))
        BY <2>1, <3>0, <3>2
      <4>2. both[k] = page[k - Len(out)] /\ k - Len(out) \in DOMAIN page
        BY <2>1, <4>1
      <4> QED BY <4>2 DEF ToSet
    <3> QED BY <2>1, <3>0, <3>1, <3>2
  <2>3. ASSUME NEW i \in O \cup P PROVE \E k \in DOMAIN both : both[k] = i
    <3>1. CASE i \in O
      <4>1. PICK k \in 1..Len(out) : i = out[k]
        BY <2>1, <3>1 DEF ToSet
      <4>2. both[k] = out[k] /\ k \in DOMAIN both
        <5>1. k \in Nat /\ 1 <= k /\ k <= Len(out) /\ Len(out) \in Nat /\ Len(page) \in Nat
          BY <2>1
        <5>2. k \in 1..(Len(out) + Len(page))
          BY <5>1
        <5> QED BY <2>1, <5>2
      <4> QED BY <4>1, <4>2
    <3>2. CASE i \in P
      <4>1. PICK k \in 1..Len(page) : i = page[k]
        BY <2>1, <3>2 DEF ToSet
      <4> DEFINE j == Len(out) + k
      <4>2. j \in Nat /\ 1 <= j /\ j <= Len(out) + Len(page)
        BY <2>1
      <4>3. both[j] = page[k]
        BY <2>1
      <4> HIDE DEF j
      <4>4. j \in DOMAIN both
        BY <2>1, <4>2
      <4> QED BY <4>1, <4>3, <4>4
    <3> QED BY <3>1, <3>2
  <2>4. ToSet(both) = O \cup P
    BY <2>2, <2>3 DEF ToSet
  <2> QED BY <2>1, <2>4 DEF both
<1>6. /\ IsFiniteSet(O) /\ IsFiniteSet(P)
      /\ Cardinality(O) \in Nat /\ Cardinality(P) \in Nat
  BY MembersFinite
<1>7. O \cap P \subseteq A /\ B \subseteq A /\ (O \cap P) \cap B = {}
  BY <1>2, <1>3, <1>4
<1> HIDE DEF O, P
<1>8. /\ IsFiniteSet(O \cap P) /\ IsFiniteSet(A) /\ IsFiniteSet(B)
      /\ Cardinality(O \cap P) \in Nat /\ Cardinality(A) \in Nat /\ Cardinality(B) \in Nat
  <2>1. IsFiniteSet(A)
    BY <1>6, FS_Subset
  <2> HIDE DEF A, B
  <2>2. IsFiniteSet(O \cap P) /\ IsFiniteSet(B)
    BY <1>7, <2>1, FS_Subset
  <2> QED BY <2>1, <2>2, FS_CardinalityType
<1>9. Cardinality(O \cap P) + Cardinality(B) <= Cardinality(A)
  <2> HIDE DEF A, B
  <2>1. Cardinality((O \cap P) \cup B) = Cardinality(O \cap P) + Cardinality(B) - Cardinality({})
    BY <1>7, <1>8, FS_Union
  <2>2. (O \cap P) \cup B \in SUBSET A
    BY <1>7
  <2>3. Cardinality((O \cap P) \cup B) <= Cardinality(A)
    BY <1>8, <2>2, FS_Subset
  <2> QED BY <1>8, <2>1, <2>3, FS_EmptySet
<1>10. Cardinality(O \cup P) = Cardinality(O) + Cardinality(P) - Cardinality(O \cap P)
  BY <1>6, FS_Union
<1>11. Repeats(out \o page) = Repeats(out) + Cardinality(O \cap P)
  BY <1>5, <1>6, <1>8, <1>10 DEF Repeats, O, P
<1>12. Repeats(out) \in Nat
  BY MembersFinite
<1> HIDE DEF A, B
<1>13. Repeats(out \o page) + Cardinality(B) <= Repeats(out) + Cardinality(A)
  BY <1>8, <1>9, <1>11, <1>12
<1> QED BY <1>5, <1>13 DEF A, B, O, P

-----------------------------------------------------------------------------
(* Sums of rows.                                                           *)

\* The amounts of the rows.
Deltas == [i \in DOMAIN entries |-> entries[i].delta]

\* The amounts up to row i, added up.
Balance(i) == SumFunctionOnSet(Deltas, 1..i)

\* The balance of the ledger is the sum of its amounts.
LEMMA BalanceIsSum == LedgerBalance = SumFunctionOnSet(Deltas, DOMAIN entries)
<1>1. DOMAIN Deltas = DOMAIN entries
  BY DEF Deltas
<1> QED BY <1>1, Zenon DEF LedgerBalance, SumFunction, Deltas

\* Rows of the ledger have an amount and a snapshot.
LEMMA RowsHaveAmounts ==
  ASSUME StatementTypeOK
  PROVE  /\ DOMAIN entries = 1..Len(entries) /\ Len(entries) \in Nat
         /\ \A i \in DOMAIN entries : entries[i].delta \in Int /\ entries[i].snapshot \in Nat
<1> DEFINE R == [delta : Int, snapshot : Nat]
<1>1. entries \in Seq(R)
  BY DEF StatementTypeOK
<1> HIDE DEF R
<1>2. /\ DOMAIN entries = 1..Len(entries) /\ Len(entries) \in Nat
      /\ \A i \in DOMAIN entries : entries[i] \in R
  BY <1>1
<1> QED BY <1>2 DEF R

\* The totals of a list without repetition make up the sum of its rows.
LEMMA TotalsAddUp ==
  ASSUME StatementTypeOK, NEW rows \in Seq(DOMAIN entries), Distinct(rows)
  PROVE  TotalCredit(rows) - TotalDebit(rows) = SumFunctionOnSet(Deltas, ToSet(rows))
<1> DEFINE cr == [k \in DOMAIN rows |-> Credit(rows[k])]
           db == [k \in DOMAIN rows |-> Debit(rows[k])]
           first(m) == {rows[k] : k \in 1..m}
           T == {m \in Nat : m <= Len(rows) =>
                   SumFunctionOnSet(cr, 1..m) - SumFunctionOnSet(db, 1..m)
                     = SumFunctionOnSet(Deltas, first(m))}
<1>0. /\ DOMAIN rows = 1..Len(rows) /\ Len(rows) \in Nat
      /\ \A k \in DOMAIN rows : rows[k] \in DOMAIN entries
  OBVIOUS
<1>1. \A i \in DOMAIN entries : entries[i].delta \in Int
  BY RowsHaveAmounts
<1>2. \A k \in DOMAIN rows : /\ cr[k] \in Int /\ db[k] \in Int /\ Deltas[rows[k]] \in Int
                             /\ cr[k] - db[k] = Deltas[rows[k]]
  BY <1>0, <1>1 DEF Credit, Debit, Deltas
<1>3. 0 \in T
  <2>1. 1..0 = {} /\ first(0) = {}
    OBVIOUS
  <2>2. /\ SumFunctionOnSet(cr, {}) = 0 /\ SumFunctionOnSet(db, {}) = 0
        /\ SumFunctionOnSet(Deltas, {}) = 0
    BY SumEmpty
  <2> HIDE DEF cr, db, first
  <2>3. /\ SumFunctionOnSet(cr, 1..0) = 0 /\ SumFunctionOnSet(db, 1..0) = 0
        /\ SumFunctionOnSet(Deltas, first(0)) = 0
    BY <2>1, <2>2, Zenon
  <2> QED BY <2>3
<1>4. ASSUME NEW m \in Nat, m \in T PROVE m + 1 \in T
  <2> SUFFICES ASSUME m + 1 <= Len(rows)
               PROVE  SumFunctionOnSet(cr, 1..(m + 1)) - SumFunctionOnSet(db, 1..(m + 1))
                        = SumFunctionOnSet(Deltas, first(m + 1))
    OBVIOUS
  <2> DEFINE x == m + 1
  <2>1. /\ x \in DOMAIN rows /\ 1..x = (1..m) \cup {x} /\ x \notin 1..m
        /\ 1..m \subseteq DOMAIN rows /\ IsFiniteSet(1..m)
    <3>1. IsFiniteSet(1..m)
      BY FS_Interval
    <3>2. 1..m \subseteq 1..Len(rows) /\ x \in 1..Len(rows)
      BY <1>0
    <3>3. 1..x = (1..m) \cup {x} /\ x \notin 1..m
      OBVIOUS
    <3> QED BY <1>0, <3>1, <3>2, <3>3
  <2>2. first(x) = first(m) \cup {rows[x]}
    BY <2>1
  <2>3. rows[x] \notin first(m)
    BY <2>1 DEF Distinct
  <2>4. \A k \in 1..m : rows[k] \in DOMAIN entries
    BY <1>0, <2>1
  <2>5. IsFiniteSet(first(m))
    <3> DEFINE head == [k \in 1..m |-> rows[k]]
    <3>1. head \in Surjection(1..m, first(m))
      BY DEF Surjection
    <3> HIDE DEF head
    <3> QED BY <2>1, <3>1, FS_Surjection
  <2>6. \A i \in first(m) : Deltas[i] \in Int
    BY <1>2, <2>1
  <2>7. /\ SumFunctionOnSet(cr, 1..m) - SumFunctionOnSet(db, 1..m)
             = SumFunctionOnSet(Deltas, first(m))
        /\ \A k \in 1..m : cr[k] \in Int /\ db[k] \in Int
        /\ cr[x] \in Int /\ db[x] \in Int /\ Deltas[rows[x]] \in Int
        /\ cr[x] - db[x] = Deltas[rows[x]]
    BY <1>2, <1>4, <2>1
  <2> HIDE DEF cr, db, first, x
  <2>8. Summable(cr, 1..m) /\ Summable(db, 1..m) /\ Summable(Deltas, first(m))
    BY <2>1, <2>5, <2>6, <2>7 DEF Summable
  <2>9. /\ SumFunctionOnSet(cr, 1..x) = cr[x] + SumFunctionOnSet(cr, 1..m)
        /\ SumFunctionOnSet(db, 1..x) = db[x] + SumFunctionOnSet(db, 1..m)
        /\ SumFunctionOnSet(Deltas, first(x)) = Deltas[rows[x]] + SumFunctionOnSet(Deltas, first(m))
    BY <2>1, <2>2, <2>3, <2>7, <2>8, SumAdd
  <2>10. /\ SumFunctionOnSet(cr, 1..m) \in Int /\ SumFunctionOnSet(db, 1..m) \in Int
         /\ SumFunctionOnSet(Deltas, first(m)) \in Int
    BY <2>8, SumType
  <2>11. SumFunctionOnSet(cr, 1..x) - SumFunctionOnSet(db, 1..x)
           = SumFunctionOnSet(Deltas, first(x))
    BY <2>7, <2>9, <2>10
  <2> QED BY <2>11 DEF x
<1>5. \A m \in Nat : m \in T => m + 1 \in T
  BY <1>4
<1>6. Len(rows) \in T
  <2> HIDE DEF T
  <2> QED BY <1>0, <1>3, <1>5, NatInduct
<1>7. TotalCredit(rows) = SumFunctionOnSet(cr, 1..Len(rows))
  <2>1. DOMAIN cr = 1..Len(rows)
    BY <1>0
  <2> QED BY <2>1, Zenon DEF TotalCredit, SumFunction
<1>8. TotalDebit(rows) = SumFunctionOnSet(db, 1..Len(rows))
  <2>1. DOMAIN db = 1..Len(rows)
    BY <1>0
  <2> QED BY <2>1, Zenon DEF TotalDebit, SumFunction
<1>9. first(Len(rows)) = ToSet(rows)
  BY <1>0 DEF ToSet
<1> HIDE DEF cr, db, first
<1> QED BY <1>0, <1>6, <1>7, <1>8, <1>9

-----------------------------------------------------------------------------
(* The invariant of the statements.                                        *)

\* Snapshots and cached balance are sums of what was posted, and the list by time
\* has every row once.
LedgerFits ==
  /\ \A i \in DOMAIN entries : entries[i].snapshot = Balance(i)
  /\ cached = Balance(Len(entries))
  /\ Len(byTime) = Len(entries) /\ Distinct(byTime) /\ ToSet(byTime) = DOMAIN entries

\* The list an export reads, and the positions of it that match.
ExportRows == Ordered(export.order)
ExportAt   == At(ExportRows, export.filter)

\* A running export has every row before its offset, and has repeated, or may still
\* repeat, only rows that growth moved behind its offset.
ExportProgress ==
  /\ \A k \in ExportAt :
       ExportRows[k] <= export.from /\ CountTo(ExportAt, k) <= export.offset
         => ExportRows[k] \in ToSet(export.out)
  /\ Repeats(export.out)
       + Cardinality(ToSet(export.out) \cap Ahead(ExportRows, ExportAt, export.offset))
       <= Len(entries) - export.from

\* No matching row of those there were is missing.
ExportHasAll ==
  \A i \in 1..export.from : Matches(i, export.filter) => i \in ToSet(export.out)

\* An export that has finished was complete, and one that runs is on its way there.
ExportFits ==
  /\ export.from <= export.since /\ export.since <= Len(entries)
  /\ export.out \in Seq(1..export.since)
  /\ Repeats(export.out) <= export.since - export.from
  /\ export.running => ExportProgress
  /\ Finished => ExportHasAll

\* A page shows rows there were, each once, and a list that is not full shows all.
ScreenFits ==
  screen.open =>
    /\ screen.asOf <= Len(entries)
    /\ screen.rows \in Seq(1..screen.asOf) /\ Distinct(screen.rows)
    /\ Len(screen.rows) < DefaultLimit => ToSet(screen.rows) = 1..screen.asOf

\* The invariant.
StatementInv == StatementTypeOK /\ LedgerFits /\ ExportFits /\ ScreenFits

\* In either order, by time, the list has every row once.
LEMMA OrderedType ==
  ASSUME StatementTypeOK, LedgerFits, NEW order
  PROVE  /\ Len(entries) \in Nat
         /\ Ordered(order) \in Seq(1..Len(entries)) /\ Len(Ordered(order)) = Len(entries)
         /\ Distinct(Ordered(order)) /\ ToSet(Ordered(order)) = 1..Len(entries)
<1> DEFINE n == Len(entries)
<1>1. n \in Nat /\ DOMAIN entries = 1..n
  BY RowsHaveAmounts
<1>2. byTime \in Seq(1..n) /\ Len(byTime) = n /\ Distinct(byTime) /\ ToSet(byTime) = 1..n
  BY <1>1 DEF StatementTypeOK, LedgerFits
<1> HIDE DEF n
<1>3. CASE order = "ASC"
  BY <1>1, <1>2, <1>3 DEF Ordered, n
<1>4. CASE order # "ASC"
  <2> DEFINE rows == Reverse(byTime)
  <2>1. /\ rows = [i \in 1..n |-> byTime[(n - i) + 1]]
        /\ \A i \in 1..n : (n - i) + 1 \in 1..n /\ (n - ((n - i) + 1)) + 1 = i
    BY <1>1, <1>2 DEF Reverse
  <2> HIDE DEF rows
  <2>2. rows \in Seq(1..n) /\ Len(rows) = n
    BY <1>1, <1>2, <2>1
  <2>3. Distinct(rows)
    <3> SUFFICES ASSUME NEW j \in 1..n, NEW k \in 1..n, rows[j] = rows[k] PROVE j = k
      BY <2>1 DEF Distinct
    <3>1. byTime[(n - j) + 1] = byTime[(n - k) + 1] /\ (n - j) + 1 \in DOMAIN byTime
          /\ (n - k) + 1 \in DOMAIN byTime
      BY <1>1, <1>2, <2>1
    <3>2. (n - j) + 1 = (n - k) + 1
      BY <1>2, <3>1 DEF Distinct
    <3> QED BY <1>1, <3>2
  <2>4. ToSet(rows) = 1..n
    <3>1. ASSUME NEW i \in 1..n PROVE \E k \in 1..n : rows[k] = i
      <4>0. i \in ToSet(byTime) /\ DOMAIN byTime = 1..n
        BY <1>1, <1>2
      <4>1. PICK j \in 1..n : byTime[j] = i
        BY <4>0, Zenon DEF ToSet
      <4> DEFINE k == (n - j) + 1
      <4>2. k \in 1..n /\ (n - k) + 1 = j
        BY <2>1
      <4>3. rows[k] = i
        BY <2>1, <4>1, <4>2
      <4> HIDE DEF k
      <4> QED BY <4>2, <4>3
    <3>2. \A k \in 1..n : rows[k] \in 1..n
      BY <2>2
    <3>3. DOMAIN rows = 1..n
      BY <2>1
    <3> QED BY <3>1, <3>2, <3>3 DEF ToSet
  <2> QED BY <1>1, <1>4, <2>2, <2>3, <2>4 DEF Ordered, n, rows
<1> QED BY <1>3, <1>4

\* It holds of the empty ledger.
LEMMA StatementsInitially == StatementInit => StatementInv
<1> SUFFICES ASSUME StatementInit PROVE StatementInv
  OBVIOUS
<1> USE DEF StatementInit
<1>1. Len(entries) = 0 /\ Len(byTime) = 0 /\ DOMAIN entries = {} /\ ToSet(byTime) = {} /\ 1..0 = {}
  BY DEF ToSet
<1>2. StatementTypeOK
  BY DEF StatementTypeOK, Export, Screen, Lists, NoExport, Closed
<1>3. Balance(0) = 0
  BY <1>1, SumEmpty DEF Balance
<1>4. LedgerFits
  BY <1>1, <1>3 DEF LedgerFits, Distinct
<1>5. Repeats(<<>>) = 0
  <2>1. ToSet(<<>>) = {} /\ Len(<<>>) = 0
    BY DEF ToSet
  <2> QED BY <2>1, FS_EmptySet DEF Repeats
<1>6. ExportFits
  BY <1>1, <1>5 DEF ExportFits, ExportHasAll, NoExport
<1>7. ScreenFits
  BY DEF ScreenFits, Closed
<1> QED BY <1>2, <1>4, <1>6, <1>7 DEF StatementInv

-----------------------------------------------------------------------------
(* The steps.                                                              *)

\* With the new row put in, a list of all rows is one again.
LEMMA PutInFits ==
  ASSUME NEW n \in Nat, NEW rows \in Seq(1..n), Len(rows) = n, Distinct(rows), ToSet(rows) = 1..n,
         NEW longer, longer \in Seq(1..(n + 1)), NEW p, PutIn(rows, longer, p, n + 1)
  PROVE  Distinct(longer) /\ ToSet(longer) = 1..(n + 1)
<1> DEFINE was(k) == IF k < p THEN k ELSE k - 1
<1>1. /\ Len(longer) = n + 1 /\ DOMAIN longer = 1..(n + 1) /\ p \in 1..(n + 1) /\ longer[p] = n + 1
      /\ DOMAIN rows = 1..n
  BY DEF PutIn
<1>2. ASSUME NEW k \in 1..(n + 1), k # p
      PROVE  was(k) \in 1..n /\ longer[k] = rows[was(k)] /\ longer[k] # n + 1
  <2>1. CASE k < p
    <3>1. k \in 1..n
      BY <1>1, <2>1
    <3> QED BY <1>1, <2>1, <3>1 DEF PutIn
  <2>2. CASE ~(k < p)
    <3> DEFINE j == k - 1
    <3>1. j \in 1..n /\ ~(j < p) /\ k = j + 1
      BY <1>1, <1>2, <2>2
    <3> HIDE DEF j
    <3>2. rows[j] \in 1..n
      BY <3>1
    <3>3. longer[k] = rows[j]
      BY <1>1, <3>1 DEF PutIn
    <3>4. was(k) = j
      BY <2>2 DEF j
    <3> HIDE DEF was
    <3> QED BY <3>1, <3>2, <3>3, <3>4
  <2> QED BY <2>1, <2>2
<1>3. Distinct(longer)
  <2> SUFFICES ASSUME NEW j \in 1..(n + 1), NEW k \in 1..(n + 1), longer[j] = longer[k] PROVE j = k
    BY <1>1 DEF Distinct
  <2>1. CASE j = p \/ k = p
    BY <1>1, <1>2, <2>1
  <2>2. CASE j # p /\ k # p
    <3>1. was(j) = was(k)
      <4>1. was(j) \in 1..n /\ was(k) \in 1..n /\ rows[was(j)] = rows[was(k)]
        BY <1>2, <2>2
      <4> HIDE DEF was
      <4> QED BY <1>1, <4>1 DEF Distinct
    <3> QED BY <1>1, <2>2, <3>1
  <2> QED BY <2>1, <2>2
<1>4. ToSet(longer) = 1..(n + 1)
  <2>1. ASSUME NEW i \in 1..(n + 1) PROVE \E k \in DOMAIN longer : longer[k] = i
    <3>1. CASE i = n + 1
      BY <1>1, <3>1
    <3>2. CASE i # n + 1
      <4>1. i \in ToSet(rows)
        BY <3>2
      <4>2. PICK k \in 1..n : rows[k] = i
        BY <1>1, <4>1, Zenon DEF ToSet
      <4> DEFINE j == IF k < p THEN k ELSE k + 1
      <4>3. longer[j] = i
        BY <4>2 DEF PutIn
      <4>4. j \in DOMAIN longer
        BY <1>1
      <4> HIDE DEF j
      <4> QED BY <4>3, <4>4
    <3> QED BY <3>1, <3>2
  <2>2. \A k \in DOMAIN longer : longer[k] \in 1..(n + 1)
    OBVIOUS
  <2> QED BY <2>1, <2>2 DEF ToSet
<1> QED BY <1>3, <1>4

\* A list that is by time, in an order.
Arranged(list, order) == IF order = "ASC" THEN list ELSE Reverse(list)

\* What a posting leaves, and what it adds.
LEMMA PostAppends ==
  ASSUME StatementInv, NEW delta \in Int, NEW place \in 1..(Len(entries) + 1), Post(delta, place),
         NEW n, n = Len(entries)
  PROVE  /\ n \in Nat /\ Len(entries') = n + 1
         /\ DOMAIN entries = 1..n /\ DOMAIN entries' = 1..(n + 1)
         /\ \A i \in 1..n : entries'[i] = entries[i]
         /\ entries'[n + 1] = [delta |-> delta, snapshot |-> cached + delta]
         /\ cached' = cached + delta /\ cached' \in Nat
         /\ StatementTypeOK' /\ LedgerFits'
         /\ \A order \in {"DESC", "ASC"} :
              /\ Arranged(byTime', order) \in Seq(1..(n + 1))
              /\ \E p : PutIn(Arranged(byTime, order), Arranged(byTime', order), p, n + 1)
<1> DEFINE row == [delta |-> delta, snapshot |-> cached + delta]
           R == [delta : Int, snapshot : Nat]
<1>1. StatementTypeOK /\ LedgerFits
  BY DEF StatementInv
<1>2. /\ cached \in Nat /\ cached + delta >= 0 /\ cached' = cached + delta
      /\ entries' = Append(entries, row)
      /\ byTime' = InsertAt(byTime, place, n + 1)
      /\ UNCHANGED <<export, screen>>
  BY <1>1 DEF Post, StatementTypeOK, Snapshot
<1>3. row \in R /\ cached' \in Nat
  BY <1>2
<1>4. entries \in Seq(R)
  BY <1>1 DEF StatementTypeOK
<1> HIDE DEF row, R
<1>5. /\ n \in Nat /\ Len(entries') = n + 1 /\ entries' \in Seq(R)
      /\ DOMAIN entries = 1..n /\ DOMAIN entries' = 1..(n + 1)
      /\ \A i \in 1..n : entries'[i] = entries[i]
      /\ entries'[n + 1] = row
  BY <1>2, <1>3, <1>4
<1>6. byTime \in Seq(1..n) /\ Len(byTime) = n /\ Distinct(byTime) /\ ToSet(byTime) = 1..n
  BY <1>1, <1>5 DEF StatementTypeOK, LedgerFits
<1>7. byTime' \in Seq(1..(n + 1))
  <2>1. /\ SubSeq(byTime, 1, place - 1) \in Seq(1..(n + 1))
        /\ SubSeq(byTime, place, n) \in Seq(1..(n + 1))
    BY <1>5, <1>6
  <2>2. <<n + 1>> \in Seq(1..(n + 1))
    BY <1>5
  <2> QED BY <1>2, <1>6, <2>1, <2>2 DEF InsertAt
<1>8. /\ PutIn(byTime, byTime', place, n + 1)
      /\ PutIn(Reverse(byTime), Reverse(byTime'), n + 2 - place, n + 1)
  BY <1>2, <1>5, <1>6, OrderedPutIn
<1>9. Distinct(byTime') /\ ToSet(byTime') = 1..(n + 1) /\ Len(byTime') = n + 1
  <2>1. Len(byTime') = n + 1
    BY <1>6, <1>8 DEF PutIn
  <2>2. PutIn(byTime, byTime', place, n + 1)
    BY <1>8
  <2>3. Distinct(byTime') /\ ToSet(byTime') = 1..(n + 1)
    BY <1>5, <1>6, <1>7, <2>2, PutInFits
  <2> QED BY <2>1, <2>3
<1>10. StatementTypeOK'
  BY <1>1, <1>2, <1>3, <1>5, <1>7 DEF StatementTypeOK, R
\* The sums.
<1>11. ASSUME NEW i \in 0..n PROVE Balance(i)' = Balance(i)
  <2>1. IsFiniteSet(1..i) /\ 1..i \subseteq 1..n
    BY <1>5, FS_Interval
  <2>2. \A k \in 1..i : Deltas'[k] = Deltas[k]
    BY <1>5, <2>1 DEF Deltas
  <2> QED BY <2>1, <2>2, SumSame DEF Balance
<1>12. Balance(n + 1)' = cached + delta
  <2>0. IsFiniteSet(1..n)
    <3>1. n \in Nat
      BY <1>5
    <3> QED BY <3>1, FS_Interval
  <2>1. 1..(n + 1) = (1..n) \cup {n + 1} /\ n + 1 \notin 1..n
    BY <1>5
  <2>2. \A k \in 1..n : entries'[k].delta \in Int
    BY <1>1, <1>5, RowsHaveAmounts
  <2>3. (\A k \in 1..n : Deltas'[k] \in Int) /\ Deltas'[n + 1] = delta
    BY <1>5, <2>1, <2>2 DEF Deltas, row
  <2> DEFINE d == Deltas'
  <2>4. SumFunctionOnSet(d, (1..n) \cup {n + 1}) = delta + SumFunctionOnSet(d, 1..n)
    <3>1. (\A k \in 1..n : d[k] \in Int) /\ d[n + 1] = delta
      BY <2>3
    <3> HIDE DEF d
    <3> QED BY <2>0, <2>1, <3>1, SumAdd DEF Summable
  <2>5. SumFunctionOnSet(Deltas', 1..n) = cached
    BY <1>1, <1>5, <1>11 DEF LedgerFits, Balance
  <2>6. SumFunctionOnSet(Deltas', 1..(n + 1)) = delta + cached
    BY <2>1, <2>4, <2>5, Zenon
  <2>7. Balance(n + 1)' = SumFunctionOnSet(Deltas', 1..(n + 1))
    BY Zenon DEF Balance
  <2> QED BY <1>2, <2>6, <2>7
<1>13. LedgerFits'
  <2>1. \A i \in DOMAIN entries' : entries'[i].snapshot = Balance(i)'
    <3> SUFFICES ASSUME NEW i \in 1..(n + 1) PROVE entries'[i].snapshot = Balance(i)'
      BY <1>5
    <3>1. CASE i = n + 1
      BY <1>5, <1>12, <3>1 DEF row
    <3>2. CASE i # n + 1
      <4>1. i \in 1..n
        BY <1>5, <3>2
      <4> QED BY <1>1, <1>5, <1>11, <4>1 DEF LedgerFits
    <3> QED BY <3>1, <3>2
  <2> QED BY <1>2, <1>5, <1>9, <1>12, <2>1 DEF LedgerFits
<1>14. ASSUME NEW order \in {"DESC", "ASC"}
       PROVE  /\ Arranged(byTime', order) \in Seq(1..(n + 1))
              /\ \E p : PutIn(Arranged(byTime, order), Arranged(byTime', order), p, n + 1)
  <2>1. Reverse(byTime') \in Seq(1..(n + 1))
    BY <1>7 DEF Reverse
  <2> QED BY <1>7, <1>8, <2>1 DEF Arranged
<1> QED BY <1>2, <1>3, <1>5, <1>10, <1>13, <1>14 DEF row

\* The fields of an export.
LEMMA ExportTyped ==
  ASSUME StatementTypeOK
  PROVE  /\ export.running \in BOOLEAN /\ export.capped \in BOOLEAN /\ export.filter \in Lists
         /\ export.order \in {"DESC", "ASC"} /\ export.out \in Seq(Nat)
         /\ export.offset \in Nat /\ export.from \in Nat /\ export.since \in Nat
BY DEF StatementTypeOK, Export

\* A row that is posted keeps its amount, so a list has the same rows that match.
LEMMA PostProgress ==
  ASSUME StatementInv, NEW delta \in Int, NEW place \in 1..(Len(entries) + 1), Post(delta, place),
         export.running, ExportProgress, NEW n, n = Len(entries)
  PROVE  ExportProgress'
<1> DEFINE rows == ExportRows  longer == ExportRows'  at == ExportAt  new == ExportAt'
           filter == export.filter  offset == export.offset
           out == ToSet(export.out)
<1>1. StatementTypeOK /\ LedgerFits /\ ExportFits
  BY DEF StatementInv
<1>2. /\ n \in Nat /\ Len(entries') = n + 1
      /\ \A i \in 1..n : entries'[i] = entries[i]
      /\ \A order \in {"DESC", "ASC"} :
           /\ Arranged(byTime', order) \in Seq(1..(n + 1))
           /\ \E p : PutIn(Arranged(byTime, order), Arranged(byTime', order), p, n + 1)
  BY PostAppends
<1>3. export' = export
  BY DEF Post
<1>4. /\ offset \in Nat /\ export.from \in Nat /\ export.since \in Nat
      /\ export.order \in {"DESC", "ASC"} /\ export.from <= n /\ export.since <= n
      /\ export.out \in Seq(1..export.since)
  BY <1>1, ExportTyped DEF ExportFits
<1>5. rows \in Seq(1..n) /\ Len(rows) = n /\ Distinct(rows) /\ ToSet(rows) = 1..n
  BY <1>1, <1>2, OrderedType DEF ExportRows
<1>6. rows = Arranged(byTime, export.order) /\ longer = Arranged(byTime', export.order)
  BY <1>3 DEF ExportRows, Ordered, Arranged
<1>7. at = {k \in DOMAIN rows : Matches(rows[k], filter)}
  BY DEF ExportAt, At
<1>8. new = {k \in DOMAIN longer : \/ filter = "all"
                                   \/ filter = "CREDIT" /\ entries'[longer[k]].delta > 0
                                   \/ filter = "DEBIT" /\ entries'[longer[k]].delta < 0}
  BY <1>3 DEF ExportAt, At, Matches
<1>9. /\ \A k \in at : rows[k] <= export.from /\ CountTo(at, k) <= offset => rows[k] \in out
      /\ Repeats(export.out) + Cardinality(out \cap Ahead(rows, at, offset)) <= n - export.from
  BY DEF ExportProgress
<1> SUFFICES /\ \A k \in new : longer[k] <= export.from /\ CountTo(new, k) <= offset
                                  => longer[k] \in out
             /\ Repeats(export.out) + Cardinality(out \cap Ahead(longer, new, offset))
                  <= (n + 1) - export.from
  BY <1>2, <1>3 DEF ExportProgress
<1> HIDE DEF rows, longer, at, new, filter, offset
<1>10. longer \in Seq(1..(n + 1)) /\ \E p : PutIn(rows, longer, p, n + 1)
  BY <1>2, <1>4, <1>6
<1>11. PICK p : PutIn(rows, longer, p, n + 1)
  BY <1>10
<1>12. DOMAIN rows = 1..n /\ DOMAIN longer = 1..(n + 1)
  BY <1>2, <1>5, <1>10, <1>11 DEF PutIn
<1>13. at \in SUBSET (1..n) /\ new \in SUBSET (1..(n + 1))
  BY <1>7, <1>8, <1>12
<1>14. ASSUME NEW k \in 1..n
       PROVE  k \in at <=> (IF k < p THEN k ELSE k + 1) \in new
  <2> DEFINE j == IF k < p THEN k ELSE k + 1
  <2>1. longer[j] = rows[k]
    BY <1>5, <1>11 DEF PutIn
  <2>2. j \in 1..(n + 1)
    BY <1>2
  <2> HIDE DEF j
  <2>3. rows[k] \in 1..n /\ entries'[rows[k]] = entries[rows[k]]
    BY <1>2, <1>5
  <2>4. k \in at <=> j \in new
    BY <1>7, <1>8, <1>12, <2>1, <2>2, <2>3 DEF Matches
  <2> QED BY <2>4 DEF j
<1>15. out \in SUBSET (1..n) /\ IsFiniteSet(out) /\ Repeats(export.out) \in Nat
  <2>1. 1..export.since \subseteq 1..n
    BY <1>2, <1>4
  <2> QED BY <1>4, <2>1, MembersFinite
<1> HIDE DEF out
<1>16. /\ \A k \in new : longer[k] # n + 1 /\ CountTo(new, k) <= offset =>
            \E j \in at : CountTo(at, j) <= offset /\ longer[k] = rows[j]
       /\ Cardinality(out \cap Ahead(longer, new, offset))
            <= Cardinality(out \cap Ahead(rows, at, offset)) + 1
  <2>1. offset \in Nat
    BY <1>4 DEF offset
  <2> QED BY <1>2, <1>5, <1>10, <1>11, <1>13, <1>14, <1>15, <2>1, PutInCounts
<1>17. ASSUME NEW k \in new, longer[k] <= export.from, CountTo(new, k) <= offset
       PROVE  longer[k] \in out
  <2>1. longer[k] # n + 1
    BY <1>2, <1>4, <1>17
  <2> QED BY <1>9, <1>16, <1>17, <2>1
<1>18. /\ Cardinality(out \cap Ahead(rows, at, offset)) \in Nat
       /\ Cardinality(out \cap Ahead(longer, new, offset)) \in Nat
  <2>1. /\ IsFiniteSet(out \cap Ahead(rows, at, offset))
        /\ IsFiniteSet(out \cap Ahead(longer, new, offset))
    BY <1>15, FS_Subset
  <2> QED BY <2>1, FS_CardinalityType
<1> QED BY <1>2, <1>4, <1>9, <1>15, <1>16, <1>17, <1>18

\* A posting keeps the invariant.
LEMMA PostKeeps ==
  ASSUME StatementInv, NEW delta \in Int, NEW place \in 1..(Len(entries) + 1), Post(delta, place)
  PROVE  StatementInv'
<1>1. PICK n : n = Len(entries)
  OBVIOUS
<1>2. /\ n \in Nat /\ Len(entries') = n + 1
      /\ \A i \in 1..n : entries'[i] = entries[i]
      /\ StatementTypeOK' /\ LedgerFits'
  BY <1>1, PostAppends
<1>3. export' = export /\ screen' = screen
  BY DEF Post
<1>4. StatementTypeOK /\ ExportFits /\ ScreenFits
  BY DEF StatementInv
<1>5. ExportFits'
  <2>1. /\ export.from \in Nat /\ export.since \in Nat
        /\ export.from <= export.since /\ export.since <= n
    BY <1>1, <1>4, ExportTyped DEF ExportFits
  <2>2. export.running => ExportProgress'
    BY <1>1, <1>4, PostProgress DEF ExportFits
  <2>3. ExportHasAll => ExportHasAll'
    <3>1. \A i \in 1..export.from : entries'[i] = entries[i]
      BY <1>2, <2>1
    <3> QED BY <1>3, <3>1 DEF ExportHasAll, Matches
  <2> QED BY <1>1, <1>2, <1>3, <1>4, <2>1, <2>2, <2>3 DEF ExportFits, Finished
<1>6. ScreenFits'
  <2>1. screen.asOf \in Nat
    BY <1>4 DEF StatementTypeOK, Screen
  <2> QED BY <1>1, <1>2, <1>3, <1>4, <2>1 DEF ScreenFits
<1> QED BY <1>2, <1>5, <1>6 DEF StatementInv

\* The empty list repeats nothing.
LEMMA NothingOut ==
  /\ ToSet(<<>>) = {} /\ Repeats(<<>>) = 0
  /\ \A S : Cardinality(ToSet(<<>>) \cap S) = 0
<1>1. ToSet(<<>>) = {} /\ Len(<<>>) = 0
  BY DEF ToSet
<1>2. \A S : {} \cap S = {}
  OBVIOUS
<1> QED BY <1>1, <1>2, FS_EmptySet DEF Repeats

\* So does the beginning of an export: nothing is before the offset yet.
LEMMA StartKeeps ==
  ASSUME StatementInv, NEW filter \in Lists, NEW order \in {"DESC", "ASC"},
         StartExport(filter, order)
  PROVE  StatementInv'
<1> DEFINE n == Len(entries)  rows == Ordered(order)  at == At(rows, filter)
<1>1. StatementTypeOK /\ LedgerFits /\ ScreenFits
  BY DEF StatementInv
<1>2. UNCHANGED <<entries, byTime, cached, screen>>
  BY DEF StartExport
<1>3. /\ export'.filter = filter /\ export'.order = order /\ export'.out = <<>>
      /\ export'.offset = 0 /\ export'.from = n /\ export'.since = n
      /\ export'.running \/ export'.capped
      /\ export' = [running |-> MaxExportRows > 0, filter |-> filter, order |-> order,
                    out |-> <<>>, offset |-> 0, capped |-> MaxExportRows = 0,
                    from |-> n, since |-> n]
  <2>1. MaxExportRows > 0 \/ MaxExportRows = 0
    BY StatementsAssumption
  <2>2. export' = [running |-> MaxExportRows > 0, filter |-> filter, order |-> order,
                   out |-> <<>>, offset |-> 0, capped |-> MaxExportRows = 0,
                   from |-> n, since |-> n]
    BY DEF StartExport, NoExport
  <2> HIDE DEF n
  <2> QED BY <2>1, <2>2
<1>4. n \in Nat /\ rows \in Seq(1..n) /\ Len(rows) = n
  BY <1>1, OrderedType
<1>5. StatementTypeOK'
  <2>1. export' \in Export
    <3> HIDE DEF n
    <3> QED BY <1>3, <1>4 DEF Export
  <2> QED BY <1>1, <1>2, <2>1 DEF StatementTypeOK
<1>6. LedgerFits'
  BY <1>1, <1>2 DEF LedgerFits, Balance, Deltas
<1>7. ExportRows' = rows /\ ExportAt' = at
  BY <1>2, <1>3 DEF ExportAt, At, ExportRows, Ordered, Matches
<1>8. \A k \in at : CountTo(at, k) \in Nat /\ CountTo(at, k) > 0
  <2>1. at \in SUBSET (1..n)
    BY <1>4 DEF At
  <2> HIDE DEF n, at
  <2> QED BY <1>4, <2>1, CountAll
<1>9. ExportProgress'
  <2> HIDE DEF n, rows, at
  <2>1. \A k \in at : ~(CountTo(at, k) <= 0)
    BY <1>8
  <2>2. /\ Repeats(export'.out) = 0
        /\ Cardinality(ToSet(export'.out) \cap Ahead(rows, at, 0)) = 0
    BY <1>3, NothingOut, Zenon
  <2>3. Len(entries') - export'.from = 0
    BY <1>2, <1>3, <1>4 DEF n
  <2> QED BY <1>3, <1>7, <2>1, <2>2, <2>3 DEF ExportProgress
<1>10. ExportFits'
  BY <1>2, <1>3, <1>4, <1>9, NothingOut DEF ExportFits, Finished
<1>11. ScreenFits'
  BY <1>1, <1>2 DEF ScreenFits
<1> QED BY <1>5, <1>6, <1>10, <1>11 DEF StatementInv

\* So does a page of one: what is before the new offset was read before or is on it.
LEMMA PageKeeps ==
  ASSUME StatementInv, ExportPage
  PROVE  StatementInv'
<1> DEFINE n == Len(entries)  rows == ExportRows  at == ExportAt
           offset == export.offset  out == export.out
           page == Page(export.filter, export.order, PageLimit, export.offset)
<1>1. /\ StatementTypeOK /\ LedgerFits /\ ScreenFits /\ ExportFits
      /\ export.running /\ ExportProgress
  BY DEF StatementInv, ExportPage, ExportFits
<1>2. UNCHANGED <<entries, byTime, cached, screen>>
  BY DEF ExportPage
<1>3. PageLimit \in Nat
  BY StatementsAssumption
<1>4. /\ n \in Nat /\ rows \in Seq(1..n) /\ Len(rows) = n /\ Distinct(rows) /\ ToSet(rows) = 1..n
      /\ rows = Ordered(export.order) /\ at = At(rows, export.filter)
  BY <1>1, OrderedType DEF ExportRows, ExportAt
<1>5. /\ export.filter \in Lists /\ export.order \in {"DESC", "ASC"}
      /\ offset \in Nat /\ export.from \in Nat /\ export.since \in Nat
      /\ export.from <= n /\ export.since <= n /\ out \in Seq(1..export.since)
  BY <1>1, <1>4, ExportTyped DEF ExportFits
<1>6. at \in SUBSET (DOMAIN rows) /\ DOMAIN rows = 1..n
  BY <1>4 DEF At
<1>7. /\ export'.filter = export.filter /\ export'.order = export.order
      /\ export'.from = export.from /\ export'.since = n
      /\ export'.out = out \o page /\ export'.offset = offset + PageLimit
      /\ ~export'.running /\ ~export'.capped => Len(page) < PageLimit
      /\ export'.running \in BOOLEAN /\ export'.capped \in BOOLEAN
      /\ export' = [running |-> export'.running, filter |-> export.filter,
                    order |-> export.order, out |-> export'.out, offset |-> export'.offset,
                    capped |-> export'.capped, from |-> export.from, since |-> n]
  <2>1. export \in Export
    BY <1>1 DEF StatementTypeOK
  <2> HIDE DEF page
  <2>2. export' = [export EXCEPT
           !.out = @ \o page, !.offset = NextOffset(page), !.since = Len(entries),
           !.running = ~LastPage(page) /\ NextOffset(page) < MaxExportRows,
           !.capped = ~LastPage(page) /\ NextOffset(page) >= MaxExportRows]
    BY Zenon DEF ExportPage, page
  <2>3. NextOffset(page) < MaxExportRows \/ NextOffset(page) >= MaxExportRows
    BY <1>3, <1>5, StatementsAssumption DEF NextOffset
  <2>4. export' = [running |-> ~LastPage(page) /\ NextOffset(page) < MaxExportRows,
                   filter |-> export.filter, order |-> export.order, out |-> out \o page,
                   offset |-> NextOffset(page),
                   capped |-> ~LastPage(page) /\ NextOffset(page) >= MaxExportRows,
                   from |-> export.from, since |-> n]
    BY <2>1, <2>2 DEF Export
  <2> QED BY <2>3, <2>4 DEF NextOffset, LastPage
<1>8. /\ page \in Seq(1..n) /\ Cardinality(ToSet(page)) = Len(page)
      /\ ToSet(page) = Paged(rows, at, PageLimit, offset)
      /\ Len(page) < PageLimit => \A k \in at : CountTo(at, k) <= offset + PageLimit
  <2>1. page = Page(export.filter, export.order, PageLimit, offset)
    OBVIOUS
  <2> HIDE DEF n, rows, at, offset, page
  <2> QED BY <1>3, <1>4, <1>5, <2>1, PageLists DEF offset
<1>9. 1..export.since \subseteq 1..n /\ out \in Seq(1..n)
  <2>1. 1..export.since \subseteq 1..n
    BY <1>4, <1>5
  <2> QED BY <1>5, <2>1
<1>10. /\ ToSet(out \o page) = ToSet(out) \cup ToSet(page)
       /\ Repeats(out \o page)
            + Cardinality(ToSet(out \o page) \cap Ahead(rows, at, offset + PageLimit))
            <= Repeats(out) + Cardinality(ToSet(out) \cap Ahead(rows, at, offset))
  <2> HIDE DEF n, rows, at, offset, out, page
  <2>1. n \in Nat /\ rows \in Seq(1..n) /\ Distinct(rows) /\ at \in SUBSET (DOMAIN rows)
    BY <1>4, <1>6
  <2>2. offset \in Nat /\ PageLimit \in Nat /\ out \in Seq(1..n) /\ page \in Seq(1..n)
    BY <1>3, <1>5, <1>8, <1>9
  <2>3. Cardinality(ToSet(page)) = Len(page) /\ ToSet(page) = Paged(rows, at, PageLimit, offset)
    BY <1>8
  <2> QED BY <2>1, <2>2, <2>3, PageRepeats
<1>11. /\ \A k \in at : rows[k] <= export.from /\ CountTo(at, k) <= offset => rows[k] \in ToSet(out)
       /\ Repeats(out) + Cardinality(ToSet(out) \cap Ahead(rows, at, offset)) <= n - export.from
  BY <1>1 DEF ExportProgress
<1>12. ExportRows' = rows /\ ExportAt' = at
  BY <1>2, <1>7 DEF ExportAt, At, ExportRows, Ordered, Matches
<1> HIDE DEF n, rows, at, offset, out, page
<1>13. out \o page \in Seq(1..n)
  BY <1>8, <1>9
<1>14. /\ Repeats(out) \in Nat /\ Repeats(out \o page) \in Nat
       /\ IsFiniteSet(ToSet(out)) /\ IsFiniteSet(ToSet(out \o page))
  <2> DEFINE both == out \o page
  <2>1. both \in Seq(1..n)
    BY <1>13
  <2> HIDE DEF both
  <2>2. Repeats(both) \in Nat /\ IsFiniteSet(ToSet(both))
    BY <2>1, MembersFinite
  <2>3. Repeats(out) \in Nat /\ IsFiniteSet(ToSet(out))
    BY <1>9, MembersFinite
  <2> QED BY <2>2, <2>3 DEF both
<1>15. /\ Cardinality(ToSet(out) \cap Ahead(rows, at, offset)) \in Nat
       /\ Cardinality(ToSet(out \o page) \cap Ahead(rows, at, offset + PageLimit)) \in Nat
  <2>1. /\ IsFiniteSet(ToSet(out) \cap Ahead(rows, at, offset))
        /\ IsFiniteSet(ToSet(out \o page) \cap Ahead(rows, at, offset + PageLimit))
    BY <1>14, FS_Subset
  <2> QED BY <2>1, FS_CardinalityType
<1>16. Repeats(out \o page)
         + Cardinality(ToSet(out \o page) \cap Ahead(rows, at, offset + PageLimit))
         <= n - export.from
  BY <1>4, <1>5, <1>10, <1>11, <1>14, <1>15
<1>17. ASSUME NEW k \in at, rows[k] <= export.from, CountTo(at, k) <= offset + PageLimit
       PROVE  rows[k] \in ToSet(out \o page)
  <2>1. CountTo(at, k) \in Nat
    <3>1. k \in Nat
      BY <1>4, <1>6
    <3> QED BY <3>1, CountStep
  <2>2. CASE CountTo(at, k) <= offset
    BY <1>10, <1>11, <1>17, <2>2
  <2>3. CASE ~(CountTo(at, k) <= offset)
    <3>1. k \in OnPage(at, PageLimit, offset)
      BY <1>3, <1>5, <1>17, <2>1, <2>3 DEF OnPage, offset
    <3> QED BY <1>8, <1>10, <3>1 DEF Paged
  <2> QED BY <2>2, <2>3
<1>18. StatementTypeOK'
  <2>1. export' \in Export
    <3>1. out \o page \in Seq(Nat)
      <4>1. 1..n \subseteq Nat
        OBVIOUS
      <4> QED BY <1>13, <4>1, SeqMonotonic
    <3>2. offset + PageLimit \in Nat
      BY <1>3, <1>5
    <3> QED BY <1>4, <1>5, <1>7, <3>1, <3>2 DEF Export
  <2> QED BY <1>1, <1>2, <2>1 DEF StatementTypeOK
<1>19. LedgerFits'
  BY <1>1, <1>2 DEF LedgerFits, Balance, Deltas
<1>20. ExportProgress'
  <2>1. Len(entries') = n
    BY <1>2 DEF n
  <2> QED BY <1>7, <1>12, <1>16, <1>17, <2>1 DEF ExportProgress
<1>21. ~export'.running /\ ~export'.capped => ExportHasAll'
  <2> SUFFICES ASSUME Len(page) < PageLimit, NEW i \in 1..export.from, Matches(i, export.filter)
               PROVE  i \in ToSet(out \o page)
    BY <1>2, <1>7 DEF ExportHasAll, Matches
  <2>1. i \in 1..n /\ i <= export.from
    BY <1>4, <1>5
  <2>2. PICK k \in 1..n : rows[k] = i
    BY <1>4, <1>6, <2>1, Zenon DEF ToSet
  <2>3. k \in at
    BY <1>4, <1>6, <2>2 DEF At
  <2> QED BY <1>8, <1>17, <2>1, <2>2, <2>3
<1>22. ExportFits'
  <2>1. Len(entries') = n
    BY <1>2 DEF n
  <2>2. Repeats(out \o page) <= n - export.from
    BY <1>4, <1>5, <1>14, <1>15, <1>16
  <2> QED BY <1>4, <1>5, <1>7, <1>13, <1>20, <1>21, <2>1, <2>2 DEF ExportFits, Finished
<1>23. ScreenFits'
  BY <1>1, <1>2 DEF ScreenFits
<1> QED BY <1>18, <1>19, <1>22, <1>23 DEF StatementInv

\* The history page's list has every row there is, when it is not full.
LEMMA OpenLists ==
  ASSUME StatementTypeOK, LedgerFits, NEW n, n = Len(entries),
         NEW list, list = Page("all", "DESC", DefaultLimit, 0)
  PROVE  /\ n \in Nat /\ list \in Seq(1..n) /\ Distinct(list)
         /\ Len(list) < DefaultLimit => ToSet(list) = 1..n
<1> DEFINE rows == Ordered("DESC")  at == At(rows, "all")
<1>1. DefaultLimit \in Nat /\ 0 \in Nat
  BY StatementsAssumption
<1>2. n \in Nat /\ rows \in Seq(1..n) /\ Len(rows) = n /\ Distinct(rows) /\ ToSet(rows) = 1..n
  BY OrderedType
<1>3. at = 1..n
  BY <1>2 DEF At, Matches
<1>4. rows = Ordered("DESC") /\ at = At(rows, "all")
  OBVIOUS
<1> HIDE DEF rows, at
<1>5. /\ list \in Seq(1..n) /\ Distinct(list)
      /\ ToSet(list) = Paged(rows, at, DefaultLimit, 0)
      /\ Len(list) < DefaultLimit => \A k \in at : CountTo(at, k) <= 0 + DefaultLimit
  BY <1>1, <1>2, <1>4, PageLists
<1>6. ASSUME Len(list) < DefaultLimit PROVE ToSet(list) = 1..n
  <2>1. \A k \in at : CountTo(at, k) \in 1..Cardinality(at) /\ Cardinality(at) \in Nat
    <3>1. at \in SUBSET (1..n)
      BY <1>3
    <3> QED BY <1>2, <3>1, CountAll, FS_CardinalityType
  <2>2. OnPage(at, DefaultLimit, 0) = at
    BY <1>1, <1>5, <1>6, <2>1 DEF OnPage
  <2>3. {rows[k] : k \in 1..n} = 1..n
    BY <1>2 DEF ToSet
  <2> QED BY <1>3, <1>5, <2>2, <2>3 DEF Paged
<1> QED BY <1>2, <1>5, <1>6

\* The steps of the page leave the ledger and the export alone.
LEMMA ScreenKeeps ==
  ASSUME StatementInv, UNCHANGED <<entries, byTime, cached, export>>,
         screen' \in Screen, ScreenFits'
  PROVE  StatementInv'
<1>1. StatementTypeOK /\ LedgerFits /\ ExportFits
  BY DEF StatementInv
<1>2. StatementTypeOK'
  BY <1>1 DEF StatementTypeOK
<1>3. LedgerFits'
  BY <1>1 DEF LedgerFits, Balance, Deltas
<1>4. ExportFits'
  <2>1. ExportRows' = ExportRows /\ ExportAt' = ExportAt
    BY DEF ExportAt, At, ExportRows, Ordered, Matches
  <2>2. ExportProgress' = ExportProgress
    BY <2>1 DEF ExportProgress
  <2>3. ExportHasAll' = ExportHasAll
    BY DEF ExportHasAll, Matches
  <2> QED BY <1>1, <2>2, <2>3 DEF ExportFits, Finished
<1> QED BY <1>2, <1>3, <1>4 DEF StatementInv

\* The steps of the history page keep the invariant.
LEMMA HistoryPageKeeps ==
  ASSUME StatementInv, Open \/ LoadMore \/ ShowMore \/ \E filter \in Filters : SetFilter(filter)
  PROVE  StatementInv'
<1>1. StatementTypeOK /\ LedgerFits /\ ScreenFits /\ screen \in Screen
  BY DEF StatementInv, StatementTypeOK
<1>2. UNCHANGED <<entries, byTime, cached, export>>
  BY DEF Open, LoadMore, ShowMore, SetFilter
<1>3. CASE Open
  <2> DEFINE list == Page("all", "DESC", DefaultLimit, 0)  n == Len(entries)
  <2>1. /\ n \in Nat /\ list \in Seq(1..n) /\ Distinct(list)
        /\ Len(list) < DefaultLimit => ToSet(list) = 1..n
    BY <1>1, OpenLists
  <2>2. screen' = [open |-> TRUE, rows |-> list, filter |-> "all", visible |-> ScreenSize,
                   timer |-> FALSE, asOf |-> n]
    BY <1>3 DEF Open
  <2>3. n = Len(entries)'
    BY <1>2
  <2> HIDE DEF list, n
  <2>4. list \in Seq(Nat)
    <3>1. 1..n \subseteq Nat
      OBVIOUS
    <3> QED BY <2>1, <3>1, SeqMonotonic
  <2>5. screen' \in Screen
    BY <2>1, <2>2, <2>4, StatementsAssumption DEF Screen, Lists
  <2>6. ScreenFits'
    BY <2>1, <2>2, <2>3 DEF ScreenFits
  <2> QED BY <1>2, <2>5, <2>6, ScreenKeeps
<1>4. CASE LoadMore \/ ShowMore \/ \E filter \in Filters : SetFilter(filter)
  <2>1. ScreenSize \in Nat /\ DefaultLimit \in Nat /\ Filters \subseteq Lists
    BY StatementsAssumption DEF Lists
  <2>2. Min({screen.visible + ScreenSize, DefaultLimit}) \in Nat
    <3>1. screen.visible + ScreenSize \in Nat
      BY <1>1, <2>1 DEF Screen
    <3> QED BY <2>1, <3>1, LeastOfTwo
  <2>3. \E filter \in Lists, visible \in Nat, timer \in BOOLEAN :
          screen' = [screen EXCEPT !.filter = filter, !.visible = visible, !.timer = timer]
    <3>1. CASE LoadMore
      <4>1. screen' = [screen EXCEPT !.filter = screen.filter, !.visible = screen.visible,
                                     !.timer = TRUE]
        BY <1>1, <3>1 DEF LoadMore, Screen
      <4> QED BY <1>1, <4>1 DEF Screen
    <3>2. CASE ShowMore
      <4> DEFINE more == Min({screen.visible + ScreenSize, DefaultLimit})
      <4>1. screen' = [screen EXCEPT !.filter = screen.filter, !.visible = more, !.timer = FALSE]
        BY <1>1, <3>2 DEF ShowMore, Screen
      <4> HIDE DEF more
      <4> QED BY <1>1, <2>2, <4>1 DEF Screen, more
    <3>3. CASE \E filter \in Filters : SetFilter(filter)
      <4>1. PICK filter \in Filters :
              screen' = [screen EXCEPT !.filter = filter, !.visible = ScreenSize,
                                       !.timer = screen.timer]
        BY <1>1, <3>3 DEF SetFilter, Screen
      <4> QED BY <1>1, <2>1, <4>1 DEF Screen
    <3> QED BY <1>4, <3>1, <3>2, <3>3
  <2>4. screen' \in Screen
    BY <1>1, <2>3 DEF Screen
  <2>5. screen'.open = screen.open /\ screen'.rows = screen.rows /\ screen'.asOf = screen.asOf
    BY <1>1, <2>3 DEF Screen
  <2>6. ScreenFits'
    BY <1>1, <1>2, <2>5 DEF ScreenFits
  <2> QED BY <1>2, <2>4, <2>6, ScreenKeeps
<1> QED BY <1>3, <1>4

\* StatementInv is inductive.
THEOREM StatementsKeepInv == StatementSpec => []StatementInv
<1>1. ASSUME StatementInv, [StatementNext]_statementVars PROVE StatementInv'
  <2>1. CASE \E delta \in {-1, 1}, place \in 1..(Len(entries) + 1) : Post(delta, place)
    <3>1. {-1, 1} \subseteq Int
      OBVIOUS
    <3> QED BY <1>1, <2>1, <3>1, PostKeeps
  <2>2. CASE \E filter \in Filters, order \in {"DESC", "ASC"} : StartExport(filter, order)
    <3>1. Filters \subseteq Lists
      BY DEF Lists
    <3> QED BY <1>1, <2>2, <3>1, StartKeeps
  <2>3. CASE ExportPage
    BY <1>1, <2>3, PageKeeps
  <2>4. CASE Open \/ LoadMore \/ ShowMore \/ \E filter \in Filters : SetFilter(filter)
    BY <1>1, <2>4, HistoryPageKeeps
  <2>5. CASE UNCHANGED statementVars
    <3>1. UNCHANGED <<entries, byTime, cached, export, screen>>
      BY <2>5 DEF statementVars
    <3>2. screen' \in Screen /\ ScreenFits'
      BY <1>1, <3>1 DEF StatementInv, StatementTypeOK, ScreenFits
    <3> QED BY <1>1, <3>1, <3>2, ScreenKeeps
  <2> QED BY <1>1, <2>1, <2>2, <2>3, <2>4, <2>5 DEF StatementNext
<1> QED BY <1>1, StatementsInitially, PTL DEF StatementSpec

\* A row's snapshot is the sum of the rows up to it, and a list of those, each once,
\* has totals that make it up.
LEMMA TotalsAreSnapshot ==
  ASSUME StatementTypeOK, LedgerFits, NEW m \in 1..Len(entries),
         NEW rows \in Seq(1..m), Distinct(rows), ToSet(rows) = 1..m
  PROVE  TotalCredit(rows) - TotalDebit(rows) = entries[m].snapshot
<1>1. DOMAIN entries = 1..Len(entries) /\ Len(entries) \in Nat
  BY RowsHaveAmounts
<1>2. 1..m \subseteq DOMAIN entries
  BY <1>1
<1>3. rows \in Seq(DOMAIN entries)
  BY <1>2, SeqMonotonic
<1>4. TotalCredit(rows) - TotalDebit(rows) = SumFunctionOnSet(Deltas, ToSet(rows))
  BY <1>3, TotalsAddUp
<1>5. entries[m].snapshot = SumFunctionOnSet(Deltas, 1..m)
  BY <1>1 DEF LedgerFits, Balance
<1> QED BY <1>4, <1>5, Zenon

\* The reconciliation never errs about the cached balance, and about the last snapshot
\* only when rows were stamped out of order.
THEOREM AlarmsAreExplained == StatementSpec => []AlarmNeedsDisorder
<1>1. ASSUME StatementInv PROVE AlarmNeedsDisorder
  <2> DEFINE n == Len(entries)
  <2>1. StatementTypeOK /\ LedgerFits
    BY <1>1 DEF StatementInv
  <2>2. DOMAIN entries = 1..n /\ n \in Nat
    BY <2>1, RowsHaveAmounts
  <2>3. cached = LedgerBalance
    BY <2>1, <2>2, BalanceIsSum DEF LedgerFits, Balance
  <2>4. ASSUME ~Consistent PROVE \E i \in 1..(Len(byTime) - 1) : byTime[i] = n
    <3>1. entries # <<>> /\ entries[LastRow].snapshot # LedgerBalance
      BY <2>3, <2>4 DEF Consistent
    <3>2. n \in 1..n
      <4>1. entries \in Seq([delta : Int, snapshot : Nat])
        BY <2>1 DEF StatementTypeOK
      <4>2. n # 0
        BY <3>1, <4>1, EmptySeq
      <4> QED BY <2>2, <4>2
    <3>3. Len(byTime) = n /\ ToSet(byTime) = 1..n /\ DOMAIN byTime = 1..n
      BY <2>1, <2>2 DEF LedgerFits, StatementTypeOK
    <3>4. PICK i \in 1..n : byTime[i] = n
      BY <3>2, <3>3, Zenon DEF ToSet
    <3>5. i # n
      BY <2>1, <2>2, <2>3, <3>1, <3>2, <3>3, <3>4 DEF LedgerFits, LastRow
    <3> HIDE DEF n
    <3>6. i \in 1..(Len(byTime) - 1)
      BY <2>2, <3>3, <3>5
    <3> QED BY <3>4, <3>6
  <2> QED BY <2>3, <2>4 DEF AlarmNeedsDisorder
<1> QED BY <1>1, StatementsKeepInv, PTL

\* A finished export has every row that matched when it began, repeats at most as many
\* as were committed meanwhile, and that of a quiet account adds up.
THEOREM ExportsAreComplete == StatementSpec => []ExportIsComplete
<1>1. ASSUME StatementInv PROVE ExportIsComplete
  <2>1. StatementTypeOK /\ LedgerFits /\ ExportFits
    BY <1>1 DEF StatementInv
  <2>2. /\ export.out \in Seq(1..export.since) /\ export.from \in Nat /\ export.since \in Nat
        /\ export.since <= Len(entries) /\ Len(entries) \in Nat
    BY <2>1, ExportTyped, RowsHaveAmounts DEF ExportFits
  <2>3. Repeats(export.out) <= export.since - export.from
    BY <2>1 DEF ExportFits
  <2>4. Finished => ExportHasAll
    BY <2>1 DEF ExportFits
  <2>5. ASSUME Finished, export.filter = "all", export.since = export.from, export.from > 0
        PROVE  TotalCredit(export.out) - TotalDebit(export.out) = entries[export.from].snapshot
    <3>1. /\ ToSet(export.out) \in SUBSET (1..export.from)
          /\ Repeats(export.out) \in Nat /\ (Repeats(export.out) = 0 => Distinct(export.out))
      BY <2>2, <2>5, MembersFinite
    <3>2. Distinct(export.out)
      BY <2>2, <2>3, <2>5, <3>1
    <3>3. ToSet(export.out) = 1..export.from
      BY <2>4, <2>5, <3>1 DEF ExportHasAll, Matches
    <3>4. export.from \in 1..Len(entries) /\ export.out \in Seq(1..export.from)
      BY <2>2, <2>5
    <3> QED BY <2>1, <3>2, <3>3, <3>4, TotalsAreSnapshot
  <2> QED BY <2>3, <2>4, <2>5 DEF ExportIsComplete, ExportHasAll, Repeats
<1> QED BY <1>1, StatementsKeepInv, PTL

\* Of a list that is not filtered every row is shown.
LEMMA UnfilteredLists ==
  ASSUME NEW n \in Nat, NEW rows \in Seq(1..n)
  PROVE  Matching(rows, "all") = rows
<1> DEFINE at == At(rows, "all")  list == Matching(rows, "all")  N == Len(rows)
<1>1. N \in Nat /\ at = 1..N
  BY DEF At, Matches
<1>2. /\ list \in Seq(1..n) /\ Len(list) = Cardinality(at)
      /\ \A k \in at : list[CountTo(at, k)] = rows[k]
  BY MatchingLists
<1> HIDE DEF at, list, N
<1>3. ASSUME NEW k \in 1..N PROVE CountTo(at, k) = k
  <2>1. at \cap (1..k) = 1..k /\ k \in Nat
    BY <1>1
  <2>2. Cardinality(1..k) = k
    BY <2>1, FS_Interval
  <2> QED BY <2>1, <2>2, Zenon DEF CountTo
<1>4. Cardinality(at) = N
  <2>1. Cardinality(1..N) = N
    BY <1>1, FS_Interval
  <2> QED BY <1>1, <2>1, Zenon
<1>5. Len(list) = Len(rows) /\ \A k \in 1..Len(rows) : list[k] = rows[k]
  BY <1>1, <1>2, <1>3, <1>4 DEF N
<1>6. list = rows
  BY <1>2, <1>5, SeqEqual
<1> QED BY <1>6 DEF list

\* A history page that says all is displayed displays all there was.
THEOREM AllIsDisplayed == StatementSpec => []AllMeansAll
<1>1. ASSUME StatementInv PROVE AllMeansAll
  <2> DEFINE rows == screen.rows
  <2>1. StatementTypeOK /\ LedgerFits /\ ScreenFits /\ Len(entries) \in Nat
    BY <1>1, RowsHaveAmounts DEF StatementInv
  <2> SUFFICES ASSUME screen.open, ~HasMore, screen.filter = "all", Len(Visible) < DefaultLimit
               PROVE  /\ ToSet(Visible) = 1..screen.asOf
                      /\ screen.asOf > 0 => TotalCredit(Visible) - TotalDebit(Visible)
                                              = entries[screen.asOf].snapshot
    BY DEF AllMeansAll
  <2>2. /\ screen.asOf \in Nat /\ screen.visible \in Nat
        /\ screen.asOf <= Len(entries) /\ rows \in Seq(1..screen.asOf) /\ Distinct(rows)
        /\ Len(rows) < DefaultLimit => ToSet(rows) = 1..screen.asOf
    BY <2>1 DEF StatementTypeOK, Screen, ScreenFits
  <2>3. Filtered = rows
    BY <2>2, UnfilteredLists DEF Filtered
  <2>4. Min({screen.visible, Len(rows)}) = Len(rows)
    <3>1. Len(rows) \in Nat /\ ~(screen.visible < Len(rows))
      BY <2>2, <2>3 DEF HasMore
    <3> QED BY <2>2, <3>1, LeastOfTwo
  <2>5. Visible = rows
    <3>1. Visible = SubSeq(rows, 1, Len(rows))
      BY <2>3, <2>4, Zenon DEF Visible
    <3> HIDE DEF rows
    <3> QED BY <2>2, <3>1
  <2>6. ToSet(rows) = 1..screen.asOf
    BY <2>2, <2>5
  <2>7. ASSUME screen.asOf > 0
        PROVE  TotalCredit(rows) - TotalDebit(rows) = entries[screen.asOf].snapshot
    <3>1. screen.asOf \in 1..Len(entries)
      BY <2>1, <2>2, <2>7
    <3> QED BY <2>1, <2>2, <2>6, <3>1, TotalsAreSnapshot
  <2> QED BY <2>5, <2>6, <2>7
<1> QED BY <1>1, StatementsKeepInv, PTL

=============================================================================
