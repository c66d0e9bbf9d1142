--------------------------- MODULE AccountService ---------------------------
(***************************************************************************)
(* The money path of services/account-service: every operation that moves  *)
(* money, parks a request or decides about one.  Each operation runs in    *)
(* withTransaction on one SERIALIZABLE database, so an operation is one    *)
(* atomic action here; an operation that throws rolls back and is the      *)
(* absence of a step.                                                      *)
(*                                                                         *)
(* An account and the user that owns it have a one-to-one relation         *)
(* (accounts.user_id is UNIQUE), so one value names both.  Money is a      *)
(* natural number of 1/10000 currency units (DECIMAL(19,4)).               *)
(*                                                                         *)
(* An operator marked "Mutant" is the definition below it with a plausible *)
(* bug.  No specification uses it; PROJECT.json names the property that    *)
(* fails when it takes the place of the definition.                        *)
(***************************************************************************)
EXTENDS Integers, Sequences, FiniteSets, Functions

CONSTANTS
  Accounts,       \* all account ids, open or still to be opened
  Payees,         \* the settlement accounts of billers and merchants
  PayeeKind,      \* [Payees -> {"BILLER", "MERCHANT"}]
  Currency,       \* [Accounts -> currency]
  Status,         \* [Accounts -> {"ACTIVE", "FROZEN", "CLOSED"}]
  Amounts,        \* the amounts callers send, invalid ones included
  MaxTxAmount,    \* MAX_TX_AMOUNT
  DailyLimit,     \* DAILY_TRANSFER_LIMIT_TND
  Window,         \* 24 hours, in ticks of the model's clock
  Docs,           \* analysed supporting documents
  DocOwner,       \* [Docs -> Accounts]
  DocStatus,      \* [Docs -> document status]
  DocReasons,     \* [Docs -> set of risk reasons]
  DocExpected,    \* [Docs -> Nat], 0 when no amount was declared at upload
  HoldOnStatus,   \* DOCUMENT_HOLD_ON_STATUS
  HoldOnReasons,  \* DOCUMENT_HOLD_ON_REASONS
  Keys,           \* idempotency keys clients may send
  NoDoc,          \* a request without a document
  NoKey,          \* a request without an Idempotency-Key
  NoAccount,      \* the destination of a withdrawal
  Staff,          \* any employee or administrator
  MaxTx,          \* bound: transactions ever posted
  MaxHolds,       \* bound: requests ever held
  MaxTime         \* bound: the clock

Customers     == Accounts \ Payees
Kinds         == {"TRANSFER", "BILL_PAYMENT", "MERCHANT_PAYMENT", "WITHDRAW"}
OutboundTypes == {"TRANSFER", "BILL_PAYMENT", "MERCHANT_PAYMENT"}
TxTypes       == OutboundTypes \cup {"DEPOSIT", "WITHDRAW", "CANCELLATION"}
DocOrNone     == Docs \cup {NoDoc}

ASSUME ConstantsAssumption ==
  /\ Payees \subseteq Accounts
  /\ PayeeKind \in [Payees -> {"BILLER", "MERCHANT"}]
  /\ Amounts \subseteq Int
  /\ DocOwner \in [Docs -> Accounts]
  /\ DocExpected \in [Docs -> Nat]
  /\ NoDoc \notin Docs /\ NoKey \notin Keys /\ NoAccount \notin Accounts
  /\ Staff \notin Accounts
  /\ MaxTxAmount \in Nat /\ DailyLimit \in Nat /\ Window \in Nat
  /\ MaxTx \in Nat /\ MaxHolds \in Nat /\ MaxTime \in Nat

VARIABLES
  opened,     \* accounts that exist
  balance,    \* accounts.cached_balance
  ledger,     \* ledger_entries of each account, in commit order
  outbox,     \* event_outbox, in commit order
  cancelled,  \* cancelled_transactions
  idem,       \* idempotency_keys.response of each user and key
  holds,      \* held_transactions, in commit order; a hold's id is its index
  docTx,      \* document_analyses.transaction_id, 0 for NULL
  nextTx,     \* the next fresh transaction id (randomUUID)
  now,        \* the wall clock
  applied     \* history: how often a request under a key took effect

vars == <<opened, balance, ledger, outbox, cancelled, idem, holds, docTx,
          nextTx, now, applied>>

-----------------------------------------------------------------------------
(* Rows.                                                                   *)

\* ledger_entries: compensates is the index, in the same account's ledger, of
\* the row that is reversed, 0 for NULL.
Entry ==
  [tx : Nat, type : {"CREDIT", "DEBIT"}, kind : TxTypes, amount : Nat,
   snapshot : Nat, compensates : Nat, doc : DocOrNone, at : Nat]

\* event_outbox: tx.events rows name one account, the row of a cancellation
\* names its first one.
Event ==
  [tx : Nat, topic : {"transaction.events", "transaction.cancelled"},
   key : Accounts, type : {"CREDIT", "DEBIT", "CANCELLED"}, snapshot : Nat]

\* The body of POST /transactions; a payment names its payee by account.
Requests ==
  [kind : {"WITHDRAW"}, amount : Amounts, dest : {NoAccount}]
    \cup [kind : OutboundTypes, amount : Amounts, dest : Accounts]

Hold ==
  [user : Customers, request : Requests, doc : Docs,
   status : {"PENDING_REVIEW", "RELEASED", "REJECTED"}, tx : Nat]

\* What a key's stored response says: nothing yet, the transaction made, or
\* the hold created.
Response == [held : BOOLEAN, id : Nat]
NoResponse == [held |-> FALSE, id |-> 0]

-----------------------------------------------------------------------------
(* Checks shared by the operations.                                        *)

ParseAmount(m) == m > 0 /\ m <= MaxTxAmount

AssertActive(a) == Status[a] = "ACTIVE"

AmountsOf(rows) == [i \in DOMAIN rows |-> rows[i].amount]

\* Mutant.
OnlyTransfersCounted(a, since) ==
  LET counted == {i \in DOMAIN ledger[a] :
                    /\ ledger[a][i].type = "DEBIT" /\ ledger[a][i].kind = "TRANSFER"
                    /\ ledger[a][i].at >= since}
  IN  SumFunctionOnSet(AmountsOf(ledger[a]), counted)

\* sumTransferDebitsSince: cancelled transfers still count, their
\* compensations (CREDIT rows of kind CANCELLATION) never do.
SumTransferDebitsSince(a, since) ==
  LET counted == {i \in DOMAIN ledger[a] :
                    /\ ledger[a][i].type = "DEBIT"
                    /\ ledger[a][i].kind \in OutboundTypes
                    /\ ledger[a][i].compensates = 0
                    /\ ledger[a][i].at >= since}
  IN  SumFunctionOnSet(AmountsOf(ledger[a]), counted)

WithinDailyCap(a, m) ==
  Currency[a] = "TND" /\ DailyLimit > 0
    => SumTransferDebitsSince(a, now - Window) + m <= DailyLimit

\* A BILL_PAYMENT goes to a biller, a MERCHANT_PAYMENT to a merchant, a
\* TRANSFER to any account.
DestinationMatches(kind, dst) ==
  CASE kind = "TRANSFER"         -> TRUE
    [] kind = "BILL_PAYMENT"     -> dst \in Payees /\ PayeeKind[dst] = "BILLER"
    [] kind = "MERCHANT_PAYMENT" -> dst \in Payees /\ PayeeKind[dst] = "MERCHANT"

\* Mutant.
MoveToSelfAllowed(src, dst, m) == ParseAmount(m)
ValidateMove(src, dst, m) == src # dst /\ ParseAmount(m)

SufficientFunds(a, m) == balance[a] >= m

\* Mutant.
AttachmentUnchecked(d, owner, m) ==
  d # NoDoc => DocOwner[d] = owner /\ DocExpected[d] \in {0, m}

\* checkDocument: exists, belongs to the caller, is not attached yet, and was
\* analysed for the declared amount if for any.
CheckDocument(d, owner, m) ==
  d # NoDoc => /\ DocOwner[d] = owner
               /\ docTx[d] = 0
               /\ DocExpected[d] \in {0, m}

\* Mutant.
StatusIgnored(d) == d # NoDoc /\ DocReasons[d] \cap HoldOnReasons # {}

HoldDecision(d) ==
  d # NoDoc /\ (DocStatus[d] \in HoldOnStatus \/ DocReasons[d] \cap HoldOnReasons # {})

-----------------------------------------------------------------------------
(* Writes.  A transaction posts at most one row to an account, so the rows *)
(* of one transaction are a function from the accounts it touches.         *)

Leg(a, type, kind, m, compensates, d) ==
  [tx |-> nextTx, type |-> type, kind |-> kind, amount |-> m,
   snapshot |-> IF type = "CREDIT" THEN balance[a] + m ELSE balance[a] - m,
   compensates |-> compensates, doc |-> d, at |-> now]

InsertEntries(legs) ==
  /\ nextTx <= MaxTx
  /\ nextTx' = nextTx + 1
  /\ ledger' = [a \in Accounts |-> IF a \in DOMAIN legs
                                   THEN Append(ledger[a], legs[a])
                                   ELSE ledger[a]]

\* Mutant.
CreditForgotten(legs) ==
  balance' = [a \in Accounts |-> IF a \in DOMAIN legs /\ legs[a].type = "DEBIT"
                                 THEN legs[a].snapshot
                                 ELSE balance[a]]

UpdateBalances(legs) ==
  balance' = [a \in Accounts |-> IF a \in DOMAIN legs THEN legs[a].snapshot
                                                      ELSE balance[a]]

LinkDocument(d) ==
  docTx' = IF d = NoDoc THEN docTx ELSE [docTx EXCEPT ![d] = nextTx]

TxEvent(a, leg) ==
  [tx |-> leg.tx, topic |-> "transaction.events", key |-> a,
   type |-> leg.type, snapshot |-> leg.snapshot]

Enqueue(events) == outbox' = outbox \o events

\* Mutant.
KeyNotClaimed(u, k) == TRUE
ClaimIdempotencyKey(u, k) == k # NoKey => idem[u][k] = NoResponse

StoreIdempotentResponse(u, k, response) ==
  IF k = NoKey
  THEN UNCHANGED <<idem, applied>>
  ELSE /\ idem' = [idem EXCEPT ![u][k] = response]
       /\ applied' = [applied EXCEPT ![u][k] = @ + 1]

-----------------------------------------------------------------------------
(* Bodies that several operations share.                                   *)

\* withdrawTx
WithdrawTx(u, m, d) ==
  /\ u \in opened /\ AssertActive(u) /\ ParseAmount(m)
  /\ SufficientFunds(u, m)
  /\ LET legs == [a \in {u} |-> Leg(a, "DEBIT", "WITHDRAW", m, 0, d)]
     IN  /\ InsertEntries(legs)
         /\ UpdateBalances(legs)
         /\ Enqueue(<<TxEvent(u, legs[u])>>)
  /\ LinkDocument(d)

\* moveFundsTx: the actor is a user, who may only debit its own account, or
\* staff, who may debit any.
MoveFundsTx(actor, src, dst, m, kind, d) ==
  /\ src \in opened /\ dst \in opened
  /\ actor \in {Staff, src}
  /\ AssertActive(src) /\ AssertActive(dst)
  /\ Currency[src] = Currency[dst]
  /\ ParseAmount(m)
  /\ WithinDailyCap(src, m)
  /\ SufficientFunds(src, m)
  /\ LET legs == [a \in {src, dst} |->
                    Leg(a, IF a = src THEN "DEBIT" ELSE "CREDIT", kind, m, 0, d)]
     IN  /\ InsertEntries(legs)
         /\ UpdateBalances(legs)
         /\ Enqueue(<<TxEvent(src, legs[src]), TxEvent(dst, legs[dst])>>)
  /\ LinkDocument(d)

\* executeRequestTx: run request r for its owner; the actor is the owner, or
\* the employee who releases a hold.
ExecuteRequestTx(owner, r, actor, d) ==
  \/ r.kind = "WITHDRAW" /\ WithdrawTx(owner, r.amount, d)
  \/ /\ r.kind \in OutboundTypes
     /\ DestinationMatches(r.kind, r.dest)
     /\ ValidateMove(owner, r.dest, r.amount)
     /\ MoveFundsTx(actor, owner, r.dest, r.amount, r.kind, d)

-----------------------------------------------------------------------------
(* Operations.                                                             *)

CreateAccount(a) ==
  /\ a \notin opened
  /\ opened' = opened \cup {a}
  /\ UNCHANGED <<balance, ledger, outbox, cancelled, idem, holds, docTx,
                 nextTx, now, applied>>

Deposit(a, m) ==
  /\ a \in opened /\ AssertActive(a) /\ ParseAmount(m)
  /\ LET legs == [x \in {a} |-> Leg(x, "CREDIT", "DEPOSIT", m, 0, NoDoc)]
     IN  /\ InsertEntries(legs)
         /\ UpdateBalances(legs)
         /\ Enqueue(<<TxEvent(a, legs[a])>>)
  /\ UNCHANGED <<opened, cancelled, idem, holds, docTx, now, applied>>

Withdraw(u, m) ==
  /\ WithdrawTx(u, m, NoDoc)
  /\ UNCHANGED <<opened, cancelled, idem, holds, now, applied>>

Transfer(actor, src, dst, m) ==
  /\ ValidateMove(src, dst, m)
  /\ MoveFundsTx(actor, src, dst, m, "TRANSFER", NoDoc)
  /\ UNCHANGED <<opened, cancelled, idem, holds, now, applied>>

\* createHold; the document is neither linked nor marked.
CreateHold(u, r, d) ==
  /\ u \in opened
  /\ Len(holds) < MaxHolds
  /\ holds' = Append(holds, [user |-> u, request |-> r, doc |-> d,
                             status |-> "PENDING_REVIEW", tx |-> 0])
  /\ UNCHANGED <<balance, ledger, outbox, docTx, nextTx>>

\* createTransaction.  A request whose key already has a response replays it
\* and changes nothing.
CreateTransaction(u, k, r, d) ==
  /\ ParseAmount(r.amount)
  /\ ClaimIdempotencyKey(u, k)
  /\ CheckDocument(d, u, r.amount)
  /\ \/ /\ HoldDecision(d)
        /\ CreateHold(u, r, d)
        /\ StoreIdempotentResponse(u, k, [held |-> TRUE, id |-> Len(holds) + 1])
     \/ /\ ~HoldDecision(d)
        /\ ExecuteRequestTx(u, r, u, d)
        /\ StoreIdempotentResponse(u, k, [held |-> FALSE, id |-> nextTx])
        /\ UNCHANGED holds
  /\ UNCHANGED <<opened, cancelled, now>>

\* findByTransactionId: the accounts transaction t posted to, and the index of
\* its row in each.
Touched(t) == {a \in Accounts : \E i \in DOMAIN ledger[a] : ledger[a][i].tx = t}
RowIn(rows, t) == CHOOSE i \in DOMAIN rows : rows[i].tx = t
RowOf(a, t) == RowIn(ledger[a], t)

ReverseType(type) == IF type = "DEBIT" THEN "CREDIT" ELSE "DEBIT"

\* Mutant.
RegistryUnchecked(t) == TRUE
NotCancelledYet(t) == \A c \in cancelled : c.original # t

\* Mutant.
ReversalReversible(t) ==
  /\ Touched(t) # {}
  /\ \A a \in Touched(t) :
       ledger[a][RowOf(a, t)].type = "CREDIT" => balance[a] >= ledger[a][RowOf(a, t)].amount

\* Every row of t can be reversed: none of them is a reversal itself, and an
\* account that t credited still holds the amount.
Reversible(t) ==
  /\ Touched(t) # {}
  /\ \A a \in Touched(t) :
       LET e == ledger[a][RowOf(a, t)]
       IN  /\ e.compensates = 0 /\ e.kind # "CANCELLATION"
           /\ e.type = "CREDIT" => balance[a] >= e.amount

ReverseLeg(a, t) ==
  LET e == ledger[a][RowOf(a, t)]
  IN  Leg(a, ReverseType(e.type), "CANCELLATION", e.amount, RowOf(a, t), NoDoc)

\* cancelTransaction: it does not ask for the accounts to be ACTIVE.
CancelTransaction(t) ==
  /\ NotCancelledYet(t)
  /\ Reversible(t)
  /\ LET legs == [a \in Touched(t) |-> ReverseLeg(a, t)]
     IN  InsertEntries(legs) /\ UpdateBalances(legs)
  /\ cancelled' = cancelled \cup {[original |-> t, cancellation |-> nextTx]}
  /\ Enqueue(<<[tx |-> nextTx, topic |-> "transaction.cancelled",
                key |-> CHOOSE a \in Touched(t) : TRUE,
                type |-> "CANCELLED", snapshot |-> 0]>>)
  /\ UNCHANGED <<opened, idem, holds, docTx, now, applied>>

\* decideHold, RELEASE: the parked request runs now, with staff as the actor.
ReleaseHold(h) ==
  /\ holds[h].status = "PENDING_REVIEW"
  /\ ExecuteRequestTx(holds[h].user, holds[h].request, Staff, holds[h].doc)
  /\ holds' = [holds EXCEPT ![h] = [@ EXCEPT !.status = "RELEASED", !.tx = nextTx]]
  /\ UNCHANGED <<opened, cancelled, idem, now, applied>>

\* decideHold, REJECT
RejectHold(h) ==
  /\ holds[h].status = "PENDING_REVIEW"
  /\ holds' = [holds EXCEPT ![h] = [@ EXCEPT !.status = "REJECTED"]]
  /\ UNCHANGED <<opened, balance, ledger, outbox, cancelled, idem, docTx,
                 nextTx, now, applied>>

Tick ==
  /\ now < MaxTime
  /\ now' = now + 1
  /\ UNCHANGED <<opened, balance, ledger, outbox, cancelled, idem, holds, docTx,
                 nextTx, applied>>

-----------------------------------------------------------------------------

\* The seed of init-db.sql: the payees' settlement accounts, all empty.
Init ==
  /\ opened = Payees
  /\ balance = [a \in Accounts |-> 0]
  /\ ledger = [a \in Accounts |-> <<>>]
  /\ outbox = <<>>
  /\ cancelled = {}
  /\ idem = [u \in Customers |-> [k \in Keys |-> NoResponse]]
  /\ holds = <<>>
  /\ docTx = [d \in Docs |-> 0]
  /\ nextTx = 1
  /\ now = 0
  /\ applied = [u \in Customers |-> [k \in Keys |-> 0]]

Next ==
  \/ \E a \in Customers : CreateAccount(a)
  \/ \E a \in Accounts, m \in Amounts : Deposit(a, m)
  \/ \E u \in Customers, m \in Amounts : Withdraw(u, m)
  \/ \E src \in Accounts, dst \in Accounts, m \in Amounts :
       \E actor \in {Staff} \cup Customers : Transfer(actor, src, dst, m)
  \/ \E u \in Customers, k \in Keys \cup {NoKey}, r \in Requests, d \in DocOrNone :
       CreateTransaction(u, k, r, d)
  \/ \E t \in 1..MaxTx : CancelTransaction(t)
  \/ \E h \in DOMAIN holds : ReleaseHold(h) \/ RejectHold(h)
  \/ Tick

Spec == Init /\ [][Next]_vars

-----------------------------------------------------------------------------
(* Properties.                                                             *)

\* Every variable has its type; in particular no balance and no snapshot is
\* ever negative (CHECK (cached_balance >= 0)).
TypeOK ==
  /\ opened \in SUBSET Accounts
  /\ balance \in [Accounts -> Nat]
  /\ ledger \in [Accounts -> Seq(Entry)]
  /\ outbox \in Seq(Event)
  /\ cancelled \in SUBSET [original : Nat, cancellation : Nat]
  /\ idem \in [Customers -> [Keys -> Response]]
  /\ holds \in Seq(Hold)
  /\ docTx \in [Docs -> Nat]
  /\ nextTx \in Nat \ {0}
  /\ now \in Nat
  /\ applied \in [Customers -> [Keys -> Nat]]

\* The balance of an account with rows before the i-th of them.
BalanceBefore(rows, i) == IF i = 1 THEN 0 ELSE rows[i - 1].snapshot

\* Each row's snapshot is the balance before it plus or minus its amount, and
\* bal is the last snapshot.
Explains(rows, bal) ==
  /\ \A i \in DOMAIN rows :
       IF rows[i].type = "CREDIT"
       THEN rows[i].snapshot = BalanceBefore(rows, i) + rows[i].amount
       ELSE BalanceBefore(rows, i) = rows[i].snapshot + rows[i].amount
  /\ bal = BalanceBefore(rows, Len(rows) + 1)

\* The ledger of every account explains its cached balance, which is never
\* overdrawn, through any interleaving of operations, releases and reversals.
LedgerExplainsBalance ==
  \A a \in Accounts : balance[a] >= 0 /\ Explains(ledger[a], balance[a])

\* Double entry: a transfer or payment posts exactly one DEBIT and one CREDIT,
\* of the same amount and currency, on two accounts.
TransfersBalance ==
  \A t \in 1..(nextTx - 1) :
    (\E a \in Touched(t) : ledger[a][RowOf(a, t)].kind \in OutboundTypes) =>
      \E src \in Accounts, dst \in Accounts :
        /\ src # dst
        /\ Touched(t) = {src, dst}
        /\ ledger[src][RowOf(src, t)].type = "DEBIT"
        /\ ledger[dst][RowOf(dst, t)].type = "CREDIT"
        /\ ledger[src][RowOf(src, t)].amount = ledger[dst][RowOf(dst, t)].amount
        /\ Currency[src] = Currency[dst]

\* No row is reversed twice, whatever cancellations are asked for.
CompensatedAtMostOnce ==
  \A a \in Accounts : \A i \in DOMAIN ledger[a], j \in DOMAIN ledger[a] :
    ledger[a][i].compensates = ledger[a][j].compensates
      => i = j \/ ledger[a][i].compensates = 0

\* A registered cancellation reverses every row of the original and nothing
\* else, amount for amount, and is not itself the target of another one.
CancellationMirrorsOriginal ==
  \A c \in cancelled :
    /\ Touched(c.cancellation) = Touched(c.original)
    /\ \A a \in Touched(c.original) :
         LET e == ledger[a][RowOf(a, c.original)]
             r == ledger[a][RowOf(a, c.cancellation)]
         IN  /\ r.compensates = RowOf(a, c.original)
             /\ r.amount = e.amount
             /\ r.type # e.type
             /\ e.compensates = 0

\* In every window of 24 hours, a TND account sends out at most the daily
\* limit, over all kinds of outbound movement together.
DailyCapInEveryWindow ==
  \A a \in Accounts : Currency[a] = "TND" /\ DailyLimit > 0 =>
    \A start \in 0..now :
      LET inWindow == {i \in DOMAIN ledger[a] :
                         /\ ledger[a][i].type = "DEBIT"
                         /\ ledger[a][i].kind \in OutboundTypes
                         /\ ledger[a][i].at \in start..(start + Window)}
      IN  SumFunctionOnSet(AmountsOf(ledger[a]), inWindow) <= DailyLimit

\* An idempotency key takes effect at most once, its stored response names
\* that effect, and no two keys name the same one.
KeyTakesEffectOnce ==
  \A u \in Customers, k \in Keys :
    /\ applied[u][k] = IF idem[u][k] = NoResponse THEN 0 ELSE 1
    /\ idem[u][k] # NoResponse =>
         /\ IF idem[u][k].held
            THEN idem[u][k].id \in DOMAIN holds /\ holds[idem[u][k].id].user = u
            ELSE u \in Touched(idem[u][k].id)
         /\ \A v \in Customers, l \in Keys :
              idem[v][l] = idem[u][k] => v = u /\ l = k

\* A document the policy holds for review reaches the ledger only through a
\* hold an employee released, and with the request that was held.
FlaggedDocumentNeedsRelease ==
  \A a \in Accounts : \A i \in DOMAIN ledger[a] :
    LET e == ledger[a][i]
    IN  e.doc # NoDoc /\ (\/ DocStatus[e.doc] \in HoldOnStatus
                          \/ DocReasons[e.doc] \cap HoldOnReasons # {})
          => \E h \in DOMAIN holds :
               /\ holds[h].status = "RELEASED" /\ holds[h].tx = e.tx
               /\ holds[h].doc = e.doc
               /\ holds[h].request.kind = e.kind
               /\ holds[h].request.amount = e.amount
               /\ holds[h].user \in Touched(e.tx)

\* The transactions document d is attached to.
AttachedTo(d) ==
  UNION {{ledger[a][i].tx : i \in {j \in DOMAIN ledger[a] : ledger[a][j].doc = d}}
           : a \in Accounts}

\* A document that needs no review supports at most one transaction.
CleanDocumentSingleUse ==
  \A d \in Docs : ~HoldDecision(d) => Cardinality(AttachedTo(d)) <= 1

=============================================================================
