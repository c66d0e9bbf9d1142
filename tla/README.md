# A verification project for the quantum banking system

This directory holds TLA+ models of the banking system in `src/`, the TLC
configurations that check them on small instances, and theorems that TLAPS proves
for every instance. It is written for a reader who has the repository at hand. Paths
below are relative to `src/`; `services/x` stands for `services/x/src`, and a page is
a file of `customer_frontend/src/pages` or `staff_frontend/src/pages`.

The order: [the system](#1-the-system), [how the models read the
code](#2-how-the-models-read-the-code), [the modules](#3-the-modules),
[the runs](#4-the-runs), [the proofs](#5-the-proofs),
[disagreements](#6-where-code-and-documents-disagree),
[what is not modelled](#7-what-is-not-modelled), [the plan](#8-the-plan).

## 1. The system

Services in Node and Python around one CockroachDB cluster (`identity_db`,
`account_db`, `ledger_db`, `audit_db`, `fraud_db`), Redis, and Kafka with three
partitions for every topic. Transactions are SERIALIZABLE; a service may touch
the tables of several databases in one transaction, because they share a cluster.
Two React frontends, one for customers and one for staff, reach them through a gateway.

| Component | State | Operations that change it | Talks to |
|---|---|---|---|
| account-service, money path (`account.service.js`) | accounts with a cached balance, ledger, cancellations, idempotency keys, held requests, the documents' `transaction_id` | open, deposit, withdraw, transfer, `POST /transactions`, cancel, release or reject a hold | the database; Redis after COMMIT; the outbox inside the transaction |
| account-service, relay (`kafka.js`, `outbox.repository.js`) | `event_outbox` | a tick: claim a batch with SKIP LOCKED, publish, mark, commit | Kafka |
| account-service, balances (`getBalance`, `shared/cache.js`) | Redis entries with a time to live | miss, read, fill; invalidate after every operation | Redis and its channel |
| account-service, history and export | none; an export in progress | page through the ledger | the database, identity-service |
| audit-service | `audit_logs`, consumer offsets | consume a message, insert its rows, commit the offset | Kafka, the database |
| fraud-service, consumer | `fraud_scores`, `fraud_alerts`, offsets, a producer queue | score, raise an alert, publish `transaction.scored`, close alerts; dismissals by staff | Kafka, the database |
| fraud-service, features and models | sliding windows in Redis | score a transaction | Redis |
| identity-service, sessions | `refresh_tokens` | login, refresh, logout, suspension | the database |
| identity-service, users | `users` | create with an account, edit, delete, save a profile | the database; account-service for a new customer |
| kms-service | keys in Redis with a time to live | mint a key, read it once | quantum-service, Redis |
| quantum-service | the random number generator's buffer | random bytes, BB84 sessions | a simulator or IBM hardware |
| document-cv-service | `document_analyses`, encrypted images on disk, signatures | analyse, review, enrol | kms-service, the database, Kafka |
| ledger-service | none | none (queries and a reconciliation) | the database |
| api-gateway | rate limits in Redis | forward a request, with a timeout | every service |
| customer frontend | the payment wizard, the history page, the profile form | look up, upload, confirm; filter, show more; save | the gateway |
| staff frontend | the deposit page, the list of users, the holds page, the alerts page | look up, deposit; register, edit, delete; release, reject; cancel, dismiss | the gateway |

**What makes it hard.**

- *Several replicas of a service act on one database*: two decisions on one hold,
  two cancellations of one transaction, two relays on one outbox, two refreshes
  with one token.
- *Effects outside a transaction*: messages to Kafka, keys in Redis, blobs on disk
  are there even when the transaction that ordered them is not.
- *At-least-once delivery*: messages come again, in two topics without a common
  order, to workers that may have lost the partition without knowing.
- *Reads that are used later*: a balance between database and Redis, a user between
  two statements, a key between GET and DEL, a row between a page's list and a click.
- *Timeouts*: the browser gives up after 10 seconds while the service goes on; the
  key service answers after its client went on; a flush gives up while the producer
  does not.
- *Late answers*: a page has moved on to another account, payment, user or hold
  when an answer comes, and the code rarely asks whose answer it is.
- *Sequences*: cancel a cancellation, release two holds on one document, retry with
  a key after the hold was decided, edit a payment after a timeout and confirm again.

**What makes each component correct.**

- *Money path*: the ledger explains each balance row by row; every transfer has its
  two sides; nothing is reversed twice, a reversal mirrors its original; an
  idempotency key takes effect once; a flagged document needs a release, a clean one
  supports one transaction; the daily limit holds in every window.
- *Events*: what was committed is published in the end or visibly given up, nothing
  twice without a fault, events of an account in order but for known causes, and
  every published event is audited exactly once.
- *Fraud*: a cancelled transaction has no open alert; a closed alert keeps its
  verdict; only errors leave messages unhandled.
- *Balances*: staleness is bounded, and only certain races cause it.
- *Sessions*: a used token gets no later request a pair; a pair names a role its user
  had during the request; no token is revoked without a reason.
- *Keys and documents*: nothing is shorter than asked for; a key is read once; a
  document names the key it is under; a copy of a document is not paid without a person.
- *Payments*: what was reviewed once is paid once, as it was shown, with a document
  that fits; the receipt is that payment's; nobody is charged twice unwarned.
- *Statements*: nothing is missing from an export; rows repeat only because the ledger
  grew; the reconciliation alarms only over disorder; "all displayed" means all.
- *Directory and counter*: emails are unique; a role stays as granted; whoever was
  announced as a customer has an account; the staff list shows rows that existed;
  cash goes to whom the teller saw or typed.
- *Desks*: a success that is shown is the employee's own; every button comes back; an
  alert of a reversed transaction loses its buttons for good; an open alert is shown.

## 2. How the models read the code

- *A database transaction is one step.* Isolation is SERIALIZABLE and
  `withTransaction` (`shared/db/index.js:53-76`) rolls back on any error, so the
  outcome of an operation is that of some serial order. An operation that throws is
  the absence of a step. What this hides, waiting and deadlock inside the
  database, is named in section 7. The one trace it leaves, that a row's
  `created_at` is the start of its transaction, is modelled where it matters
  (OutboxRelay, Statements).
- *A statement outside a transaction is a step of its own.* The refresh of a token
  is five steps, the fraud worker's handler six, a read of a key two, an edit of a
  user three.
- *A request is three steps or more*: the page sends it, the service serves it, the
  page hears the answer. Between them the page may change, give up or be left; a
  request nobody waits for is still served, or lost.
- *A failure is a step.* Errors, crashes, rebalances and timeouts are actions, or
  disjuncts of the action that may fail. A constant `MaxFaults`, `MaxErrors`,
  `MaxMoves` bounds how many happen; where a property excuses their effects it does
  so through a history variable (`excused`, `lost`) that the failing step sets.
- *Data is what the properties tell apart.* Money is a natural number of 1/10000
  units. An event is the number of its outbox row, a document's image a point with
  distances to others, a balance the number of operations so far, a BB84 round its
  sifted and wrong bits, an idempotency key the number of the review that minted it.
- *Operators marked "Mutant"* stand before the definition they are a faulty version
  of. No specification uses them. `PROJECT.json` pairs each property with one: with
  the mutant in the definition's place, TLC must find the property violated. They
  document which mistake a property guards against.
- *Bounds.* A constant commented "bound" only limits the state space. At the bounds
  nothing may be left to do, and outside them a service that nobody calls is
  idle; so all runs say `CHECK_DEADLOCK FALSE`. That no component waits for ever is
  checked by the liveness properties instead.

## 3. The modules

`PROJECT.json` maps every definition to its lines; here is the correspondence at
large.

### Services

**AccountService** (`account.service.js` and the four repositories). One action per
exported operation: `CreateAccount`, `Deposit`, `Withdraw`, `Transfer`,
`CreateTransaction`, `CancelTransaction`, `ReleaseHold`, `RejectHold`, and `Tick` for
the clock of the daily window. The helpers have the code's names: `MoveFundsTx`,
`WithdrawTx`, `ExecuteRequestTx`, `CheckDocument`, `HoldDecision`,
`ClaimIdempotencyKey`. State: `balance`, `ledger` (a sequence of rows for each
account, each with the balance after it, as `balance_snapshot`), `outbox`,
`cancelled` (the registry with the UNIQUE original), `idem`, `holds`, `docTx`.
`applied` is history. An account and its owner are one value, as `accounts.user_id`
is UNIQUE. **AccountServiceProofs** holds the theorems.

**OutboxRelay** (`kafka.js`, `outbox.repository.js`). `Begin` takes a row's place in
the order of `created_at`, `Enqueue` commits it; until then its status is OPEN and
nobody sees it. A replica's tick is `ClaimBatch`, then `Publish` or `PublishFails` for
each row, then `Commit`; at any point `Rollback`. `todo` holds the claimed rows not yet
handled, of which the oldest is `Due`; `marks` the updates not yet committed; rows in
either are `Locked`. A send may fail, or reach Kafka and be reported as failed. A
crash is a rollback, since a replica keeps nothing. `skipped`, history, is what a
claim could not take.

**EventLog** is the Kafka log of events, `log`, that the next modules extend.

**AuditWorker** (`audit-service/server.js`). `Fetch`, `Store`, `StoreFails`,
`CommitOffset`, with `Assign` and `LosePartitions` for the consumer group. A database
error has either outcome. A worker that lost its partition goes on as a zombie and
its offset commit is refused.

**EventTrail** states what the pipeline promises: an event is written, then all its
audit rows appear at once and once, or the event is abandoned. One tick of the relay
may give up several events, so `Abandon` takes a set.
**EventPipeline** extends OutboxRelay and AuditWorker, whose one common variable is the
log, and maps its state to EventTrail: an event is abandoned when its row is
FAILED, though it may have reached Kafka after all. **EventPipelineProofs** has the
theorems of the relay and of the refinement.

**FraudWorker** (`consumer.py`, `store.py`, `risk.py`, the dismissal of `app.py`).
Steps of the handler: `InsertScore`, `InsertAlert`, `Produce`, `Flush`,
`ResolveAlerts`, `CommitPosition`. `position` is the consumer's own, moved by
`Poll`; `committed` the group's. `HandlerRaises` is the `except` branch, which goes
on with the next message, or, for a ValueError, commits. The verdict of a scoring is
any of a set, since features depend on Redis and the clock. **FraudWorkerProofs** has its
theorems.

**BalanceCache** (`getBalance`, `invalidateAll`, `cache.js`). A reader is `Miss`,
`ReadDatabase`, `Fill`; an operation leaves a job for each user, `Del` then
`PublishInvalidate`; `Deliver` is the subscriber that deletes again. Time passes in
`Tick`s, so that a time to live means something; `age`, history, is how long ago
each balance was superseded. **BalanceCacheProofs** has its theorems.

**Sessions** (`auth.service.js`, `refreshToken.repository.js`, `user.service.js`). A
refresh is `Find`, `ReadUser`, `RevokeOld`, `Issue`, or a branch into `RevokeAll`; a
task carries the rows it read. `ChangeUser` is everything an administrator can do
to a user meanwhile. A task's `usedBefore` and `seen`, and `excused`, are history.
**SessionsProofs** has its theorems.

**QuantumKeys** (`qrng.py`, `bb84.py`, `kms-service/server.js`). The generator's
buffer is a sequence of bytes, each known by its source; `Attempts` are the sources in
the order `_refill` tries them, and `Random` is one step, as the code holds a lock.
`Mint` takes BB84 rounds, `Get` and `Consume` are the two halves of a read. Errors of Redis are swallowed, as in `cache.js`.

**Documents** (`document-cv-service`) extends QuantumKeys: an upload of staff is a
reader of the key service. `Analyse` (with the search for a copy and the verdict;
`WithDuplicate` adds the copy that was found to the features),
`MintForUpload`, `ReadForUpload`, `ConsumeForUpload` or `FallBack`, `WriteBlob`,
`InsertDocument`. `Processes` is 1 as the Dockerfile starts one worker; the
handler is `async` but never awaits after reading the file, so uploads of a process
do not overlap. `CreateTransaction` and `DecideHold` are the operations of
AccountService reduced to what a document sees. Two bounds keep the product small:
in one behaviour either uploads or other clients use the key service (`clientele`),
and while there are uploads only `UploadFaults` faults happen. **DocumentsProofs** has the
theorems of both modules.

**Statements** (`transaction.service.js`, `Export.service.js`, `Ledger.repository.js`,
`HistoryPage.jsx`). One account's rows in the order of commits (`entries`), and `byTime`,
the same rows in the order of their time stamps, up to `Disorder` places apart. `Post`
commits a row; `Matching` is WHERE, in the form the proofs count with: its n-th row is the
one at the position up to which n positions match; `StartExport` and `ExportPage` page
through the ledger by LIMIT and OFFSET; `Open`, `SetFilter`, `LoadMore` and `ShowMore` are the history page;
`Consistent` is the reconciliation.

**Directory** (`user.service.js`, `createUser` of `auth.service.js`,
`user.repository.js`, `UsersPage.jsx`, `RegisterForm.jsx`, both `UpdateProfilePage.jsx`).
A request to identity-service is a task with its statements: `Insert`, then
`OpenAccount` or `FailToOpen`; `FindUser`, `CheckEmail`, `Update`; `Delete`. The page
"All Users" has a `list` and a `form`: `Register`, `Load`, `Open`, `Close`, `Save`,
`RemoveUser`, and `Hear` or `GiveUp` for the answers. `Profile` is a user's own save.
`welcomed`, `granted` and `held` are history. **StaffProofs** has its theorems.

### Pages, and the services behind them

**Payments** (`NewTransactionPage.jsx`, `DocumentUpload.jsx`, the gateway's proxy,
`createTransaction` in short). `page` is the wizard; `lookups` and `uploads` are in
flight while it changes, `posts` are payments on their way, `effects` what
account-service did. `Confirm` sends what the review shows, `Serve` executes it (or
fails, or commits and loses the answer), `Succeed`, `Refuse` and `GiveUp` are what the
page hears, `Forget` a request that gets lost, `Leave` another page and back. The
browser waits 10 seconds and the gateway 15, so the gateway's own 504 is never heard.
**PaymentsProofs** has its theorems.

**Counter** (`DepositPage.jsx`, the staff lookup of `routes.js`) extends Directory: a
teller `Type`s an email, asks for the account (`Lookup`) or confirms the deposit
(`Submit`), the lookup finds a user (`Search`) while emails change, and `Pay` deposits
without a key. `SystemSpec` composes both: a step is the counter's or the directory's.
**StaffProofs** shows that SystemSpec implements Directory's specification and
proves the counter's own property.

**HoldDesk** (`HoldsView` of `DocumentReviewPage.jsx`, `listHolds`, `decideHold`). `view`
has the rows, the open row, the one `note` and the one `busy` hold that the component
keeps; `loads` are lists on their way (`Reload`, `ServeLoad`, `HearLoad`, `FailLoad`) and
`decisions` the requests of `Decide` (`ServeDecision`, `DecisionSucceeds`,
`DecisionFails`, `DecisionLost`). `OpenRow` and `TypeNote` are the employee,
`DecideElsewhere` a colleague; `Reopen` leaves the page and comes back. Its theorem is
in **StaffProofs**.

**AlertDesk** (`TransactionsView` of `FraudPage.jsx`, `store.py`, `cancelTransaction`).
`alerts` with their `order` of creation, `reversed` transactions and the `events` that
tell fraud-service of them; the page polls (`Poll`, `ServePoll`, `HearPoll`,
`FailPoll`) and acts (`Click`, `Serve`, `Succeed`, `Fail`, `Lose`).

**StaffPortal** (`EmployeeDashboard.jsx`) extends both: the dashboard renders one page at a
time, `shown`, and the two share no state, so a behaviour is one of either page.

## 4. The runs

Each run's constants are in its `.cfg`; MC modules hold functions that a `.cfg`
cannot express, and symmetry sets. All runs pass.

| Run | Question | Bounds, and why they are enough |
|---|---|---|
| `account_money` | Do balances, ledger, reversals and the daily limit agree through every sequence of operations? | three accounts, one of them a biller; amounts 1 and 2 under a limit of 3; four transactions: enough for a transfer, its reversal, a move that leaves the reversal without funds, and a cancellation of the cancellation; a clock of 2 with a window of 1, so that payments leave the window |
| `account_holds` | Do keys, documents and holds keep their promises? | two keys for retries and confusion of keys, a clean and a suspicious document, two holds, amount 0 for rejected requests |
| `outbox_relay` | Do several replicas relay honestly, without double sends, in order, and finish? | two replicas, batches of two out of three rows, so claims overlap and a batch is partial; two attempts, so a row can be retried and given up; two send faults and a rollback |
| `event_pipeline` | Does what is committed get audited once, in the end? | one replica (two are `outbox_relay`'s), two workers, two events, the second a cancellation with several audit rows, and a message that cannot be parsed; one attempt and two send faults, so that one tick may give up both; two rebalances, one of them leaving a zombie |
| `fraud_worker` | Are alerts and offsets right under every order and failure? | one transfer with two legs, two workers, two messages in a partition, so duplicates and gaps occur; one error, one timeout, one rebalance |
| `balance_cache` | How stale may a shown balance be, and why? | two users of a transfer, two readers, a time to live of 2, fills that take up to 1, two faults |
| `sessions` | Can a used refresh token, or an outdated user, get a pair? | two users, two overlapping requests, three tokens, one administrative event |
| `documents` | Does every row fit its blob and its key; is a copy ever paid unseen; are keys long enough, read once, random bytes complete? | three images, two of them at exactly the distance that counts as a copy and the third one beyond; three documents under a search limit of two; two keys, two readers, and one fault among uploads, two among other clients; the IBM backend with both fallbacks; two BB84 rounds, so that the shorter decides |
| `payments` | Is a payment made once, as shown, with the right receipt? | two recipients, who may be payees as well, two amounts, so that wrong ones exist; two reviews and two clicks on Confirm, so there is an edit, a retry and a double click; one lookup and one document under way, so each may be late |
| `statements` | Are exports, reconciliation and the history page complete? | pages of 2 and a cap of 6 over five rows, so a row may move across two page borders and the cap is reached; stamps up to two places from the commits; a default limit of 3 and screens of 2, so "show more" and "load more" differ |
| `counter` | Do directory and counter agree while both change? | two users, two emails, so emails can be swapped; two requests and two calls that overlap, three together; both roles |
| `staff_portal` | Does a page of the portal tell the truth, now or in the end? | two holds, one note, two requests on their way, so a decision and a list, or two decisions, cross each other; one transfer with two legs of which a list shows the newer, two lists and two decisions: a reversal that timed out and a dismissal after it |

**Kinds of properties.** Action properties: `ClosedAlertsStay`, `OvertakingHasACause`,
`PairIsDue`, `SuccessIsOwn`. Liveness: `EveryRowSettled`, `EveryMessagePassed`,
`ButtonsComeBack`, `ReversedLeavesTheList`, `OpenAlertIsShown`. Refinement:
`ImplementsTrail`, which has a liveness part. The others are invariants. Each is
stated and explained where it is defined. `TypeOK` is no property of a run: it
documents the state, and the modules with proofs prove it.

**Fairness.** OutboxRelay assumes weak fairness of a replica's ticks:
`startRelay` re-arms its timer in `finally`, whatever the tick did
(`kafka.js:80-89`), and a replica that is killed is restarted by its container
policy. Faults are not fair; the bound makes them finite, which says only that
Kafka and the database do not fail for ever. EventPipeline adds weak fairness of the
workers' steps, since kafkajs retries `eachMessage` and restarts a crashed consumer,
and of the broker's assignment of a partition nobody has; and strong fairness of a
fetch, which rebalances interrupt. StaffPortal assumes of the holds page that axios
settles each of its requests, by an answer or after 10 seconds (`lib/api.js:5`): weak
fairness of `DecisionSettled` and `LastLoadSettled`, and nothing of the service. Of
the alerts page it assumes the timer (`FraudPage.jsx:68`) and the fraud worker; and,
since a list that fails leaves the old one, that lists are served and heard again and
again, which is strong fairness of `SomePollServed` and `SomePollHeard`: a service that
never answers the page again can correct nothing on it. The other modules have no
fairness: users need not act, and their properties are safety.

**Why a run may be trusted.** Every action occurs in a passing run, and every
property fails under a plausible fault in the code it is about. Symmetry sets are
used only where no liveness is checked.

## 5. The proofs

Eight modules hold theorems; each has no `RECURSIVE` operator and is proved for every
value of its constants.

| Module | Theorems | Properties they state |
|---|---|---|
| AccountServiceProofs | `TypeCorrect`, `BalanceExplained`, `ReversedOnce`, `CancellationExact`, `DoubleEntry`, `FlaggedReviewed`, `CleanDocumentOnce`, `KeyOnce`, `CapHolds`, `StatementsKeepInv`, `ExportsAreComplete`, `AlarmsAreExplained`, `AllIsDisplayed` | `TypeOK`, `LedgerExplainsBalance`, `CompensatedAtMostOnce`, `CancellationMirrorsOriginal`, `TransfersBalance`, `FlaggedDocumentNeedsRelease`, `CleanDocumentSingleUse`, `KeyTakesEffectOnce`, `DailyCapInEveryWindow`; of Statements `ExportIsComplete`, `AlarmNeedsDisorder`, `AllMeansAll` |
| EventPipelineProofs | `StatusesAreHonest`, `PublishedOnce`, `OvertakingIsCaused`, `PipelineRelayIsHonest`, `PipelineImplementsTrail` | `StatusIsHonest`, `NoDoublePublishing`, `OvertakingHasACause`, the first two again next to workers and garbage; the safety part of `ImplementsTrail` |
| FraudWorkerProofs | `CancelledAreClosed`, `VerdictsAreFinal`, `NothingIsSkipped` | `CancelledStaysClosed`, `ClosedAlertsStay`, `OnlyErrorsSkip` |
| BalanceCacheProofs | `CacheTypes`, `StalenessIsBounded` | `TypeOK`, `StalenessHasABoundAndACause` |
| SessionsProofs | `PairsAreDue`, `RevocationsHaveReasons` | `PairIsDue`, `RevokedForAReason` |
| DocumentsProofs | `DocumentsTypes`, `NothingComesShort`, `KeysAreReadOnce`, `RowsCanBeShown`, `CopiesNeedRelease` | `DocumentsTypeOK`, `NothingIsShort`, `KeyIsReadOnce`, `RowHasBlob`, `CopyNeedsRelease` |
| StaffProofs | `TypeCorrect`, `UniqueEmails`, `RolesAreGranted`, `WelcomesAreKept`, `ListIsHonest`, `DepositsGoWhereClicked`, `SuccessesAreOwn` | `TypeOK`, `EmailsUnique`, `RoleIsGranted`, `WelcomedHaveAccounts`, `ListIsFromTheDirectory`, `DepositGoesWhereClicked`, `SuccessIsOwn` |
| PaymentsProofs | `PaidOnce`, `NoRedirection`, `OwnReceipt`, `SecondChargeIsWarned` | `ReviewPaidOnce`, `PaidAsConfirmed`, `ReceiptIsOwn`, `SecondChargeWasWarned` |

*Assumptions.* The named `ASSUME`s of the modules, which TLC evaluates: amounts
and limits are numbers, functions given as constants have their domains, the events of
the pipeline are the outbox's rows and the poison, and
the values that stand for "none" are not members of the sets they are apart from.
No set is assumed finite, and a constant marked "bound" may be any natural number.
One theorem has a hypothesis of its own: `CopiesNeedRelease` is about
`Processes = 1`, which is what the image starts (`document-cv-service/Dockerfile:21`,
`--workers 1`); with two it is false.

**The money path.** The operations differ in why they post, and hardly in what: each
posts at most one row to each account, for a fresh transaction number. `StepPosts`
captures that: a step either leaves ledger and balance alone or *posts* a
function from accounts to legs whose snapshots are computed from the current
balance. It is proved once, by cases on the operation. `BalanceExplained` is then
inductive: a leg's snapshot continues the chain. `CompensatedAtMostOnce` is not: that
two rows do not reverse the same one depends on the registry having one entry for
each original, on fresh numbers, and on a reversal's rows belonging to the
registered cancellation; `ReversalInv` adds these. `CancellationExact` needs in
addition that rows already written stay, and that the cancellation being
registered posts to exactly the accounts of its original.

The lemma `StepForms` then tells six kinds of steps apart, those
that post without key and document (`PostsBare`), park a request, pay it at once, release
or reject a hold, or post nothing. `DoubleEntry` says of each kind which rows it posts.
`FlaggedReviewed` rests on decided holds staying as they are and on a flagged document's
row belonging to a released one (`RowReleased`). `CleanDocumentOnce` is inductive with `LinkNames`: a
document's link names the transaction whose rows carry the document. `KeyOnce` is
inductive with `Names`: what a key's response names, a hold or a transaction, is its
user's, exists, and no other key names it; holds and transactions are numbered
afresh.

**The daily limit.** The code checks one window, the one that ends now, and counts with
a query that leaves reversals out; the property is about every window and all outbound
rows. `CapInv` bridges the two: no outbound row is a reversal, so the query
misses none, and the limit holds in *every* window `start..start + Window`, also one
that starts later. A row is stamped with the present, so a step that posts to a window it
is in adds the row's amount to a sum that is part of the one that was checked
(`AppendSent`, `PostsCapped`). The sums are folds over finite sets of row numbers, whose
laws the library states only with an operator parameter. They are proved here from the
definition: a sum of a set is the value at its size of a table that any choice of
elements fills alike (`SumTable`), from which follow taking an element out
(`SumRemove`), adding one (`SumAdd`), and that a larger set has no smaller sum
(`SumMonotone`). Each induction is by the least counterexample, which well-foundedness of
`<` on the numbers gives without an operator parameter.

**Statements.** Which rows a page has is a matter of counting positions (`CountTo`): it has
the rows at those matching positions whose count is between offset and offset plus limit
(`PageLists`), and when it is not full none is counted beyond. While an export runs,
`ExportProgress` holds: every old row counted up to the offset was read; and the repeats
so far, with the rows that were read and are ahead of the offset once more, are no more
than the rows committed since it began. The case that matters is a row committed between
two pages. It is put in somewhere in either order, and moves each old row at most
one place on (`CountShifted`, `PutInCounts`): no old row comes before the offset, so none
is missed, and at most one goes behind it, to be repeated once. A page then turns
rows ahead into repeats (`PageRepeats`). That totals are balances is one more sum over a
finite set: snapshots and the cached balance are sums of the rows so far (`LedgerFits`),
and a list with every row once has totals that make up that sum (`TotalsAddUp`). A last row by
time that is not the last committed is then all that can raise a false alarm.

**The relay.** The invariant says that locked rows are pending and locked once
(`LocksFit`), that rows and uncommitted marks are honest about attempts and Kafka
(`RowsFit`, `MarksFit`), that only committed rows are in Kafka (`LogFits`), that a row has
no more copies than rollbacks and unclear sends excuse, and one more only if it is
SENT, committed or marked (`CopiesTold`), and that a batch has left out of the older
rows only those that were settled or could not be claimed (`BatchesFit`). Two lemmas
do the counting: appending a message adds one to the copies of its row and none to
another's (`AppendCounts`), and the oldest of a set leave out no older one
(`OldestFirst`).

**The pipeline.** `PipelineInv` adds to the relay's invariant that offsets and tasks lie
within the log (`OffsetsFit`) and that an event has all its audit rows or none
(`AuditIsWhole`). A step of the relay writes an event, abandons the events whose rows it
marks FAILED, or stutters; a worker's insert records an event or, when the UNIQUE index
finds the rows there, stutters; everything else stutters. That an event is recorded only
after it was written follows from `LogFits`: what a worker reads is garbage or the number of a
committed row.

**The fraud worker.** The proof follows the offsets: what lies below a group's committed
offset is settled (`CommittedIsSettled`), and what lies below a worker's position is
too unless a task of it is under way (`PolledIsSettled`, `TasksProgress`). A zombie owns
nothing, so its commit is refused (`ZombiesOwnNothing`). `CancelledStaysClosed` is in
the invariant with it: a cancellation that was handled leaves no open alert and an
alert inserted later reads the registry.

**Balances.** An entry tells by its remaining time to live how long ago it was filled, and a
fill knows how long it has waited since its read; a superseded version either of them
holds has been superseded no longer than that (`EntriesAge`, `ReadsAge`), which bounds
staleness by time to live and longest fill. That an outdated entry has a cause
(`Explained`) is inductive as soon as the cause is named exactly: it was filled by a
read that was overtaken, its user's invalidation was lost, or an invalidation for a newer
version has not deleted it yet.

**Sessions.** `Fine` says what a request under way may rely on: it has seen the present
row of its user, among others, a token that was used before its start is
still revoked, and it issues only for an active row it saw. `RevocationsOwed` names the request
that has revoked a token and still owes the pair.

**Keys and documents.** `KeysInv` follows a key: what leaves the generator has the size
asked for (`GeneratorOK`), every round of a minted key was accepted with enough bits
(`CleanKeys`), and the answers a key has given, with the readers between its GET and its
DEL, exceed one only by what overlaps and failed deletes excuse, while a stored key that
nobody is reading has given none without an excuse (`ReadsOK`). `StoreInv` says that no
two uploads and rows have one id, and that the blob of an upload about to insert is under
the key its row will name (`UploadsFit`). `CopyInv` is about the search for copies, which is right only when it
is made: with one process nothing is inserted between the search and the row
(`OneAtATime`, `SearchIsFresh`), so a copy within the search limit is marked
(`CopiesAreMarked`), and marked documents wait for staff (`MarkedWait`). That the
search finds a document if there is one needs that a nonempty set of numbers has a least
element (`LeastOf`).

**Directory, counter and the holds page.** `UniqueEmails` and `RolesAreGranted` are
inductive; `StepWrites` says which rows a step may write. `ListIsHonest` needs
`ListInv`: a save that worked is answered with a row its user has had, and an account is
opened only for a registration. The counter only reads the directory: `CounterReads`
proves that SystemSpec implements Directory's specification, under which the theorems
on the directory hold at the counter too. `CounterInv` says that a name a call was clicked
with stays its target, and a target it looked up has had the email that was typed.
`SuccessIsOwn` is an action property that follows from `HoldInv`: a decision the service
carried out for a request is what became of its hold, with the note that was sent
(`CarriedOut`), and stays so, because nobody can decide a hold twice.

**Payments.** The invariant says that a review has a key (`ReviewHasKey`), that the page
waits for one answer at most, to a payment of the review it shows
(`AwaitedIsShown`), that a payment on its way was confirmed and its answer is about its
review (`AnswerIsOwn`), that effects are stored under the key of their review
(`KeysAreReviews`), that documents and receipts exist, and that of a confirmed
review the customer has heard or is waiting to hear (`ConfirmedIsTold`).

*Only model-checked.* The liveness properties `EveryRowSettled`, `EveryMessagePassed`,
`ButtonsComeBack`, `ReversedLeavesTheList`, `OpenAlertIsShown`, and the liveness part of
`ImplementsTrail`: fairness is beyond this prover. Every other property of a run has a
theorem.

## 6. Where code and documents disagree

Read off the code while modelling. The models do what the code does, so none of these
is a property of a run; where one bears on a property, the property says so.

*Money and events.*

- `docs/CV_EXTENSION.md:680-681` says documents are single-use at the row level. A held
  request neither links nor marks its document, and a release does not check it
  again, so two requests may be held on one document and both be released.
  `CleanDocumentSingleUse` is therefore about clean documents only.
- `CHANGELOG.md:582-584` and `ROADMAP.md:121` say that keying by account preserves the
  order of an account's events. The relay goes on with the next row after one that
  failed, another replica takes rows past the ones a first has locked, and
  `created_at` is the start of a transaction and not its commit.
  `OvertakingHasACause` names exactly these causes.
- An outbox row that is FAILED is never taken up again, while `ROADMAP.md:132-135`
  asks for no loss on a Kafka outage. EventTrail calls such an event abandoned.
- `consumer.py:174` says that without a commit Kafka redelivers. It does so only
  after a restart; the loop goes on, and the commit of the next message passes the
  one that failed. `OnlyErrorsSkip` says no more than that.
- The result of `flush(5)` is ignored (`consumer.py:134`), so an offset may be
  committed before `transaction.scored` is out; the model counts it as a timeout.
- A crash between score and alert, with a lower score the second time, leaves a
  high score without an alert (`consumer.py:123`).
- A cancelled transfer still counts against the daily limit: the sum looks at debits,
  and a reversal is a credit.
- A request repeated under its key with a different body gets the first answer. The
  `409` for a concurrent duplicate cannot occur, as the second insert waits for
  the first transaction.
- A lost acknowledgement of COMMIT is reported as an error and not retried
  (`shared/db/index.js:63`); `/transfer`, `/withdraw` and `/deposit` have no
  idempotency key.

*Keys, documents, sessions.*

- `qrng.py:10-11` says fallback bytes are tagged `fallback`. Those left over in the
  buffer are served later under the name of the primary source (`qrng.py:49`).
- `docs/CV_EXTENSION.md:369` says `requires_review` is `status != CLEAN`. A different
  currency sets it on a CLEAN document (`pipeline.py:60`), and account-service
  does not look at it.
- Two processes of document-cv-service could miss a copy uploaded at the same moment:
  search and insert are two transactions. With one process, as shipped, they cannot.
- A BB84 session that is rejected is a 422, so the key service answers 502 where
  its own message promises a 503 for too little key material.
- A rotation cut by a crash leaves the client with a revoked token, and its retry
  looks like a reuse and ends all sessions of the user.
- A staff login issues and stores a pair before the role is refused; a new password
  does not revoke refresh tokens. A wrong current password is answered 401, which the
  frontends' interceptor takes for an ended session: it logs the user out.

*The customer's pages.*

- `NewTransactionPage.jsx:4-5` and `:198` say that retrying never charges twice. That
  holds of a retry of the same review. After a timeout the customer may edit, which
  mints a new key at the next review, and confirm again: two charges.
  `SecondChargeWasWarned` says that at least an error was shown in between. And a second
  confirmation under the same key with another recipient gets the first receipt.
- The gateway waits 15 seconds for a payment and has a text for the case; the browser
  gives up after 10, so nobody reads it.
- `CustomerDashboard.jsx:14` announces every ledger entry, and `HistoryPage.jsx:512`
  says that all are displayed: the page asks for no limit and gets the default 20 rows.
  `AllMeansAll` therefore speaks of less than a full list.
- The details say who initiated a transaction by `tx.performed_by`
  (`HistoryPage.jsx:197`), which no service sends: it is always "Customer".
- An export that reaches its cap does not say so, and one of a growing ledger may
  repeat rows.
- A profile page whose load failed shows empty fields, and saving it stores them.

*The staff's pages.*

- `docs/USAGE_GUIDE.md:162-164` and `:203` say a customer gets an account atomically. The
  user is committed first, the account is opened by a call that may fail or time out.
  The advice "retry account creation" (`auth.service.js:163`) has no route at the gateway,
  and creating the user again is a 409. Deleting a user leaves the account.
- A deposit has no idempotency key. When its account must be looked up first, the
  button is disabled only after that lookup, and a double click pays twice. The
  receipt shows the id that was typed with a name that a late lookup may have set.
- The list of users carries no phone and address (`user.repository.js:16`), so the edit
  form shows them empty and saving it clears them. It offers a username and a
  password that the server ignores. A late answer to a save closes another user's
  form, or shows its error there. The registration always says that a bank account
  was created, and its phone and address are never stored.
- A password is changed under the email that the user had a statement earlier.
- The holds page keeps one note for all holds (`docs/CV_EXTENSION.md:592` says a decision
  note): a note typed at one is sent with another. A success closes another hold's open
  details and empties its note; an older list that comes late replaces a newer one; a
  release that timed out is shown as failed, and its retry as a conflict.
- After "Cancel" the alerts page reloads before the event is consumed, so the alert still
  shows OPEN and can be dismissed, though its transaction is reversed. A
  dismissal closes the alerts there are: the other leg's, raised later, is open
  again. With an old list a dismissed transaction can still be cancelled.
- "Open Fraud Alerts" and "No open alerts." (`FraudPage.jsx:3`, `:107-114`;
  `docs/USAGE_GUIDE.md:205`, `CHANGELOG.md:283`) are the open ones among the newest 50 of
  any status. The rows of a transfer's two legs share one React key
  (`FraudPage.jsx:115`, `:223`).

## 7. What is not modelled

- *Locks inside a transaction.* A release locks hold, accounts, document; a request
  document, then accounts. Deadlocks are resolved by the database and retried by
  `withTransaction`; the models see the result only.
- *Money arithmetic, fraud features, the models and BB84's bits*: numeric.
- *Image processing, OCR, encryption*: the verdict starts from the features they find.
- *Queries*, other than the histories, exports, lists and the reconciliation whose
  reader acts on them.
- *The gateway's routing and roles, logins and passwords at the pages, pages that only
  show data, layout, deployment.* Timeouts of browser and gateway are modelled where a
  request moves on without its sender: Payments, Counter, Directory, the desks.

`PROJECT.json` lists them with their files.

## 8. The plan

Done, in this order: the money path with its proofs; the relay, the audit worker and
their composition; the fraud worker; balances; sessions; keys and documents; payments
at the customer's page; statements; the directory and the counter; the desks of the
staff portal; the theorems of section 5.

Next, by importance:

1. **Locks**: the statements of a transfer, a request and a release with their row
   locks, shown to implement AccountService's atomic operations; no wait without
   end under the order the code locks in, or the abort that resolves it.
2. **Pure parts**, each compared with a reference definition over bounded inputs:
   rounding and sums of `shared/money.js`; the sliding windows and levels of the
   fraud policy; dates and amounts of `ocr.py`.
