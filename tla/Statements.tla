----------------------------- MODULE Statements -----------------------------
(***************************************************************************)
(* What is read of one account's ledger while it grows: the pages of       *)
(* account-service's history, the statement that exports page through,     *)
(* ledger-service's reconciliation, and the history page of                *)
(* customer_frontend.                                                      *)
(*                                                                         *)
(* Rows are stamped by the clock of the replica that inserts them, holding *)
(* the lock of the account, so the order of created_at, ties broken by     *)
(* random ids, may differ from the order of the commits.  A row is named   *)
(* by its place in the latter; of the stamps only their order is kept.     *)
(* Layout is left out, and of the filters all but the type.                *)
(*                                                                         *)
(* An operator marked "Mutant" is the definition below it with a plausible *)
(* bug; no specification uses it.                                          *)
(***************************************************************************)
EXTENDS Integers, Sequences, SequencesExt, FiniteSetsExt, Functions

CONSTANTS
  PageLimit,      \* EXPORT_LIMIT, the rows of a page
  MaxExportRows,  \* MAX_EXPORT_ROWS
  DefaultLimit,   \* rows of a list that was asked for without a limit
  ScreenSize,     \* PAGE_SIZE of the history page
  Filters,        \* among "all", "CREDIT" and "DEBIT"
  Disorder,       \* bound: rows committed before a row and stamped after it
  MaxRows         \* bound

ASSUME StatementsAssumption ==
  /\ PageLimit \in Nat \ {0} /\ DefaultLimit \in Nat \ {0} /\ ScreenSize \in Nat \ {0}
  /\ Filters \subseteq {"all", "CREDIT", "DEBIT"}
  /\ MaxExportRows \in Nat /\ Disorder \in Nat /\ MaxRows \in Nat

VARIABLES
  entries,  \* the rows of ledger_entries, by commit
  byTime,   \* the same rows ORDER BY created_at, id
  cached,   \* cached_balance
  export,   \* the export that is running or has run
  screen    \* the history page

statementVars == <<entries, byTime, cached, export, screen>>

Lists  == Filters \cup {"all"}
Export == [running : BOOLEAN, filter : Lists, order : {"DESC", "ASC"}, out : Seq(Nat),
           offset : Nat, capped : BOOLEAN, from : Nat, since : Nat]
Screen == [open : BOOLEAN, rows : Seq(Nat), filter : Lists, visible : Nat, timer : BOOLEAN,
           asOf : Nat]

StatementTypeOK ==
  /\ entries \in Seq([delta : Int, snapshot : Nat])
  /\ byTime \in Seq(DOMAIN entries)
  /\ cached \in Nat
  /\ export \in Export
  /\ screen \in Screen

-----------------------------------------------------------------------------
(* The ledger.                                                             *)

Snapshot(delta) == cached + delta

\* A money operation: the row and the balance in one transaction.
Post(delta, place) ==
  /\ Len(entries) < MaxRows
  /\ cached + delta >= 0
  /\ entries' = Append(entries, [delta |-> delta, snapshot |-> Snapshot(delta)])
  /\ byTime' = InsertAt(byTime, place, Len(entries) + 1)
  /\ cached' = cached + delta
  /\ UNCHANGED <<export, screen>>

\* WHERE type = ...
Matches(i, filter) ==
  \/ filter = "all"
  \/ filter = "CREDIT" /\ entries[i].delta > 0
  \/ filter = "DEBIT" /\ entries[i].delta < 0

\* The rows of a list that match, in its order: the n-th is the one up to which n do.
Matching(rows, filter) ==
  LET at == {k \in DOMAIN rows : Matches(rows[k], filter)}
  IN  [n \in 1..Cardinality(at) |-> rows[CHOOSE k \in at : Cardinality(at \cap (1..k)) = n]]

\* ORDER BY created_at, id
Ordered(order) == IF order = "ASC" THEN byTime ELSE Reverse(byTime)

\* listForAccount: ORDER, LIMIT and OFFSET.
Page(filter, order, limit, offset) ==
  LET rows == Matching(Ordered(order), filter)
  IN  SubSeq(rows, offset + 1, Min({offset + limit, Len(rows)}))

Credit(i) == IF entries[i].delta > 0 THEN entries[i].delta ELSE 0
Debit(i)  == IF entries[i].delta < 0 THEN -entries[i].delta ELSE 0

\* The totals of a statement, and of the history page.
TotalCredit(rows) == SumFunction([n \in DOMAIN rows |-> Credit(rows[n])])
TotalDebit(rows)  == SumFunction([n \in DOMAIN rows |-> Debit(rows[n])])

-----------------------------------------------------------------------------
(* fetchAll: one query for each page, while the ledger grows.              *)

NoExport == [running |-> FALSE, filter |-> "all", order |-> "DESC", out |-> <<>>, offset |-> 0,
             capped |-> FALSE, from |-> 0, since |-> 0]

\* from and since are history: the rows there were at its first and last query.
StartExport(filter, order) ==
  /\ ~export.running
  /\ export' = [NoExport EXCEPT !.running = MaxExportRows > 0, !.capped = MaxExportRows = 0,
                                !.filter = filter, !.order = order,
                                !.from = Len(entries), !.since = Len(entries)]
  /\ UNCHANGED <<entries, byTime, cached, screen>>

\* Mutant.
OffsetFromOne(page) == export.offset + PageLimit + 1

\* The offset of the next page.
NextOffset(page) == export.offset + PageLimit

\* A page that is not full is the last one.
LastPage(page) == Len(page) < PageLimit

ExportPage ==
  /\ export.running
  /\ LET page == Page(export.filter, export.order, PageLimit, export.offset)
     IN  export' = [export EXCEPT
           !.out = @ \o page, !.offset = NextOffset(page), !.since = Len(entries),
           !.running = ~LastPage(page) /\ NextOffset(page) < MaxExportRows,
           !.capped = ~LastPage(page) /\ NextOffset(page) >= MaxExportRows]
  /\ UNCHANGED <<entries, byTime, cached, screen>>

-----------------------------------------------------------------------------
(* Reconciliation, in one consistent read.                                 *)

\* Mutant.
FirstRow == byTime[1]

\* ORDER BY created_at DESC, id DESC LIMIT 1
LastRow == byTime[Len(byTime)]

LedgerBalance == SumFunction([i \in DOMAIN entries |-> entries[i].delta])

Consistent ==
  /\ cached = LedgerBalance
  /\ entries = <<>> \/ entries[LastRow].snapshot = LedgerBalance

-----------------------------------------------------------------------------
(* The history page.                                                       *)

Closed == [open |-> FALSE, rows |-> <<>>, filter |-> "all", visible |-> 0, timer |-> FALSE,
           asOf |-> 0]

\* The effect that loads the page, which asks for no limit.
Open ==
  /\ screen' = [open |-> TRUE, rows |-> Page("all", "DESC", DefaultLimit, 0), filter |-> "all",
                visible |-> ScreenSize, timer |-> FALSE, asOf |-> Len(entries)]
  /\ UNCHANGED <<entries, byTime, cached, export>>

\* setFilters, and the effect that starts over.
SetFilter(filter) ==
  /\ screen.open
  /\ screen' = [screen EXCEPT !.filter = filter, !.visible = ScreenSize]
  /\ UNCHANGED <<entries, byTime, cached, export>>

Filtered == Matching(screen.rows, screen.filter)

Visible == SubSeq(Filtered, 1, Min({screen.visible, Len(Filtered)}))

\* Mutant.
MoreThanOneLeft == screen.visible + 1 < Len(Filtered)

HasMore == screen.visible < Len(Filtered)

\* handleLoadMore, and its timer, which may fire after the filter was changed; the
\* count stops where there are no more rows.
LoadMore ==
  /\ screen.open /\ HasMore /\ ~screen.timer
  /\ screen' = [screen EXCEPT !.timer = TRUE]
  /\ UNCHANGED <<entries, byTime, cached, export>>

ShowMore ==
  /\ screen.timer
  /\ screen' = [screen EXCEPT !.timer = FALSE, !.visible = Min({@ + ScreenSize, DefaultLimit})]
  /\ UNCHANGED <<entries, byTime, cached, export>>

-----------------------------------------------------------------------------

StatementInit ==
  /\ entries = <<>>
  /\ byTime = <<>>
  /\ cached = 0
  /\ export = NoExport
  /\ screen = Closed

StatementNext ==
  \/ \E delta \in {-1, 1}, place \in 1..(Len(entries) + 1) :
       place + Disorder > Len(entries) /\ Post(delta, place)
  \/ \E filter \in Filters, order \in {"DESC", "ASC"} : StartExport(filter, order)
  \/ ExportPage
  \/ Open \/ LoadMore \/ ShowMore
  \/ \E filter \in Filters : SetFilter(filter)

StatementSpec == StatementInit /\ [][StatementNext]_statementVars

-----------------------------------------------------------------------------
(* Properties.                                                             *)

Finished == ~export.running /\ ~export.capped

\* A statement that was not cut off at the cap has every matching row there was
\* when it was asked for, however many rows are committed between its pages and
\* wherever their time stamps put them.  It repeats rows at most as often as rows
\* were committed meanwhile, so that of a quiet account adds up to its balance.
ExportIsComplete ==
  /\ Finished => \A i \in 1..export.from : Matches(i, export.filter) => i \in ToSet(export.out)
  /\ Len(export.out) - Cardinality(ToSet(export.out)) <= export.since - export.from
  /\ (Finished /\ export.filter = "all" /\ export.since = export.from /\ export.from > 0) =>
        TotalCredit(export.out) - TotalDebit(export.out) = entries[export.from].snapshot

\* The reconciliation raises a false alarm only when a row was committed after
\* another with a later or, ids deciding, equal time stamp; it is never wrong
\* about the cached balance.
AlarmNeedsDisorder ==
  /\ cached = LedgerBalance
  /\ ~Consistent => \E i \in 1..(Len(byTime) - 1) : byTime[i] = Len(entries)

\* Rows are counted from the screen by a customer: when the page says that all
\* are displayed, shows no filter and shows less than a full list, all the rows
\* there were when it loaded are on it and its totals add up to the balance.
AllMeansAll ==
  (screen.open /\ ~HasMore /\ screen.filter = "all" /\ Len(Visible) < DefaultLimit) =>
    /\ ToSet(Visible) = 1..screen.asOf
    /\ screen.asOf > 0 => TotalCredit(Visible) - TotalDebit(Visible)
                            = entries[screen.asOf].snapshot

=============================================================================
