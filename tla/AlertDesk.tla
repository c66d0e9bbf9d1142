----------------------------- MODULE AlertDesk -----------------------------
(***************************************************************************)
(* An employee clears fraud alerts: the page "Fraud Transactions" of       *)
(* staff_frontend, the requests it has on their way, the alerts that       *)
(* fraud-service keeps and the reversals of account-service.  Colleagues   *)
(* reverse and dismiss too, at pages of their own.                         *)
(*                                                                         *)
(* A transfer has two legs, each with an alert of its own; the buttons of  *)
(* either row act on the transaction.  A reversal closes the alerts only   *)
(* when fraud-service consumes its event; the page reloads before, and on  *)
(* a timer for as long as it is open.                                      *)
(*                                                                         *)
(* An operator marked "Mutant" is the definition below it with a plausible *)
(* bug; no specification uses it.                                          *)
(***************************************************************************)
EXTENDS Integers, Sequences, SequencesExt

CONSTANTS
  Transactions, Accounts,
  Legs,      \* the risky legs, <<transaction, account>>
  NoTransaction,
  Limit,     \* alerts in a list
  MaxPolls,  \* bound: lists on their way
  MaxCalls   \* bound: reversals and dismissals on their way

ASSUME AlertDeskAssumption ==
  /\ Legs \subseteq Transactions \X Accounts
  /\ NoTransaction \notin Transactions
  /\ Limit \in Nat \ {0} /\ MaxPolls \in Nat \ {0} /\ MaxCalls \in Nat

VARIABLES
  alerts,    \* fraud_alerts: [Legs -> status, "none" without a row]
  order,     \* the legs with an alert, newest first
  reversed,  \* ledger_db.cancelled_transactions
  events,    \* TRANSACTION_CANCELLED, not consumed yet
  table,     \* the TransactionsView
  polls,     \* lists asked for, oldest first
  calls      \* reversals and dismissals on their way, oldest first

alertVars == <<alerts, order, reversed, events, table, polls, calls>>

Kinds == {"CANCELLED", "DISMISSED"}
Of(t) == {l \in Legs : l[1] = t}

NoRows  == [l \in Legs |-> "none"]
NewPoll(last) == [rows |-> NoRows, served |-> FALSE, last |-> last]

-----------------------------------------------------------------------------
(* fraud-service and account-service.                                      *)

\* Mutant.
AlwaysOpen(t) == "OPEN"

\* insert_alert looks into the registry of reversals.
InitialStatus(t) == IF t \in reversed THEN "CANCELLED" ELSE "OPEN"

Raise(l) ==
  /\ alerts[l] = "none"
  /\ alerts' = [alerts EXCEPT ![l] = InitialStatus(l[1])]
  /\ order' = <<l>> \o order
  /\ UNCHANGED <<reversed, events, table, polls, calls>>

OpenLegs(t) == {l \in Of(t) : alerts[l] = "OPEN"}

\* resolve_alerts
Close(t, status) ==
  alerts' = [l \in Legs |-> IF l \in OpenLegs(t) THEN status ELSE alerts[l]]

\* Delivered at least once; a second time finds nothing OPEN.
ConsumeCancellation(t) ==
  /\ t \in events
  /\ Close(t, "CANCELLED")
  /\ events' = events \ {t}
  /\ UNCHANGED <<order, reversed, table, polls, calls>>

\* cancelTransaction commits the reversal with its outbox event.
Undo(t) == reversed' = reversed \cup {t} /\ events' = events \cup {t}

\* A colleague.
ActElsewhere(t) ==
  /\ \/ t \notin reversed /\ Undo(t) /\ UNCHANGED alerts
     \/ OpenLegs(t) # {} /\ Close(t, "DISMISSED") /\ UNCHANGED <<reversed, events>>
  /\ UNCHANGED <<order, table, polls, calls>>

-----------------------------------------------------------------------------
(* The list.                                                               *)

\* The timer, or the reload button.
Poll ==
  /\ Len(polls) < MaxPolls
  /\ polls' = Append(polls, NewPoll(FALSE))
  /\ UNCHANGED <<alerts, order, reversed, events, table, calls>>

\* Mutant.
OldestFirst == {order[i] : i \in {j \in DOMAIN order : j > Len(order) - Limit}}

\* ORDER BY created_at DESC LIMIT, whatever the status.
Newest == {order[i] : i \in {j \in DOMAIN order : j <= Limit}}

ServePoll(p) ==
  /\ ~polls[p].served
  /\ polls' = [polls EXCEPT ![p].served = TRUE,
                 ![p].rows = [l \in Legs |-> IF l \in Newest THEN alerts[l] ELSE "none"]]
  /\ UNCHANGED <<alerts, order, reversed, events, table, calls>>

\* Whichever list arrives last stays; one that fails leaves the rows alone.
Polled(p, rows) ==
  /\ table' = [table EXCEPT !.rows = rows, !.busy = IF polls[p].last THEN NoTransaction ELSE @]
  /\ polls' = RemoveAt(polls, p)
  /\ UNCHANGED <<alerts, order, reversed, events, calls>>

HearPoll(p) == polls[p].served /\ Polled(p, polls[p].rows)
FailPoll(p) == Polled(p, table.rows)

-----------------------------------------------------------------------------
(* The buttons.                                                            *)

\* cancel and dismiss, at a row that shows OPEN.
Click(t, kind) ==
  /\ \E l \in Of(t) : table.rows[l] = "OPEN"
  /\ table.busy # t
  /\ Len(calls) < MaxCalls
  /\ table' = [table EXCEPT !.busy = t]
  /\ calls' = Append(calls, [tx |-> t, kind |-> kind, done |-> FALSE, awaited |-> TRUE])
  /\ UNCHANGED <<alerts, order, reversed, events, polls>>

\* The service acts; the answer to a request nobody awaits is lost.
Serve(c) ==
  LET t == calls[c].tx
  IN  /\ ~calls[c].done
      /\ \/ calls[c].kind = "CANCELLED" /\ t \notin reversed /\ Undo(t) /\ UNCHANGED alerts
         \/ calls[c].kind = "DISMISSED" /\ OpenLegs(t) # {} /\ Close(t, "DISMISSED")
            /\ UNCHANGED <<reversed, events>>
      /\ calls' = IF calls[c].awaited THEN [calls EXCEPT ![c].done = TRUE] ELSE RemoveAt(calls, c)
      /\ UNCHANGED <<order, table, polls>>

\* The success is shown, then the list reloads.
Succeed(c) ==
  /\ calls[c].done /\ calls[c].awaited
  /\ calls' = RemoveAt(calls, c)
  /\ polls' = Append(polls, NewPoll(TRUE))
  /\ UNCHANGED <<alerts, order, reversed, events, table>>

\* An error comes back: reversed already, nothing OPEN, no funds, a service down.  Or
\* nothing comes for 10 seconds, and the request goes on.  The buttons of whichever
\* transaction are given back, and the list stays as it is.
Fail(c) ==
  /\ calls[c].awaited
  /\ table' = [table EXCEPT !.busy = NoTransaction]
  /\ \/ calls' = RemoveAt(calls, c)
     \/ ~calls[c].done /\ calls' = [calls EXCEPT ![c].awaited = FALSE]
  /\ UNCHANGED <<alerts, order, reversed, events, polls>>

\* A request nobody awaits got lost on its way.
Lose(c) ==
  /\ ~calls[c].awaited
  /\ calls' = RemoveAt(calls, c)
  /\ UNCHANGED <<alerts, order, reversed, events, table, polls>>

-----------------------------------------------------------------------------

AlertInit ==
  /\ alerts = NoRows
  /\ order = <<>>
  /\ reversed = {} /\ events = {}
  /\ table = [rows |-> NoRows, busy |-> NoTransaction]
  /\ polls = <<NewPoll(FALSE)>>
  /\ calls = <<>>

AlertNext ==
  \/ \E l \in Legs : Raise(l)
  \/ \E t \in Transactions : ConsumeCancellation(t) \/ ActElsewhere(t)
  \/ Poll
  \/ \E p \in DOMAIN polls : ServePoll(p) \/ HearPoll(p) \/ FailPoll(p)
  \/ \E t \in Transactions, kind \in Kinds : Click(t, kind)
  \/ \E c \in DOMAIN calls : Serve(c) \/ Succeed(c) \/ Fail(c) \/ Lose(c)

AlertSpec == AlertInit /\ [][AlertNext]_alertVars

\* A list gets through.
SomePollServed == \E p \in DOMAIN polls : ServePoll(p)
SomePollHeard  == \E p \in DOMAIN polls : HearPoll(p)

-----------------------------------------------------------------------------
(* Properties.                                                             *)

\* Buttons offered for a reversed transaction go away for good, in whatever order
\* its alerts are raised, its event is consumed and lists arrive.
ReversedLeavesTheList ==
  \A t \in Transactions :
    t \in reversed ~> [](\A l \in Of(t) : table.rows[l] # "OPEN")

\* Whoever keeps the page open is shown an open alert, unless newer alerts fill the
\* list or somebody closes it first.
OpenAlertIsShown ==
  \A l \in Legs : alerts[l] = "OPEN" ~> \/ table.rows[l] # "none" \/ alerts[l] # "OPEN"
                                        \/ \E i \in DOMAIN order : i > Limit /\ order[i] = l

=============================================================================
