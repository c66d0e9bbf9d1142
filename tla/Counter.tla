------------------------------ MODULE Counter ------------------------------
(***************************************************************************)
(* A teller pays cash in, while the directory changes: the page "Deposit   *)
(* Funds" of staff_frontend, account-service's search for the account      *)
(* behind what the teller typed, which asks identity-service, and the      *)
(* deposits, which carry no idempotency key.                               *)
(*                                                                         *)
(* The teller types emails, which people change; amounts are left out, and *)
(* so is leaving the page.                                                 *)
(*                                                                         *)
(* An operator marked "Mutant" is the definition below it with a plausible *)
(* bug; no specification uses it.                                          *)
(***************************************************************************)
EXTENDS Directory

CONSTANTS
  Calls,     \* slots for the page's calls in flight
  MaxTotal   \* bound: requests to the directory and calls of the counter, together

ASSUME CounterAssumption == MaxTotal \in Nat

VARIABLES
  counter,   \* the page
  calls,     \* what each call is doing
  deposits,  \* history: the deposits made, with the click that each goes back to
  asked      \* counter behind the bound

counterVars == <<counter, calls, deposits, asked>>
systemVars == <<vars, counterVars>>

Blank == [typed |-> Nothing, resolved |-> Nothing, loading |-> FALSE, done |-> FALSE]

\* shown is the user whose name was on the page at the click, typed what was in its
\* field; target is the account's owner, once known.
Call(step, shown) ==
  [step |-> step, typed |-> counter.typed, shown |-> shown, target |-> shown, heard |-> TRUE]

Stands(c, step) == calls[c] # Nothing /\ calls[c].step = step

-----------------------------------------------------------------------------

\* The onChange of the field.
Type(email) ==
  /\ ~counter.done
  /\ counter' = [counter EXCEPT !.typed = email, !.resolved = Nothing]
  /\ UNCHANGED <<calls, deposits, asked>>

Ask(c, call) ==
  /\ calls[c] = Nothing
  /\ asked' = asked + 1
  /\ calls' = [calls EXCEPT ![c] = call]

\* handleLookup: its button is disabled while a lookup runs, the Enter key is not.
Lookup(c) ==
  /\ counter.typed # Nothing /\ ~counter.done
  /\ Ask(c, Call("lookup", Nothing))
  /\ counter' = [counter EXCEPT !.resolved = Nothing]
  /\ UNCHANGED deposits

\* "Confirm Deposit" is not disabled.
CanSubmit == counter.typed # Nothing /\ ~counter.done /\ ~counter.loading

\* handleSubmit: an account that is resolved is paid into, any other is looked up first.
Submit(c) ==
  /\ CanSubmit
  /\ IF counter.resolved # Nothing
     THEN Ask(c, Call("post", counter.resolved)) /\ counter' = [counter EXCEPT !.loading = TRUE]
     ELSE Ask(c, Call("resolve", Nothing)) /\ UNCHANGED counter
  /\ UNCHANGED deposits

\* Who has the email now, and those of them who have an account.
Holders(email) == {u \in Users : users[u] # Nothing /\ users[u].email = email}
Found(email) == Holders(email) \cap accounts

Answer(c, step, target) ==
  calls' = [calls EXCEPT ![c].step = step, ![c].target = target]

\* resolveStaffLookup
Search(c) ==
  /\ Stands(c, "lookup") \/ Stands(c, "resolve")
  /\ LET found == Found(calls[c].typed)
         next  == IF Stands(c, "lookup") THEN "found" ELSE "resolved"
     IN  IF found = {} THEN Answer(c, next, Nothing)
         ELSE \E u \in found : Answer(c, next, u)
  /\ UNCHANGED <<counter, deposits, asked>>

\* The answer to handleLookup reaches the page, whatever is typed there by now.
HearLookup(c) ==
  /\ Stands(c, "found") /\ calls[c].heard
  /\ counter' = [counter EXCEPT !.resolved = calls[c].target]
  /\ calls' = [calls EXCEPT ![c] = Nothing]
  /\ UNCHANGED <<deposits, asked>>

\* Mutant.
OnScreen(c) == counter.resolved

\* Whom handleSubmit pays after its own lookup: the user it found, whatever other
\* lookups have put on the page.
Target(c) == calls[c].target

\* Its lookup answered, handleSubmit goes on with the deposit.
HearResolved(c) ==
  /\ Stands(c, "resolved") /\ calls[c].heard
  /\ counter' = [counter EXCEPT !.resolved = calls[c].target,
                                !.loading = @ \/ calls[c].target # Nothing]
  /\ calls' = [calls EXCEPT ![c] = IF @.target = Nothing THEN Nothing
                                   ELSE [@ EXCEPT !.step = "post", !.target = Target(c)]]
  /\ UNCHANGED <<deposits, asked>>

\* The deposit, whoever waits for it, or an error.
Pay(c) ==
  /\ Stands(c, "post")
  /\ \/ /\ Answer(c, "paid", calls[c].target)
        /\ deposits' = deposits \cup {[to |-> calls[c].target, typed |-> calls[c].typed,
                                       shown |-> calls[c].shown]}
     \/ Answer(c, "refused", calls[c].target) /\ UNCHANGED deposits
  /\ UNCHANGED <<counter, asked>>

HearDeposit(c) ==
  /\ (Stands(c, "paid") \/ Stands(c, "refused")) /\ calls[c].heard
  /\ counter' = [counter EXCEPT !.loading = FALSE, !.done = @ \/ Stands(c, "paid")]
  /\ calls' = [calls EXCEPT ![c] = Nothing]
  /\ UNCHANGED <<deposits, asked>>

\* The browser gives up after 10 seconds: the account is no longer resolved, or the
\* deposit goes on unheard.
StopWaiting(c) ==
  /\ calls[c] # Nothing /\ calls[c].heard
  /\ counter' = IF calls[c].step \in {"post", "paid", "refused"}
                THEN [counter EXCEPT !.loading = FALSE]
                ELSE [counter EXCEPT !.resolved = Nothing]
  /\ calls' = [calls EXCEPT ![c] = IF @.step = "post" THEN [@ EXCEPT !.heard = FALSE] ELSE Nothing]
  /\ UNCHANGED <<deposits, asked>>

\* A deposit nobody waits for is over.
Settle(c) ==
  /\ (Stands(c, "paid") \/ Stands(c, "refused")) /\ ~calls[c].heard
  /\ calls' = [calls EXCEPT ![c] = Nothing]
  /\ UNCHANGED <<counter, deposits, asked>>

\* handleClose of the receipt
CloseReceipt ==
  /\ counter.done
  /\ counter' = [Blank EXCEPT !.loading = counter.loading]
  /\ UNCHANGED <<calls, deposits, asked>>

-----------------------------------------------------------------------------

CounterInit ==
  /\ Init
  /\ counter = Blank
  /\ calls = [c \in Calls |-> Nothing]
  /\ deposits = {}
  /\ asked = 0

CounterNext ==
  \/ \E email \in Emails : Type(email)
  \/ \E c \in Calls : \/ Lookup(c) \/ Submit(c) \/ Search(c) \/ HearLookup(c) \/ HearResolved(c)
                      \/ Pay(c) \/ HearDeposit(c) \/ StopWaiting(c) \/ Settle(c)
  \/ CloseReceipt

SystemNext ==
  /\ \/ CounterNext /\ UNCHANGED vars
     \/ Next /\ UNCHANGED counterVars
  /\ sent' + asked' <= MaxTotal

SystemSpec == CounterInit /\ [][SystemNext]_systemVars

-----------------------------------------------------------------------------
(* Properties.                                                             *)

\* Cash goes to whoever the page named when "Confirm Deposit" was clicked, or, when
\* it named nobody yet, to someone who has had the email that was typed then: lookups
\* that answer late, and changes of the directory, do not redirect a deposit.
DepositGoesWhereClicked ==
  \A d \in deposits :
    IF d.shown # Nothing THEN d.to = d.shown
    ELSE d.to \in Users /\ \E row \in held[d.to] : row.email = d.typed

=============================================================================
