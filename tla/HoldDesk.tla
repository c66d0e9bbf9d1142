----------------------------- MODULE HoldDesk -----------------------------
(***************************************************************************)
(* An employee decides about held transactions: the holds page of          *)
(* staff_frontend, the requests it has on their way, and decideHold of     *)
(* account-service.  Colleagues decide too, at pages of their own.         *)
(*                                                                         *)
(* A list or an answer arrives late, or the browser gives up after 10      *)
(* seconds; a decision whose sender gave up goes on.  Rows of decided      *)
(* holds offer nothing to do and are left out; a filter for them shows, as *)
(* a list that failed does, no row at all.                                 *)
(*                                                                         *)
(* An operator marked "Mutant" is the definition below it with a plausible *)
(* bug; no specification uses it.                                          *)
(***************************************************************************)
EXTENDS Integers, Sequences, SequencesExt

CONSTANTS
  Holds,       \* parked requests
  NoHold,
  MaxNotes,    \* bound: notes typed
  MaxUnderWay  \* bound: lists and decisions on their way

ASSUME HoldDeskAssumption ==
  /\ NoHold \notin Holds
  /\ MaxNotes \in Nat /\ MaxUnderWay \in Nat

VARIABLES
  holds,      \* held_transactions
  view,       \* the HoldsView
  loads,      \* lists asked for, oldest first
  decisions,  \* decisions on their way, oldest first
  notes       \* the number of notes typed, and the last one

holdVars == <<holds, view, loads, decisions, notes>>

Decided == {"RELEASED", "REJECTED"}

\* rows: the holds that the page shows as pending.
BlankView == [rows |-> {}, open |-> NoHold, note |-> 0, busy |-> NoHold]

\* last: the load that decide awaits before it gives the buttons back.
NewLoad(last) == [rows |-> {}, served |-> FALSE, last |-> last]

-----------------------------------------------------------------------------
(* The list.                                                               *)

Room == Len(loads) + Len(decisions) < MaxUnderWay

\* The Refresh button, and the effect of a new filter.
Reload ==
  /\ Room
  /\ loads' = Append(loads, NewLoad(FALSE))
  /\ UNCHANGED <<holds, view, decisions, notes>>

\* Mutant.
DecisionUnchecked(h) == TRUE

\* decideHold takes the row FOR UPDATE.
Undecided(h) == holds[h].status = "PENDING_REVIEW"

\* listHolds
ServeLoad(l) ==
  /\ ~loads[l].served
  /\ loads' = [loads EXCEPT ![l].served = TRUE, ![l].rows = {h \in Holds : Undecided(h)}]
  /\ UNCHANGED <<holds, view, decisions, notes>>

\* Whichever list arrives last stays, and an error leaves an empty one.
Loaded(l, rows) ==
  /\ view' = [view EXCEPT !.rows = rows, !.busy = IF loads[l].last THEN NoHold ELSE @]
  /\ loads' = RemoveAt(loads, l)
  /\ UNCHANGED <<holds, decisions, notes>>

HearLoad(l) == loads[l].served /\ Loaded(l, loads[l].rows)

\* Mutant.
LoadFailsLoudly(l) ==
  /\ loads' = RemoveAt(loads, l)
  /\ UNCHANGED <<holds, view, decisions, notes>>

FailLoad(l) == Loaded(l, {})

-----------------------------------------------------------------------------
(* Decisions.                                                              *)

\* A click on a row opens or closes its details.
OpenRow(h) ==
  /\ h \in view.rows
  /\ view' = [view EXCEPT !.open = IF @ = h THEN NoHold ELSE h]
  /\ UNCHANGED <<holds, loads, decisions, notes>>

\* The open details offer the note and the two buttons.
Offered(h) == view.open = h /\ h \in view.rows

\* One field serves all holds.
TypeNote(h) ==
  /\ Offered(h)
  /\ notes < MaxNotes
  /\ notes' = notes + 1
  /\ view' = [view EXCEPT !.note = notes + 1]
  /\ UNCHANGED <<holds, loads, decisions>>

\* decide
Decide(h, status) ==
  /\ Offered(h) /\ view.busy # h
  /\ Room
  /\ view' = [view EXCEPT !.busy = h]
  /\ decisions' = Append(decisions, [hold |-> h, status |-> status, note |-> view.note,
                                     done |-> FALSE, awaited |-> TRUE])
  /\ UNCHANGED <<holds, loads, notes>>

Record(h, status, who, note) ==
  holds' = [holds EXCEPT ![h] = [status |-> status, by |-> who, note |-> note]]

\* The service decides; the answer to a request nobody awaits is lost.
ServeDecision(d) ==
  LET it == decisions[d]
  IN  /\ ~it.done /\ Undecided(it.hold)
      /\ Record(it.hold, it.status, "here", it.note)
      /\ decisions' = IF it.awaited THEN [decisions EXCEPT ![d].done = TRUE]
                                    ELSE RemoveAt(decisions, d)
      /\ UNCHANGED <<view, loads, notes>>

\* A colleague decides.
DecideElsewhere(h, status) ==
  /\ Undecided(h)
  /\ Record(h, status, "elsewhere", 0)
  /\ UNCHANGED <<view, loads, decisions, notes>>

\* The success closes whatever details are open, empties the field and reloads.
DecisionSucceeds(d) ==
  /\ decisions[d].done /\ decisions[d].awaited
  /\ view' = [view EXCEPT !.open = NoHold, !.note = 0]
  /\ decisions' = RemoveAt(decisions, d)
  /\ loads' = Append(loads, NewLoad(TRUE))
  /\ UNCHANGED <<holds, notes>>

\* An error comes back: the hold was decided already, its owner has spent the money
\* meanwhile, a service is down.  Or nothing comes for 10 seconds, and the request
\* goes on.  The buttons of whichever hold are given back.
DecisionFails(d) ==
  /\ decisions[d].awaited
  /\ view' = [view EXCEPT !.busy = NoHold]
  /\ \/ decisions' = RemoveAt(decisions, d)
     \/ ~decisions[d].done /\ decisions' = [decisions EXCEPT ![d].awaited = FALSE]
  /\ UNCHANGED <<holds, loads, notes>>

\* A request nobody awaits got lost on its way.
DecisionLost(d) ==
  /\ ~decisions[d].awaited
  /\ decisions' = RemoveAt(decisions, d)
  /\ UNCHANGED <<holds, view, loads, notes>>

\* The employee looks at another page and comes back: what was on its way for
\* the old page is not heard by the new one.
Reopen ==
  /\ view' = BlankView
  /\ loads' = <<NewLoad(FALSE)>>
  /\ decisions' = [d \in DOMAIN decisions |-> [decisions[d] EXCEPT !.awaited = FALSE]]
  /\ UNCHANGED <<holds, notes>>

-----------------------------------------------------------------------------

HoldInit ==
  /\ holds = [h \in Holds |-> [status |-> "PENDING_REVIEW", by |-> "nobody", note |-> 0]]
  /\ view = BlankView
  /\ loads = <<NewLoad(FALSE)>>
  /\ decisions = <<>>
  /\ notes = 0

HoldNext ==
  \/ Reload
  \/ \E l \in DOMAIN loads : ServeLoad(l) \/ HearLoad(l) \/ FailLoad(l)
  \/ \E h \in Holds : OpenRow(h) \/ TypeNote(h)
  \/ \E h \in Holds, status \in Decided : Decide(h, status) \/ DecideElsewhere(h, status)
  \/ \E d \in DOMAIN decisions :
       ServeDecision(d) \/ DecisionSucceeds(d) \/ DecisionFails(d) \/ DecisionLost(d)
  \/ Reopen

HoldSpec == HoldInit /\ [][HoldNext]_holdVars

\* axios settles every request within its timeout.
DecisionSettled(h) ==
  \E d \in DOMAIN decisions :
    decisions[d].hold = h /\ (DecisionSucceeds(d) \/ DecisionFails(d))
LastLoadSettled == \E l \in DOMAIN loads : loads[l].last /\ (HearLoad(l) \/ FailLoad(l))

-----------------------------------------------------------------------------
(* Properties.                                                             *)

\* What the page calls released or rejected was decided by this very employee, as
\* clicked and with the note that was sent, and by no colleague before or after.
SuccessIsOwn ==
  [][\A d \in DOMAIN decisions : DecisionSucceeds(d) =>
       LET it == decisions[d]
       IN  holds[it.hold] = [status |-> it.status, by |-> "here", note |-> it.note]]_holdVars

\* Every button comes back, also when the decision, or the list after it, fails
\* or gets no answer.
ButtonsComeBack == \A h \in Holds : view.busy = h ~> view.busy # h

=============================================================================
