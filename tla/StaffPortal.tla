---------------------------- MODULE StaffPortal ----------------------------
(***************************************************************************)
(* An employee at one page of the staff portal: the dashboard renders one  *)
(* page at a time, and these two share no state.                           *)
(***************************************************************************)
EXTENDS HoldDesk, AlertDesk

VARIABLE shown  \* the page that is rendered

vars == <<holdVars, alertVars, shown>>

Init == HoldInit /\ AlertInit /\ shown \in {"doc-holds", "fraud-tx"}

AtHolds(action)  == shown = "doc-holds" /\ action /\ UNCHANGED <<alertVars, shown>>
AtAlerts(action) == shown = "fraud-tx" /\ action /\ UNCHANGED <<holdVars, shown>>

Next == AtHolds(HoldNext) \/ AtAlerts(AlertNext)

\* axios settles the requests of the holds page within its timeout.  The timer of the
\* alerts page goes on, fraud-service gets to every event, and lists keep getting
\* through: not each one, but again and again.
Fairness ==
  /\ \A h \in Holds : WF_vars(AtHolds(DecisionSettled(h)))
  /\ WF_vars(AtHolds(LastLoadSettled))
  /\ WF_vars(AtAlerts(Poll))
  /\ SF_vars(AtAlerts(SomePollServed)) /\ SF_vars(AtAlerts(SomePollHeard))
  /\ \A t \in Transactions : WF_vars(AtAlerts(ConsumeCancellation(t)))

Spec == Init /\ [][Next]_vars /\ Fairness

=============================================================================
