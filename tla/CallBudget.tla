----------------------------- MODULE CallBudget -----------------------------
(***************************************************************************)
(* What the background worker promises about provider calls (the header of *)
(* packages/core/src/background/worker.ts): a run makes at most MaxCalls   *)
(* of them, never more than a kind's limit at once, and none for the       *)
(* breaker's kind once its circuit is open.  How the worker decides that,  *)
(* what it writes meanwhile and what becomes of the items is not said.     *)
(***************************************************************************)
EXTENDS Integers

CONSTANTS
  CallKinds,    \* the kinds of calls
  Allowed,      \* kind -> how many may run at once
  MostCalls,    \* how many calls a run may start
  Guarded       \* the kinds behind the circuit breaker

VARIABLES made, busy, open

budgetVars == <<made, busy, open>>

BudgetInit ==
  /\ made = 0
  /\ busy = [k \in CallKinds |-> 0]
  /\ open = FALSE

\* A call starts within the budget, within its limit, and not through an open circuit.
StartCall(k) ==
  /\ made < MostCalls
  /\ busy[k] < Allowed[k]
  /\ ~(k \in Guarded /\ open)
  /\ made' = made + 1
  /\ busy' = [busy EXCEPT ![k] = @ + 1]
  /\ UNCHANGED open

\* A call is over; one behind the breaker may open the circuit for good.
EndCall(k) ==
  /\ busy[k] > 0
  /\ busy' = [busy EXCEPT ![k] = @ - 1]
  /\ \/ UNCHANGED open
     \/ k \in Guarded /\ open' = TRUE
  /\ UNCHANGED made

\* The process is gone and with it the run: the next one starts afresh.
NewRun ==
  /\ made' = 0
  /\ busy' = [k \in CallKinds |-> 0]
  /\ open' = FALSE

BudgetNext ==
  \/ \E k \in CallKinds : StartCall(k) \/ EndCall(k)
  \/ NewRun

BudgetSpec == BudgetInit /\ [][BudgetNext]_budgetVars
=============================================================================
