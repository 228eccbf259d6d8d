------------------------------ MODULE TimedCall ------------------------------
(***************************************************************************)
(* What a caller of getLicense may rely on: the call ends, and it ends     *)
(* within its time budget, whatever the web service does.                  *)
(***************************************************************************)
EXTENDS Naturals

CONSTANT Budgets       \* the time budgets of the calls, in seconds

VARIABLES
  busy,     \* a call is in progress
  budget    \* the time it may still take

vars == <<busy, budget>>

Init == busy = FALSE /\ budget = 0

Begin ==
  /\ ~busy
  /\ busy' = TRUE
  /\ budget' \in Budgets

\* A second passes.
Elapse ==
  /\ busy /\ budget > 0
  /\ budget' = budget - 1
  /\ UNCHANGED busy

Finish ==
  /\ busy
  /\ busy' = FALSE /\ budget' = 0

Next == Begin \/ Elapse \/ Finish

Spec == Init /\ [][Next]_vars

\* With time passing, a call ends.
FairSpec == Spec /\ WF_vars(Elapse \/ Finish)
=============================================================================
