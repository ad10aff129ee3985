---------------------------- MODULE TaskMachine -----------------------------
(***************************************************************************)
(* What the runtime promises about one task, whoever moves it: the status  *)
(* only ever moves along the legal table, a terminal task and a task its   *)
(* user cancelled never move again, and the developer agent is given at    *)
(* most one attempt plus one per replan.  It says nothing of workers, jobs *)
(* locks or agents; TaskLifecycle is shown to implement it.                *)
(***************************************************************************)
EXTENDS TaskStates

CONSTANT MaxReplans   \* tasks.max_replans

VARIABLES status,     \* tasks.status
          cancelled,  \* the last event is the user's cancellation
          developed   \* how often the task has entered IMPLEMENTING

vars == <<status, cancelled, developed>>

Init ==
    /\ status = "CREATED"
    /\ cancelled = FALSE
    /\ developed = 0

Move(target) ==
    /\ ~cancelled
    /\ <<status, target>> \in LegalTransitions
    /\ status' = target
    /\ cancelled' \in IF target = "FAILED" THEN BOOLEAN ELSE {FALSE}
    /\ IF target = "IMPLEMENTING"
       THEN developed <= MaxReplans /\ developed' = developed + 1
       ELSE developed' = developed

Next == \E target \in TaskStatus : Move(target)

Spec == Init /\ [][Next]_vars
=============================================================================
