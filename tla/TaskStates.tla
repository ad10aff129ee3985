----------------------------- MODULE TaskStates -----------------------------
(***************************************************************************)
(* The vocabulary of the task runtime: the statuses of a task, the table   *)
(* of legal transitions (runtime/state_machine.py), the deterministic      *)
(* driver's choice of a next status and the verdicts the agents' handlers  *)
(* may reach (runtime/task_lifecycle.py).  Everything here is a constant   *)
(* expression; the modules that hold state build on it.                    *)
(***************************************************************************)
EXTENDS Naturals, Sequences

(* The states an agent (or the code-only verification step) works in.      *)
AgentStatus ==
    {"PLANNING", "RESEARCHING", "IMPLEMENTING", "TESTING", "DEBUGGING",
     "REVIEWING", "SECURITY_REVIEW", "VERIFICATION", "PR_CREATION"}

TerminalStates == {"COMPLETED", "ESCALATED"}

TaskStatus ==
    AgentStatus \cup TerminalStates \cup
    {"CREATED", "AWAITING_APPROVAL", "FAILED", "RECOVERING", "REPLANNING"}

(* No status: the None of next_status and of a job that moved nothing.     *)
NoStatus == "NONE"

(* The forward and replan edges of the legal table.                        *)
PipelineEdges ==
    {<<"CREATED", "PLANNING">>,
     <<"PLANNING", "RESEARCHING">>,
     <<"RESEARCHING", "IMPLEMENTING">>,
     <<"IMPLEMENTING", "TESTING">>,
     <<"TESTING", "DEBUGGING">>, <<"TESTING", "REVIEWING">>,
     <<"DEBUGGING", "IMPLEMENTING">>, <<"DEBUGGING", "REVIEWING">>,
     <<"REVIEWING", "SECURITY_REVIEW">>, <<"REVIEWING", "IMPLEMENTING">>,
     <<"SECURITY_REVIEW", "VERIFICATION">>,
     <<"SECURITY_REVIEW", "IMPLEMENTING">>,
     <<"VERIFICATION", "PR_CREATION">>, <<"VERIFICATION", "TESTING">>,
     <<"PR_CREATION", "AWAITING_APPROVAL">>,
     <<"AWAITING_APPROVAL", "COMPLETED">>,
     <<"FAILED", "RECOVERING">>,
     <<"RECOVERING", "REPLANNING">>,
     <<"REPLANNING", "RESEARCHING">>, <<"REPLANNING", "IMPLEMENTING">>}

(* Any state that is not terminal may fail or escalate, but not into       *)
(* itself.                                                                 *)
FailureEdges ==
    {edge \in (TaskStatus \ TerminalStates) \X {"FAILED", "ESCALATED"} :
        edge[1] # edge[2]}

LegalTransitions == PipelineEdges \cup FailureEdges

(* The happy path the deterministic driver walks.                          *)
AutoPipeline ==
    <<"CREATED", "PLANNING", "RESEARCHING", "IMPLEMENTING", "TESTING",
      "REVIEWING", "SECURITY_REVIEW", "VERIFICATION", "PR_CREATION",
      "AWAITING_APPROVAL", "COMPLETED">>

(* next_status: the one status the driver moves a task to, as a set that   *)
(* is empty when the driver stops.                                         *)
NextStatus(current, replan_count, max_replans, last_reason) ==
    CASE current \in TerminalStates -> {}
      [] current = "FAILED" ->
            IF last_reason = "user_cancelled" THEN {} ELSE {"RECOVERING"}
      [] current = "RECOVERING" -> {"REPLANNING"}
      [] current = "REPLANNING" ->
            IF replan_count >= max_replans
            THEN {"ESCALATED"} ELSE {"RESEARCHING"}
      [] current = "DEBUGGING" -> {"IMPLEMENTING"}
      [] OTHER ->
            {AutoPipeline[i + 1] :
                i \in {j \in 1 .. Len(AutoPipeline) - 1 :
                          AutoPipeline[j] = current}}

(* What the handler of each agent state may decide once its agent has      *)
(* returned or raised, by the reason of the event.  Every handler turns    *)
(* any exception into FAILED.                                              *)
PlanningVerdicts == {"RESEARCHING", "FAILED"}         \* plan_persisted
ResearchingVerdicts == {"IMPLEMENTING", "FAILED"}     \* artifact_persisted
ImplementingVerdicts == {"TESTING", "FAILED"}         \* implementation_persisted
TestingVerdicts ==
    {"REVIEWING",          \* tests_passed
     "DEBUGGING",          \* tests_failed, tests_error
     "FAILED"}
DebuggingVerdicts ==
    {"REVIEWING",          \* flaky_test
     "IMPLEMENTING",       \* debugger_replan
     "FAILED"}
ReviewingVerdicts ==
    {"SECURITY_REVIEW",    \* review_approved
     "IMPLEMENTING",       \* review_requested_changes, review_rejected
     "FAILED"}
SecurityVerdicts ==
    {"VERIFICATION",       \* security_passed
     "IMPLEMENTING",       \* security_failed
     "FAILED"}
VerificationVerdicts ==
    {"PR_CREATION",        \* verification_passed
     "TESTING",            \* stale_review
     "FAILED"}
PRCreationVerdicts == {"AWAITING_APPROVAL", "FAILED"} \* pr_created

Verdicts ==
    ({"PLANNING"} \X PlanningVerdicts) \cup
    ({"RESEARCHING"} \X ResearchingVerdicts) \cup
    ({"IMPLEMENTING"} \X ImplementingVerdicts) \cup
    ({"TESTING"} \X TestingVerdicts) \cup
    ({"DEBUGGING"} \X DebuggingVerdicts) \cup
    ({"REVIEWING"} \X ReviewingVerdicts) \cup
    ({"SECURITY_REVIEW"} \X SecurityVerdicts) \cup
    ({"VERIFICATION"} \X VerificationVerdicts) \cup
    ({"PR_CREATION"} \X PRCreationVerdicts)

(* The verdicts that go through _replan_to_implementing, which draws on    *)
(* the shared budget, and not through the plain compare-and-swap.          *)
IsReplan(seen, target) ==
    /\ seen \in {"DEBUGGING", "REVIEWING", "SECURITY_REVIEW"}
    /\ target = "IMPLEMENTING"

(* How far a status is from the end of the task, replans, recoveries and   *)
(* stale reviews aside: what a transition that pays for none of them lowers. *)
Way ==
    [CREATED |-> 13, PLANNING |-> 12, REPLANNING |-> 12, RESEARCHING |-> 11,
     IMPLEMENTING |-> 10, TESTING |-> 9, DEBUGGING |-> 8, REVIEWING |-> 7,
     SECURITY_REVIEW |-> 6, VERIFICATION |-> 5, PR_CREATION |-> 4,
     AWAITING_APPROVAL |-> 3, FAILED |-> 2, RECOVERING |-> 1,
     COMPLETED |-> 0, ESCALATED |-> 0]
=============================================================================
