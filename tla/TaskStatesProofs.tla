-------------------------- MODULE TaskStatesProofs --------------------------
(***************************************************************************)
(* The driver's choices and the handlers' verdicts against the legal       *)
(* table: what the proofs about the modules that hold state rest on.       *)
(***************************************************************************)
EXTENDS TaskStates, TLAPS

(* The deterministic driver names a status, and one the legal table allows *)
(* (task_lifecycle.py, next_status, against state_machine.py).             *)
LEMMA NextStatusIsLegal ==
    ASSUME NEW s \in TaskStatus, NEW r, NEW m, NEW reason,
           NEW t \in NextStatus(s, r, m, reason)
    PROVE  /\ t \in TaskStatus
           /\ <<s, t>> \in LegalTransitions
<1>1. CASE s \in TerminalStates
  BY <1>1 DEF NextStatus, TerminalStates
<1>2. CASE s = "FAILED"
  BY <1>2 DEF NextStatus, TerminalStates, TaskStatus, LegalTransitions,
              PipelineEdges
<1>3. CASE s = "RECOVERING"
  BY <1>3 DEF NextStatus, TerminalStates, TaskStatus, LegalTransitions,
              PipelineEdges
<1>4. CASE s = "REPLANNING"
  BY <1>4 DEF NextStatus, TerminalStates, TaskStatus, LegalTransitions,
              PipelineEdges, FailureEdges, AgentStatus
<1>5. CASE s = "DEBUGGING"
  BY <1>5 DEF NextStatus, TerminalStates, TaskStatus, LegalTransitions,
              PipelineEdges, AgentStatus
<1>6. CASE s \notin TerminalStates \cup
                   {"FAILED", "RECOVERING", "REPLANNING", "DEBUGGING"}
  <2>1. PICK i \in 1 .. 10 : AutoPipeline[i] = s /\ t = AutoPipeline[i + 1]
    BY <1>6 DEF NextStatus, AutoPipeline
  <2>2. QED
    BY <2>1 DEF AutoPipeline, TaskStatus, AgentStatus, TerminalStates,
                LegalTransitions, PipelineEdges
<1>7. QED
  BY <1>1, <1>2, <1>3, <1>4, <1>5, <1>6

(* A handler's verdict is a legal transition out of the agent's state.     *)
LEMMA VerdictIsLegal ==
    ASSUME NEW s, NEW t, <<s, t>> \in Verdicts
    PROVE  /\ s \in AgentStatus
           /\ t \in TaskStatus
           /\ <<s, t>> \in LegalTransitions
  BY DEF AgentStatus, TaskStatus, TerminalStates, LegalTransitions,
         PipelineEdges, FailureEdges, Verdicts, PlanningVerdicts,
         ResearchingVerdicts, ImplementingVerdicts, TestingVerdicts,
         DebuggingVerdicts, ReviewingVerdicts, SecurityVerdicts,
         VerificationVerdicts, PRCreationVerdicts

(* Apart from the replans, only the researcher's verdict starts the        *)
(* developer, only the planner's starts the researcher, and none goes back *)
(* to where the task started or to REPLANNING.                             *)
LEMMA VerdictTargets ==
    ASSUME NEW s, NEW t, <<s, t>> \in Verdicts, ~IsReplan(s, t)
    PROVE  /\ t = "IMPLEMENTING" => s = "RESEARCHING"
           /\ t = "RESEARCHING" => s = "PLANNING"
           /\ t \notin {"CREATED", "PLANNING", "REPLANNING"}
  BY DEF IsReplan, Verdicts, PlanningVerdicts, ResearchingVerdicts,
         ImplementingVerdicts, TestingVerdicts, DebuggingVerdicts,
         ReviewingVerdicts, SecurityVerdicts, VerificationVerdicts,
         PRCreationVerdicts
=============================================================================
