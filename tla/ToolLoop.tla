------------------------------ MODULE ToolLoop ------------------------------
(***************************************************************************)
(* One run of an agent that works with a language model: the model         *)
(* proposes tool calls, each goes through the tool pipeline (capabilities, *)
(* policy, execution, audit row), and at the end the model writes the      *)
(* artifact.  LLMCall is the request to the model.  ReviewGate takes a     *)
(* run of the developer for a few steps; here they are the calls that make *)
(* them up, and ImplementsGate says so.                                    *)
(*                                                                         *)
(* The agents' loops are variations of one loop; what they differ in is    *)
(* their profile.  Commits are counted from the start of the run.          *)
(***************************************************************************)
EXTENDS LLMCall, Ranks

CONSTANTS
    Agents,         \* the agents that may run: a subset of AllAgents
    MaxCalls,       \* max_*_tool_calls
    MaxRejections,  \* max_tool_call_rejections
    Faults,         \* which of AllFaults may happen
    MaxFaults       \* bound: how many of them hit one run

AllAgents ==
    {"planner", "research", "developer", "debugger", "reviewer", "security"}

AllFaults ==
    {"crash",     \* the process dies, or the deadline cancels the run
     "db_error",  \* the database refuses a commit
     "lost_ack"}  \* git.commit has committed and raises all the same

ASSUME LoopAssumption ==
    /\ Agents \subseteq AllAgents
    /\ MaxCalls \in Nat
    /\ MaxRejections \in Nat
    /\ Faults \subseteq AllFaults
    /\ MaxFaults \in Nat

VARIABLES
    agent,     \* whose run it is
    pc,        \* where the run is, see Points
    call,      \* the tool call under way, and how its execution ended
    spent,     \* what ToolBudget counts, or the turns of the for loop
    head,      \* commits of this run on the worktree branch
    dirty,     \* uncommitted writes lie in the worktree
    pushed,    \* the commit git.push last sent to the fork
    sha,       \* the developer's commit_sha, 0 while it knows of none
    session,   \* the database session: usable, or waiting for a rollback
    ran,       \* history: tool calls that were executed
    rows,      \* history: tool_calls rows of executed calls
    draft,     \* attempts at the artifact, and whether one is at hand
    artifact,  \* the row the run has left
    faults     \* how many faults have happened

tree == <<head, dirty, pushed>>
work == <<tree, sha, session, ran, rows>>
result == <<draft, artifact>>
vars == <<agent, pc, call, spent, work, result, faults, llmVars>>

(* propose     the model is asked for the next call                        *)
(* execute     a call has passed the gates                                 *)
(* record      it was executed, its row is about to be committed           *)
(* rerecord    that failed; the row, now FAILED, is tried once more        *)
(* synthesize  the model is asked for the artifact                         *)
Ended == {"done", "failed", "dead"}
Points ==
    {"propose", "execute", "record", "rerecord", "synthesize"} \cup Ended
Outcomes == {"none", "returned", "raised", "raised_after"}
NoToolCall == [tool |-> "none", outcome |-> "none"]
Artifacts == {"none", "complete", "unverified", "incomplete", "invalid"}

-----------------------------------------------------------------------------
(* The tools, one for each capability, and two that need none.             *)
Needs ==
    {<<"repository.read_file", "repo.read">>, <<"git.diff", "git.read">>,
     <<"filesystem.write_file", "repo.write">>, <<"git.commit", "git.write">>,
     <<"git.push", "git.write">>, <<"github.get_issue", "github.read">>,
     <<"github.create_pr", "github.write">>,
     <<"github.merge_pr", "github.merge">>, <<"shell.run_test", "shell.test">>}
Tools == {n[1] : n \in Needs} \cup {"example.echo", "example.denied"}

(* ExplicitDenyRule; no tool is of the tier that RiskTierRule denies.      *)
DeniedTools == {"example.denied", "github.merge"}

(* What an agent's loop is made of: its capabilities; whether the budget   *)
(* is a ToolBudget or a number of turns; what it does when the pipeline    *)
(* raises (rolls back, goes on, or writes to the audit log); what follows  *)
(* two attempts at the artifact.                                           *)
Planner == [caps |-> {}, budget |-> "none", raised |-> "none",
            second |-> "invalid"]
Research == [caps |-> {"repo.read", "git.read", "github.read"},
             budget |-> "calls", raised |-> "rolls_back",
             second |-> "accepts"]
Developer == [caps |-> {"repo.read", "repo.write", "git.read", "git.write"},
              budget |-> "calls", raised |-> "goes_on", second |-> "accepts"]
Debugger == [caps |-> {"repo.read", "git.read"}, budget |-> "turns",
             raised |-> "audits", second |-> "raises"]
Reviewer == [caps |-> {"repo.read", "git.read"}, budget |-> "turns",
             raised |-> "audits", second |-> "raises"]
Security == [caps |-> {"repo.read", "git.read"}, budget |-> "turns",
             raised |-> "audits", second |-> "raises"]

Profile ==
    CASE agent = "planner"   -> Planner
      [] agent = "research"  -> Research
      [] agent = "developer" -> Developer
      [] agent = "debugger"  -> Debugger
      [] agent = "reviewer"  -> Reviewer
      [] OTHER               -> Security

(* Mutant: the capability check is left out.                               *)
PolicyOnly(tool) == tool \notin DeniedTools

(* The gates of the pipeline: every capability the tool needs, then no     *)
(* rule that denies it.                                                    *)
Allowed(tool) ==
    /\ \A n \in Needs : n[1] = tool => n[2] \in Profile.caps
    /\ tool \notin DeniedTools

-----------------------------------------------------------------------------
Init ==
    /\ BuildProvider
    /\ agent \in Agents
    /\ pc = IF agent = "planner" THEN "synthesize" ELSE "propose"
    /\ call = NoToolCall
    /\ spent = [executed |-> 0, rejections |-> 0]
    /\ head = 0
    /\ dirty \in BOOLEAN     \* an earlier run may have left writes behind
    /\ pushed = 0
    /\ sha = 0
    /\ session = "ok"
    /\ ran = 0
    /\ rows = 0
    /\ draft = [tries |-> 0, kept |-> FALSE]
    /\ artifact = "none"
    /\ faults = 0

Fault(kind) ==
    /\ kind \in Faults
    /\ faults < MaxFaults
    /\ faults' = faults + 1

(* Mutant: one call too many.                                              *)
BudgetOneMore ==
    /\ spent.executed <= MaxCalls
    /\ Profile.budget = "calls" => spent.rejections < MaxRejections

(* should_continue, or turns left in the for loop.                         *)
BudgetLeft ==
    /\ spent.executed < MaxCalls
    /\ Profile.budget = "calls" => spent.rejections < MaxRejections

(* Mutant: a rejected call costs nothing.                                  *)
ChargeExecutedOnly(outcome) ==
    spent' = IF Profile.budget = "calls" /\ outcome = "REJECTED" THEN spent
             ELSE [spent EXCEPT !.executed = @ + 1]

(* note: what a turn costs.  Every turn of a for loop costs the same.      *)
Charge(outcome) ==
    spent' = IF Profile.budget = "calls" /\ outcome = "REJECTED"
             THEN [spent EXCEPT !.rejections = @ + 1]
             ELSE [spent EXCEPT !.executed = @ + 1]

-----------------------------------------------------------------------------
(* The model is asked, and what it says.                                   *)
Prompt ==
    /\ \/ pc = "propose" /\ BudgetLeft
       \/ pc = "synthesize" /\ draft.tries < 2
    /\ Ask
    /\ UNCHANGED <<agent, pc, call, spent, work, result, faults>>

LLMStep ==
    /\ pc \notin Ended
    /\ LLMNext
    /\ UNCHANGED <<agent, pc, call, spent, work, result, faults>>

(* Malformed output is answered with a hint.  ToolBudget is not charged    *)
(* for it, a turn of a for loop is gone.                                   *)
MalformedProposal ==
    /\ pc = "propose"
    /\ Takes({"malformed"})
    /\ IF Profile.budget = "calls" THEN spent' = spent ELSE Charge("EXECUTED")
    /\ UNCHANGED <<agent, pc, call, work, result, faults>>

(* Any other error leaves the agent; the planner notes only a timeout.     *)
LLMFails ==
    /\ pc \in {"propose", "synthesize"}
    /\ Takes(TransientError \cup {"error"})
    /\ pc' = "failed"
    /\ artifact' = IF agent = "planner" /\ llm.result = "timeout"
                   THEN "invalid" ELSE artifact
    /\ UNCHANGED <<agent, call, spent, work, draft, faults>>

(* _fail_no_commit: an INCOMPLETE row, if the session still takes one.     *)
FailNoCommit ==
    /\ pc' = "failed"
    /\ artifact' = IF session = "ok" THEN "incomplete" ELSE artifact

(* The loop is left: a developer without a known commit has failed.        *)
LeaveLoop ==
    IF agent = "developer" /\ sha = 0 THEN FailNoCommit
    ELSE pc' = "synthesize" /\ UNCHANGED artifact

FinalProposal ==
    /\ pc = "propose"
    /\ Takes({"ok"})
    /\ LeaveLoop
    /\ UNCHANGED <<agent, call, spent, work, draft, faults>>

(* The budget is spent: first an audit log entry, which a session waiting  *)
(* for a rollback does not take.                                           *)
BudgetExhausted ==
    /\ pc = "propose"
    /\ llm.pc = "idle"
    /\ ~BudgetLeft
    /\ IF session = "ok" THEN LeaveLoop
       ELSE pc' = "failed" /\ UNCHANGED artifact
    /\ UNCHANGED <<agent, call, spent, work, draft, faults, llmVars>>

-----------------------------------------------------------------------------
(* A proposed call.                                                        *)
Proposes == pc = "propose" /\ Takes({"ok"})

(* The developer's single commit exists: it may not write or commit again. *)
PostCommit(tool) ==
    sha # 0 /\ tool \in {"filesystem.write_file", "git.commit"}

(* An unknown tool, invalid input or a call after the commit is refused    *)
(* without a tool_calls row; most agents log it, so that the session must  *)
(* take the log entry.                                                     *)
RefuseCall ==
    /\ Proposes
    /\ IF session = "ok" THEN pc' = pc /\ Charge("REJECTED")
       ELSE pc' = "failed" /\ spent' = spent
    /\ UNCHANGED <<agent, call, work, result, faults>>

(* The pipeline raises with its session waiting for a rollback.  Research  *)
(* rolls back, the developer goes on as it is; the others fail when they   *)
(* write to their audit log.                                               *)
PipelineRaises ==
    \/ /\ Profile.raised = "rolls_back"
       /\ session' = "ok"
       /\ Charge("REJECTED")
       /\ pc' = "propose"
    \/ /\ Profile.raised = "goes_on"
       /\ session' = "broken"
       /\ Charge("REJECTED")
       /\ pc' = "propose"
    \/ /\ Profile.raised = "audits"
       /\ session' = "broken"
       /\ pc' = "failed"
       /\ UNCHANGED spent

(* _record_denied: one DENIED row, and nothing is executed.                *)
DenyCall ==
    /\ Proposes
    /\ \E tool \in Tools : ~Allowed(tool) /\ ~PostCommit(tool)
    /\ \/ /\ session = "ok"
          /\ Charge("REJECTED")
          /\ UNCHANGED <<pc, session, faults>>
       \/ /\ session = "ok"
          /\ Fault("db_error")
          /\ PipelineRaises
       \/ /\ session = "broken"
          /\ PipelineRaises
          /\ UNCHANGED faults
    /\ UNCHANGED <<agent, call, tree, sha, ran, rows, result>>

(* On a session waiting for a rollback a tool finds no worktree and its    *)
(* row cannot be written.                                                  *)
CallOnBrokenSession ==
    /\ Proposes
    /\ session = "broken"
    /\ PipelineRaises
    /\ UNCHANGED <<agent, call, tree, sha, ran, rows, result, faults>>

(* Mutant: the developer may go on writing after its commit.               *)
AdmitAfterCommit(tool) ==
    /\ Proposes
    /\ session = "ok"
    /\ Allowed(tool)
    /\ call' = [tool |-> tool, outcome |-> "none"]
    /\ pc' = "execute"
    /\ UNCHANGED <<agent, spent, work, result, faults>>

AdmitCall(tool) ==
    /\ Proposes
    /\ session = "ok"
    /\ Allowed(tool)
    /\ ~PostCommit(tool)
    /\ call' = [tool |-> tool, outcome |-> "none"]
    /\ pc' = "execute"
    /\ UNCHANGED <<agent, spent, work, result, faults>>

(* What the tools of this loop do to the worktree and the fork.            *)
Effect(tool) ==
    /\ dirty' = IF tool = "filesystem.write_file" THEN TRUE
                ELSE IF tool = "git.commit" THEN FALSE ELSE dirty
    /\ head' = IF tool = "git.commit" THEN head + 1 ELSE head
    /\ pushed' = IF tool = "git.push" THEN head ELSE pushed

(* tool.execute: it returns, raises before it has done anything, or raises *)
(* after it.  A clean worktree has nothing to commit.                      *)
Execute ==
    /\ pc = "execute"
    /\ pc' = "record"
    /\ ran' = ran + 1
    /\ \E outcome \in Outcomes \ {"none"} :
          /\ call' = [call EXCEPT !.outcome = outcome]
          /\ IF outcome = "raised" THEN UNCHANGED tree
             ELSE /\ call.tool = "git.commit" => dirty
                  /\ Effect(call.tool)
          /\ IF outcome = "raised_after" /\ call.tool = "git.commit"
             THEN Fault("lost_ack") ELSE UNCHANGED faults
    /\ UNCHANGED <<agent, spent, sha, session, rows, result, llmVars>>

(* Mutant: a row that could not be written is given up at once.            *)
ForgetRow ==
    /\ pc = "record"
    /\ Fault("db_error")
    /\ pc' = "propose"
    /\ Charge("EXECUTED")
    /\ call' = NoToolCall
    /\ UNCHANGED <<agent, work, result, llmVars>>

(* _persist_audit: the row is committed.                                   *)
Record ==
    /\ pc = "record"
    /\ rows' = rows + 1
    /\ sha' = IF call = [tool |-> "git.commit", outcome |-> "returned"]
              THEN head ELSE sha
    /\ Charge("EXECUTED")
    /\ pc' = "propose"
    /\ call' = NoToolCall
    /\ UNCHANGED <<agent, tree, session, ran, result, faults, llmVars>>

RecordFails ==
    /\ pc = "record"
    /\ Fault("db_error")
    /\ pc' = "rerecord"
    /\ UNCHANGED <<agent, call, spent, work, result, llmVars>>

(* Mutant: the second attempt reports the call as it was.                  *)
RerecordAsExecuted ==
    /\ pc = "rerecord"
    /\ rows' = rows + 1
    /\ sha' = IF call.tool = "git.commit" THEN head ELSE sha
    /\ Charge("EXECUTED")
    /\ pc' = "propose"
    /\ call' = NoToolCall
    /\ UNCHANGED <<agent, tree, session, ran, result, faults, llmVars>>

(* ... rolled back and committed as FAILED, whatever the tool has done.    *)
Rerecord ==
    /\ pc = "rerecord"
    /\ rows' = rows + 1
    /\ Charge("EXECUTED")
    /\ pc' = "propose"
    /\ call' = NoToolCall
    /\ UNCHANGED <<agent, tree, sha, session, ran, result, faults,
                   llmVars>>

(* ... and refused again: there is no row, and the pipeline raises.        *)
RerecordFails ==
    /\ pc = "rerecord"
    /\ Fault("db_error")
    /\ PipelineRaises
    /\ call' = NoToolCall
    /\ UNCHANGED <<agent, tree, sha, ran, rows, result, llmVars>>

-----------------------------------------------------------------------------
(* The artifact: one attempt and one correction.                           *)
Synthesizes(outcomes) == pc = "synthesize" /\ Takes(outcomes)

(* The row is written, or the agent raises with its session.               *)
Persist(kind) ==
    IF session = "ok" THEN pc' = "done" /\ artifact' = kind
    ELSE pc' = "failed" /\ UNCHANGED artifact

Correct(kept) == draft' = [tries |-> draft.tries + 1, kept |-> kept]

(* The artifact passes its checks.                                         *)
Complete ==
    /\ Synthesizes({"ok"})
    /\ Persist("complete")
    /\ UNCHANGED <<agent, call, spent, work, draft, faults>>

(* Files that were never observed or written, deviations unexplained: the  *)
(* draft is kept.                                                          *)
Ungrounded ==
    /\ Synthesizes({"ok"})
    /\ Profile.second = "accepts"
    /\ Correct(TRUE)
    /\ UNCHANGED <<agent, pc, call, spent, work, artifact, faults>>

(* validate_plan_dag refuses the plan.                                     *)
InvalidPlan ==
    /\ Synthesizes({"ok"})
    /\ agent = "planner"
    /\ Correct(FALSE)
    /\ UNCHANGED <<agent, pc, call, spent, work, artifact, faults>>

MalformedArtifact ==
    /\ Synthesizes({"malformed"})
    /\ Correct(draft.kept)
    /\ UNCHANGED <<agent, pc, call, spent, work, artifact, faults>>

(* After the correction: a draft at hand is accepted with a warning, the   *)
(* planner leaves an INVALID row, and everything else is an error, the     *)
(* failed assertion that there is a draft among them.                      *)
GiveUp ==
    /\ pc = "synthesize"
    /\ draft.tries = 2
    /\ \/ /\ draft.kept
          /\ Persist("unverified")
       \/ /\ ~draft.kept
          /\ pc' = "failed"
          /\ artifact' = IF Profile.second = "invalid" THEN "invalid"
                         ELSE artifact
    /\ UNCHANGED <<agent, call, spent, work, draft, faults, llmVars>>

-----------------------------------------------------------------------------
(* What fails.                                                             *)

(* The row of the artifact, or a log entry, is refused: the agent raises.  *)
CommitFails ==
    /\ Fault("db_error")
    /\ \/ pc \in {"propose", "synthesize"} /\ Takes({"ok"})
       \/ /\ \/ pc = "propose" /\ ~BudgetLeft
             \/ pc = "synthesize" /\ draft.tries = 2
          /\ llm.pc = "idle"
          /\ UNCHANGED llmVars
    /\ pc' = "failed"
    /\ UNCHANGED <<agent, call, spent, work, result>>

Crash ==
    /\ Fault("crash")
    /\ pc \notin Ended
    /\ pc' = "dead"
    /\ UNCHANGED <<agent, call, spent, work, result, llmVars>>

Progress ==
    \/ Prompt \/ LLMStep
    \/ MalformedProposal \/ LLMFails \/ FinalProposal \/ BudgetExhausted
    \/ RefuseCall \/ DenyCall \/ CallOnBrokenSession
    \/ \E tool \in Tools : AdmitCall(tool)
    \/ Execute \/ Record \/ Rerecord
    \/ Complete \/ Ungrounded \/ InvalidPlan \/ MalformedArtifact \/ GiveUp

Next == Progress \/ RecordFails \/ RerecordFails \/ CommitFails \/ Crash

Spec == Init /\ [][Next]_vars

(* A live worker goes on with the run, and a provider answers or times out. *)
FairSpec == Spec /\ WF_vars(Progress)

-----------------------------------------------------------------------------
(* Properties.                                                             *)

(* The variables have their types, the request to the model among them.    *)
TypeOK ==
    /\ LLMTypeOK
    /\ agent \in Agents
    /\ pc \in Points
    /\ call \in [tool : Tools \cup {"none"}, outcome : Outcomes]
    /\ spent \in [executed : 0 .. MaxCalls, rejections : 0 .. MaxRejections]
    /\ head \in Nat
    /\ dirty \in BOOLEAN
    /\ pushed \in Nat
    /\ sha \in Nat
    /\ session \in {"ok", "broken"}
    /\ ran \in Nat
    /\ rows \in Nat
    /\ draft \in [tries : 0 .. 2, kept : BOOLEAN]
    /\ artifact \in Artifacts
    /\ faults \in 0 .. MaxFaults

(* Executed calls that have no tool_calls row, the one under way aside.    *)
Missing ==
    ran - rows - (IF pc \in {"record", "rerecord"} THEN 1 ELSE 0)

(* "Exactly one row per invocation" (execution/tool_pipeline.py): an       *)
(* executed call has its row, unless the database refused it twice or the  *)
(* process died between the execution and the row.                         *)
CallsAreRecorded ==
    /\ Missing >= 0
    /\ 2 * Missing <= faults + (IF pc = "dead" THEN 1 ELSE 0)

(* "Only executed tool calls count" (agents/_budget.py): the calls of a    *)
(* run never exceed its budget but for those without a row.                *)
CallsWithinBudget == ran - Missing <= MaxCalls

(* The agents that judge or look do not touch the worktree or the fork.    *)
ReadersOnlyRead ==
    agent # "developer" => head = 0 /\ pushed = 0

(* The commit a developer names is the head of its branch with nothing     *)
(* uncommitted beside it, it is the only one unless an earlier one was     *)
(* lost, and a completed run has one (agents/developer/agent.py: "commit   *)
(* ONCE").                                                                 *)
CommitIsTheChange ==
    /\ sha # 0 => sha = head /\ ~dirty
    /\ head > 1 => faults > 0
    /\ agent = "developer" /\ pc = "done" => sha # 0

(* A run ends; only a model whose proposals are malformed again and again  *)
(* keeps one of the agents with a ToolBudget in its loop.                  *)
ComesToEnd ==
    \/ <>(pc \in Ended)
    \/ []<>(/\ pc = "propose" /\ llm.result = "malformed"
            /\ Profile.budget = "calls")

(* What a run has left to do: turns and refusals, steps of the turn,       *)
(* attempts at the artifact, and of the request its steps, passes over the *)
(* chain, models and retries.                                              *)
TurnsLeft == (MaxCalls - spent.executed) + (MaxRejections - spent.rejections)
StepsLeft ==
    [propose |-> 5, execute |-> 4, record |-> 3, rerecord |-> 2,
     synthesize |-> 1, done |-> 0, failed |-> 0, dead |-> 0][pc]
AskingLeft == [idle |-> 2, asking |-> 1, ended |-> 0][llm.pc]
CorrectionsLeft == 2 - draft.tries
PassesLeft == MaxRetries - llm.pass
ModelsLeft == chain + 1 - llm.model
RetriesLeft == MaxRetries - llm.attempt
ToDo ==
    <<TurnsLeft, StepsLeft, CorrectionsLeft, AskingLeft, PassesLeft,
      ModelsLeft, RetriesLeft>>

(* Every step of a run leaves less to do, whatever the models say and the  *)
(* database refuses: "bounded by the budget" (agents/researcher/agent.py). *)
(* The one exception is a malformed proposal to one of the agents with a   *)
(* ToolBudget, which does not count it.                                    *)
NearsItsEnd ==
    [][\/ Below(7, ToDo', ToDo)
       \/ MalformedProposal /\ Profile.budget = "calls"]_vars

(* Where ReviewGate sees the run of a planner, researcher or developer.    *)
GateStatus ==
    CASE agent = "planner"  -> "PLANNING"
      [] agent = "research" -> "RESEARCHING"
      [] agent = "developer" -> "IMPLEMENTING"
      [] OTHER              -> "NONE"
GateVerdict ==
    IF pc = "failed" THEN "FAILED"
    ELSE CASE agent = "planner"  -> "RESEARCHING"
           [] agent = "research" -> "IMPLEMENTING"
           [] OTHER              -> "TESTING"

(* Commits of the run that it has not been told of yet, or never was.      *)
Pending == call.tool = "git.commit" /\ call.outcome \in {"returned", "raised_after"}
Lost == head - (IF sha # 0 \/ Pending THEN 1 ELSE 0)

(* Its slot, its summary row, and the faults ReviewGate has to account for. *)
GateSlot ==
    IF pc = "dead"
    THEN [pc |-> "idle", at |-> "NONE", sha |-> 0, choice |-> "NONE"]
    ELSE [pc |-> IF pc \in {"done", "failed"} THEN "apply"
                 ELSE IF Pending THEN "made" ELSE "work",
          at |-> GateStatus, sha |-> sha,
          choice |-> IF pc \in {"done", "failed"} THEN GateVerdict ELSE "NONE"]
GateSummary ==
    [exists |-> artifact # "none" /\ agent = "developer",
     commit |-> IF artifact \in {"complete", "unverified"} THEN sha ELSE 0]
GateFaults == Lost + (IF pc = "dead" THEN 1 ELSE 0)

Gate == INSTANCE ReviewGate WITH
    Workers <- {"run"}, MaxReplans <- 0,
    MaxCommits <- MaxCalls + MaxRejections,
    MaxFaults <- MaxCalls + MaxRejections + 1,
    Faults <- {"crash", "lost_ack"},
    status <- GateStatus, replans <- 0, developed <- 0, asked <- "NONE",
    run <- [exists |-> FALSE, result |-> "failed", commit |-> 0],
    approved <- {}, scanned <- {}, guidance <- {},
    summary <- GateSummary, wk <- [w \in {"run"} |-> GateSlot],
    faults <- GateFaults

(* A run of these three agents is what ReviewGate takes it for: the same   *)
(* commits, the same pushes, the same summary row, the same verdict.       *)
ImplementsGate ==
    [][(GateStatus # "NONE") => Gate!Next]_(Gate!vars)
=============================================================================
