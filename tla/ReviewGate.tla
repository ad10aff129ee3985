----------------------------- MODULE ReviewGate -----------------------------
(***************************************************************************)
(* Which commit the human is given.  The developer, tester, debugger,      *)
(* reviewer, security and GitHub agents of one task work on one worktree   *)
(* branch and tell each other about it through rows: each gate reads the   *)
(* latest row of the one before it and the branch as it finds it.  The     *)
(* status row and its compare-and-swap are those of TaskLifecycle; jobs,   *)
(* the deadline and the human's decisions are left to that module, so here *)
(* any free slot may take the task (TaskLifecycle shows how two jobs come  *)
(* to work on one status).                                                 *)
(*                                                                         *)
(* A commit is its number on the branch; 0 is the base, and a summary's    *)
(* missing commit_sha.                                                     *)
(***************************************************************************)
EXTENDS TaskStates, Ranks

CONSTANTS
    Workers,       \* job slots that may work on the task at the same time
    MaxReplans,    \* tasks.max_replans
    MaxCommits,    \* bound: commits on the branch
    Faults,        \* which of AllFaults may happen
    MaxFaults      \* bound: how many of them hit one behaviour

AllFaults ==
    {"crash",         \* a worker process dies; its job is run again
     "lost_ack",      \* git.commit ran, but the call is reported as FAILED
     "overtaken",     \* another job's deadline marks the task FAILED
     "claims_flaky"}  \* the model calls a failure flaky

ASSUME GateAssumption ==
    /\ MaxReplans \in Nat
    /\ MaxCommits \in Nat
    /\ MaxFaults \in Nat
    /\ Faults \subseteq AllFaults

VARIABLES
    status,      \* tasks.status
    replans,     \* tasks.replan_count
    head,        \* HEAD of the worktree branch
    dirty,       \* uncommitted writes lie in the worktree
    summary,     \* the latest implementation_summaries row
    run,         \* the latest test_runs row, and the commit it ran on
    approved,    \* commits with an APPROVE in review_results
    scanned,     \* commits with a PASS in security_results
    guidance,    \* the order "at least as new as" of the fix instructions
    pushed,      \* the branch on the fork
    wk,          \* what each slot is doing
    faults,      \* how many faults have happened
    developed,   \* history: how often the task entered IMPLEMENTING
    asked        \* history: the status that last replanned to IMPLEMENTING

tree == <<head, dirty>>
rows == <<summary, run, approved, scanned, guidance>>
vars == <<status, replans, tree, rows, pushed, wk, faults, developed, asked>>

Commits == 0 .. MaxCommits
Results == {"passed", "failed"}   \* "error" goes the way of "failed"
ReplanSources == {"DEBUGGING", "REVIEWING", "SECURITY_REVIEW"}

(* pc of a slot:                                                           *)
(*   work    the agent of status "at" is running                           *)
(*   made    developer: git commit is done, its sha not yet read           *)
(*   rerun   debugger: the suite has been run once more                    *)
(*   classify  debugger: it failed again, the model is asked               *)
(*   pushed  GitHub agent: the branch is on the fork                       *)
(*   apply   agent done; "choice" is the status its handler decided on     *)
(* sha is the commit the agent works on: the developer's own once it knows *)
(* it, the reviewer's and the security agent's from the summary they read. *)
Slot == [pc : {"idle", "work", "made", "rerun", "classify", "pushed",
               "apply"},
         at : AgentStatus \cup {NoStatus}, sha : Commits,
         choice : TaskStatus \cup {NoStatus}]

IdleSlot == [pc |-> "idle", at |-> NoStatus, sha |-> 0,
             choice |-> NoStatus]

Init ==
    /\ status = "CREATED"
    /\ replans = 0
    /\ head = 0
    /\ dirty = FALSE
    /\ summary = [exists |-> FALSE, commit |-> 0]
    /\ run = [exists |-> FALSE, result |-> "failed", commit |-> 0]
    /\ approved = {}
    /\ scanned = {}
    /\ guidance = {}
    /\ pushed = 0
    /\ wk = [w \in Workers |-> IdleSlot]
    /\ faults = 0
    /\ developed = 0
    /\ asked = NoStatus

-----------------------------------------------------------------------------
(* The row.                                                                *)

(* transition_task, as far as it matters here.  charged is what the caller *)
(* itself adds to replan_count.                                            *)
TransitionTask(target, charged) ==
    /\ status' = target
    /\ replans' = replans + charged + (IF target = "REPLANNING" THEN 1 ELSE 0)
    /\ developed' = developed + (IF target = "IMPLEMENTING" THEN 1 ELSE 0)
    /\ asked' = IF target # "IMPLEMENTING" THEN asked
                ELSE IF IsReplan(status, target) THEN status ELSE NoStatus

Fault(kind) ==
    /\ kind \in Faults
    /\ faults < MaxFaults
    /\ faults' = faults + 1

Working(w, at) == wk[w].pc = "work" /\ wk[w].at = at

(* The agent is done and its handler has decided.                          *)
Decide(w, target) ==
    wk' = [wk EXCEPT ![w].pc = "apply", ![w].choice = target]

(* The latest row of a replan source carries a fix instruction or not; the *)
(* sources whose latest row does are ordered by the age of that row.       *)
Asking == {s \in ReplanSources : <<s, s>> \in guidance}
Without(source) == {p \in guidance : source \notin {p[1], p[2]}}
AskForChanges(source) ==
    guidance' = Without(source) \cup ({source} \X (Asking \cup {source}))
AskForNothing(source) == guidance' = Without(source)

(* Mutant: the oldest of the instructions is picked.                       *)
EarliestFixInstruction ==
    {s \in Asking : \A t \in Asking : <<t, s>> \in guidance}

(* _latest_fix_instruction: whose instruction the developer is given.      *)
LatestFixInstruction ==
    {s \in Asking : \A t \in Asking : <<s, t>> \in guidance}

-----------------------------------------------------------------------------
(* Taking and leaving the task.                                            *)

(* The states the driver moves without an agent.                           *)
AdvanceOnce(w) ==
    /\ wk[w].pc = "idle"
    /\ status \in {"CREATED", "FAILED", "RECOVERING", "REPLANNING"}
    /\ \E target \in NextStatus(status, replans, MaxReplans, "worker") :
          TransitionTask(target, 0)
    /\ UNCHANGED <<tree, rows, pushed, wk, faults>>

(* Reviewer and security agent need a summary with a commit, the reviewer  *)
(* and the debugger a test run, the debugger any summary.                  *)
HasEvidence(at) ==
    /\ at \in {"REVIEWING", "SECURITY_REVIEW"} => summary.commit # 0
    /\ at \in {"REVIEWING", "DEBUGGING"} => run.exists
    /\ at = "DEBUGGING" => summary.exists

(* advance_task_with_agents: a handler starts and reads what its agent is  *)
(* to work on, or decides on FAILED when there is nothing.                 *)
Load(w) ==
    /\ wk[w].pc = "idle"
    /\ status \in AgentStatus \ {"VERIFICATION"}
    /\ wk' = [wk EXCEPT ![w] =
          [pc |-> IF HasEvidence(status) THEN "work" ELSE "apply",
           at |-> status,
           sha |-> IF status \in {"REVIEWING", "SECURITY_REVIEW"}
                   THEN summary.commit ELSE 0,
           choice |-> IF HasEvidence(status) THEN NoStatus ELSE "FAILED"]]
    /\ UNCHANGED <<status, replans, tree, rows, pushed, faults, developed, asked>>

(* Mutant: the decision is written whatever the status has become.         *)
ApplyWithoutCompare(w) ==
    /\ wk[w].pc = "apply"
    /\ TransitionTask(wk[w].choice,
          IF IsReplan(wk[w].at, wk[w].choice) THEN 1 ELSE 0)
    /\ wk' = [wk EXCEPT ![w] = IdleSlot]
    /\ UNCHANGED <<tree, rows, pushed, faults>>

(* _cas_transition and _replan_to_implementing.                            *)
Apply(w) ==
    /\ wk[w].pc = "apply"
    /\ \/ /\ status # wk[w].at
          /\ UNCHANGED <<status, replans, developed, asked>>
       \/ /\ status = wk[w].at
          /\ ~IsReplan(status, wk[w].choice)
          /\ TransitionTask(wk[w].choice, 0)
       \/ /\ status = wk[w].at
          /\ IsReplan(status, wk[w].choice)
          /\ replans < MaxReplans
          /\ TransitionTask("IMPLEMENTING", 1)
       \/ /\ status = wk[w].at
          /\ IsReplan(status, wk[w].choice)
          /\ replans >= MaxReplans
          /\ TransitionTask("ESCALATED", 0)
    /\ wk' = [wk EXCEPT ![w] = IdleSlot]
    /\ UNCHANGED <<tree, rows, pushed, faults>>

(* The agent raises, or the tester's install step fails: every handler     *)
(* decides on FAILED; what the agent did to the worktree stays there, as   *)
(* it does after every other end of a run: nobody cleans up.               *)
AgentFails(w) ==
    /\ wk[w].pc \in {"work", "rerun", "classify", "pushed"}
    /\ Decide(w, "FAILED")
    /\ UNCHANGED <<status, replans, tree, rows, pushed, faults, developed, asked>>

(* The process dies; arq runs the job again, as a new Load.                *)
Crash(w) ==
    /\ Fault("crash")
    /\ wk[w].pc # "idle"
    /\ wk' = [wk EXCEPT ![w] = IdleSlot]
    /\ UNCHANGED <<status, replans, tree, rows, pushed, developed, asked>>

(* _mark_job_timeout_failure of another job (TaskLifecycle, MarkWrite): the *)
(* task is FAILED under the agents at work.                                *)
MarkFailed ==
    /\ Fault("overtaken")
    /\ status \notin TerminalStates \cup {"FAILED"}
    /\ TransitionTask("FAILED", 0)
    /\ UNCHANGED <<tree, rows, pushed, wk>>

(* Planner and researcher do not touch the branch.                         *)
PlanOrResearch(w) ==
    /\ \/ Working(w, "PLANNING") /\ Decide(w, "RESEARCHING")
       \/ Working(w, "RESEARCHING") /\ Decide(w, "IMPLEMENTING")
    /\ UNCHANGED <<status, replans, tree, rows, pushed, faults, developed, asked>>

-----------------------------------------------------------------------------
(* The developer.                                                          *)

(* filesystem.write_file, denied once the run knows of its commit.         *)
WriteFile(w) ==
    /\ Working(w, "IMPLEMENTING")
    /\ wk[w].sha = 0
    /\ dirty' = TRUE
    /\ UNCHANGED <<status, replans, head, rows, pushed, wk, faults, developed,
                   asked>>

(* git.commit: everything in the worktree goes into one commit; refused on *)
(* a clean worktree and once the run knows of its commit.                  *)
Commit(w) ==
    /\ Working(w, "IMPLEMENTING")
    /\ wk[w].sha = 0
    /\ dirty
    /\ head < MaxCommits
    /\ head' = head + 1
    /\ dirty' = FALSE
    /\ wk' = [wk EXCEPT ![w].pc = "made"]
    /\ UNCHANGED <<status, replans, rows, pushed, faults, developed, asked>>

(* git.push is git.write as well, so the developer may propose it.         *)
DeveloperPush(w) ==
    /\ Working(w, "IMPLEMENTING")
    /\ pushed' = head
    /\ UNCHANGED <<status, replans, tree, rows, wk, faults, developed, asked>>

(* Mutant: the sha is read before the commit.                              *)
ReadShaTooEarly(w) ==
    /\ wk[w].pc = "made"
    /\ wk' = [wk EXCEPT ![w].pc = "work", ![w].sha = head - 1]
    /\ UNCHANGED <<status, replans, tree, rows, pushed, faults, developed, asked>>

(* ... then rev-parse HEAD names it, and the audit row records it.         *)
ReadSha(w) ==
    /\ wk[w].pc = "made"
    /\ wk' = [wk EXCEPT ![w].pc = "work", ![w].sha = head]
    /\ UNCHANGED <<status, replans, tree, rows, pushed, faults, developed, asked>>

(* rev-parse or the audit row fails: the call is FAILED to the run, which  *)
(* goes on as if there were no commit.                                     *)
LoseAck(w) ==
    /\ Fault("lost_ack")
    /\ wk[w].pc = "made"
    /\ wk' = [wk EXCEPT ![w].pc = "work"]
    /\ UNCHANGED <<status, replans, tree, rows, pushed, developed, asked>>

(* Mutant: a final answer without a commit is taken as a success.          *)
FinalWithoutCommit(w) ==
    /\ Working(w, "IMPLEMENTING")
    /\ wk[w].sha = 0
    /\ summary' = [exists |-> TRUE, commit |-> 0]
    /\ Decide(w, "TESTING")
    /\ UNCHANGED <<status, replans, tree, run, approved, scanned, guidance,
                   pushed, faults, developed, asked>>

(* _fail_no_commit: final answer or empty budget without a known commit.   *)
FailNoCommit(w) ==
    /\ Working(w, "IMPLEMENTING")
    /\ wk[w].sha = 0
    /\ summary' = [exists |-> TRUE, commit |-> 0]
    /\ Decide(w, "FAILED")
    /\ UNCHANGED <<status, replans, tree, run, approved, scanned, guidance,
                   pushed, faults, developed, asked>>

(* _synthesize and _persist.                                               *)
Synthesize(w) ==
    /\ Working(w, "IMPLEMENTING")
    /\ wk[w].sha # 0
    /\ summary' = [exists |-> TRUE, commit |-> wk[w].sha]
    /\ Decide(w, "TESTING")
    /\ UNCHANGED <<status, replans, tree, run, approved, scanned, guidance,
                   pushed, faults, developed, asked>>

-----------------------------------------------------------------------------
(* Tester and debugger.                                                    *)

(* One run of the suite on the worktree; its row does not name a commit.   *)
NewRun(result) ==
    run' = [exists |-> TRUE, result |-> result, commit |-> head]

(* Mutant: a failed run goes on to the reviewer.                           *)
ReviewAnyRun(w) ==
    /\ Working(w, "TESTING")
    /\ \E result \in Results : NewRun(result)
    /\ Decide(w, "REVIEWING")
    /\ UNCHANGED <<status, replans, tree, summary, approved, scanned, guidance,
                   pushed, faults, developed, asked>>

(* The suite decides between the reviewer and the debugger.                *)
RunTests(w) ==
    /\ Working(w, "TESTING")
    /\ \E result \in Results :
          /\ NewRun(result)
          /\ Decide(w, IF result = "passed" THEN "REVIEWING" ELSE "DEBUGGING")
    /\ UNCHANGED <<status, replans, tree, summary, approved, scanned, guidance,
                   pushed, faults, developed, asked>>

(* _rerun_for_flakiness: one more run through the tester.  When its install *)
(* step fails there is no new row and the latest one is taken for the      *)
(* re-run's; when the tester raises the model is asked at once.            *)
Rerun(w) ==
    /\ Working(w, "DEBUGGING")
    /\ \/ /\ (\E result \in Results : NewRun(result)) \/ run' = run
          /\ wk' = [wk EXCEPT ![w].pc = "rerun"]
       \/ /\ run' = run
          /\ wk' = [wk EXCEPT ![w].pc = "classify"]
    /\ UNCHANGED <<status, replans, tree, summary, approved, scanned, guidance,
                   pushed, faults, developed, asked>>

(* Mutant: a flaky failure sends the task back to the tester.              *)
FlakyToTesting(w) ==
    /\ wk[w].pc = "rerun"
    /\ run.result = "passed"
    /\ AskForNothing("DEBUGGING")
    /\ Decide(w, "TESTING")
    /\ UNCHANGED <<status, replans, tree, summary, run, approved, scanned,
                   pushed, faults, developed, asked>>

(* The re-run, or what is taken for it, passed: flaky, without the model.  *)
FindFlaky(w) ==
    /\ wk[w].pc = "rerun"
    /\ run.result = "passed"
    /\ AskForNothing("DEBUGGING")
    /\ Decide(w, "REVIEWING")
    /\ UNCHANGED <<status, replans, tree, summary, run, approved, scanned,
                   pushed, faults, developed, asked>>

FindFailing(w) ==
    /\ wk[w].pc = "rerun"
    /\ run.result # "passed"
    /\ wk' = [wk EXCEPT ![w].pc = "classify"]
    /\ UNCHANGED <<status, replans, tree, rows, pushed, faults, developed, asked>>

(* Otherwise the classification of the failed run is the model's answer,   *)
(* which the schema allows to be FLAKY_TEST as well.  An instruction it    *)
(* must give only when it says the failure is fixable.                     *)
Classify(w) ==
    /\ wk[w].pc = "classify"
    /\ \/ /\ AskForChanges("DEBUGGING")
          /\ Decide(w, "IMPLEMENTING")
          /\ UNCHANGED faults
       \/ /\ AskForChanges("DEBUGGING") \/ AskForNothing("DEBUGGING")
          /\ Decide(w, "FAILED")
          /\ UNCHANGED faults
       \/ /\ Fault("claims_flaky")
          /\ AskForChanges("DEBUGGING") \/ AskForNothing("DEBUGGING")
          /\ Decide(w, "REVIEWING")
    /\ UNCHANGED <<status, replans, tree, summary, run, approved, scanned,
                   pushed, developed, asked>>

-----------------------------------------------------------------------------
(* Reviewer, security agent, verification, GitHub agent.                   *)

(* APPROVE, or REQUEST_CHANGES and REJECT alike, of the commit under review *)
Review(w) ==
    /\ Working(w, "REVIEWING")
    /\ \/ /\ approved' = approved \cup {wk[w].sha}
          /\ AskForNothing("REVIEWING")
          /\ Decide(w, "SECURITY_REVIEW")
       \/ /\ approved' = approved
          /\ AskForChanges("REVIEWING")
          /\ Decide(w, "IMPLEMENTING")
    /\ UNCHANGED <<status, replans, tree, summary, run, scanned, pushed,
                   faults, developed, asked>>

(* PASS or FAIL of the commit under review.                                *)
SecurityScan(w) ==
    /\ Working(w, "SECURITY_REVIEW")
    /\ \/ /\ scanned' = scanned \cup {wk[w].sha}
          /\ AskForNothing("SECURITY_REVIEW")
          /\ Decide(w, "VERIFICATION")
       \/ /\ scanned' = scanned
          /\ AskForChanges("SECURITY_REVIEW")
          /\ Decide(w, "IMPLEMENTING")
    /\ UNCHANGED <<status, replans, tree, summary, run, approved, pushed,
                   faults, developed, asked>>

(* _run_verification has no agent: it decides as soon as it is started.    *)
DecideAtOnce(w, target) ==
    wk' = [wk EXCEPT ![w] = [pc |-> "apply", at |-> "VERIFICATION", sha |-> 0,
                             choice |-> target]]

(* Mutant: verification does not look at the last test run.                *)
VerifyHeadOnly(w) ==
    /\ wk[w].pc = "idle"
    /\ status = "VERIFICATION"
    /\ DecideAtOnce(w,
          IF summary.commit = 0 THEN "FAILED"
          ELSE IF head # summary.commit THEN "TESTING" ELSE "PR_CREATION")
    /\ UNCHANGED <<status, replans, tree, rows, pushed, faults, developed, asked>>

(* _run_verification.  The row is locked while the rows and, as the last   *)
(* thing, HEAD are read; Apply's compare-and-swap gives the lock up first. *)
Verify(w) ==
    /\ wk[w].pc = "idle"
    /\ status = "VERIFICATION"
    /\ DecideAtOnce(w,
          IF summary.commit = 0 THEN "FAILED"
          ELSE IF run.result = "passed" /\ head = summary.commit
               THEN "PR_CREATION" ELSE "TESTING")
    /\ UNCHANGED <<status, replans, tree, rows, pushed, faults, developed, asked>>

(* git.push: whatever HEAD is by now.                                      *)
Push(w) ==
    /\ Working(w, "PR_CREATION")
    /\ pushed' = head
    /\ wk' = [wk EXCEPT ![w].pc = "pushed"]
    /\ UNCHANGED <<status, replans, tree, rows, faults, developed, asked>>

(* create_pr, comment, PR row.                                             *)
OpenPR(w) ==
    /\ wk[w].pc = "pushed"
    /\ Decide(w, "AWAITING_APPROVAL")
    /\ UNCHANGED <<status, replans, tree, rows, pushed, faults, developed, asked>>

-----------------------------------------------------------------------------
(* What an agent does of its own choice, what ends its turn, what fails.   *)
AgentChoice(w) == WriteFile(w) \/ Commit(w) \/ DeveloperPush(w)

Progress(w) ==
    \/ AdvanceOnce(w) \/ Load(w) \/ Apply(w)
    \/ PlanOrResearch(w)
    \/ ReadSha(w) \/ FailNoCommit(w) \/ Synthesize(w)
    \/ RunTests(w)
    \/ Rerun(w) \/ FindFlaky(w) \/ FindFailing(w) \/ Classify(w)
    \/ Review(w) \/ SecurityScan(w) \/ Verify(w)
    \/ Push(w) \/ OpenPR(w)

WorkerFault(w) == AgentFails(w) \/ LoseAck(w) \/ Crash(w)

Next ==
    \/ \E w \in Workers : AgentChoice(w) \/ Progress(w) \/ WorkerFault(w)
    \/ MarkFailed

Spec == Init /\ [][Next]_vars

(* A live worker keeps taking steps; no agent has to write or commit.      *)
FairSpec == Spec /\ \A w \in Workers : WF_vars(Progress(w))

-----------------------------------------------------------------------------
(* Properties.                                                             *)

(* The slots are typed, a step of an agent is one of the agent at work,    *)
(* and a handler only decides on a status its own state may go to.         *)
SlotsOK ==
    /\ wk \in [Workers -> Slot]
    /\ \A w \in Workers :
          /\ wk[w].pc # "idle" => wk[w].at \in AgentStatus
          /\ wk[w].at = "VERIFICATION" => wk[w].pc = "apply"
          /\ wk[w].pc = "made" => wk[w].at = "IMPLEMENTING"
          /\ wk[w].pc \in {"rerun", "classify"} => wk[w].at = "DEBUGGING"
          /\ wk[w].pc = "pushed" => wk[w].at = "PR_CREATION"
          /\ wk[w].pc = "apply" => <<wk[w].at, wk[w].choice>> \in Verdicts

(* The variables have their types, the slots as above.                     *)
TypeOK ==
    /\ status \in TaskStatus
    /\ replans \in Nat
    /\ head \in Commits
    /\ dirty \in BOOLEAN
    /\ summary \in [exists : BOOLEAN, commit : Commits]
    /\ run \in [exists : BOOLEAN, result : Results, commit : Commits]
    /\ approved \subseteq Commits
    /\ scanned \subseteq Commits
    /\ guidance \subseteq ReplanSources \X ReplanSources
    /\ pushed \in Commits
    /\ SlotsOK
    /\ faults \in 0 .. MaxFaults
    /\ developed \in Nat
    /\ asked \in ReplanSources \cup {NoStatus}

(* Once the developer has handed over, the commit its summary names is the *)
(* head of the branch, and nothing uncommitted lies beside it: the tests,  *)
(* the review and the scan are all about the commit that will be pushed.   *)
HandedOver ==
    {"TESTING", "DEBUGGING", "REVIEWING", "SECURITY_REVIEW", "VERIFICATION",
     "PR_CREATION", "AWAITING_APPROVAL"}
OneCommitInHand ==
    status \in HandedOver =>
       summary.commit = head /\ head # 0 /\ ~dirty

(* What reaches the human has passed every gate: the head of the branch    *)
(* passed the tests, was approved and was scanned (README.md, "the         *)
(* reviewed commit must still be worktree HEAD with a passing test run"),  *)
(* and it is what was pushed.                                              *)
ReleaseGate ==
    /\ status \in {"PR_CREATION", "AWAITING_APPROVAL"} =>
          /\ head \in approved \cap scanned
          /\ run.result = "passed" /\ run.commit = head
    /\ status = "AWAITING_APPROVAL" => pushed = head

(* A developer sent back by a gate is given that gate's instruction, not   *)
(* an older one of another gate (task_lifecycle.py,                        *)
(* _latest_fix_instruction).                                               *)
FixAnswersReplan ==
    status = "IMPLEMENTING" /\ asked # NoStatus =>
       LatestFixInstruction = {asked}

(* The gates move the row as the abstract machine allows.                  *)
Machine == INSTANCE TaskMachine WITH cancelled <- FALSE
ImplementsMachine == Machine!Spec

(* The task ends, escalates or waits for its human.                        *)
ComesToRest == <>(status \in TerminalStates \cup {"AWAITING_APPROVAL"})

(* What a task has left to do: faults that may still hit it, replans,      *)
(* statuses on the way to its end, steps of the agent at work.  A failed   *)
(* suite that the model has called flaky costs one more round through the  *)
(* gates; an agent whose task was failed under it has its verdict refused  *)
(* before anything else happens.                                           *)
MustReturn(w) ==
    /\ run.result # "passed"
    /\ \/ status \in {"REVIEWING", "SECURITY_REVIEW", "VERIFICATION"}
       \/ /\ status = "DEBUGGING"
          /\ wk[w].pc = "apply" /\ wk[w].choice = "REVIEWING"
StepsLeft(w) ==
    CASE wk[w].pc = "idle" -> 6
      [] wk[w].pc = "work" ->
            IF wk[w].at = "IMPLEMENTING" /\ wk[w].sha # 0 THEN 3 ELSE 5
      [] wk[w].pc = "made" -> 4
      [] wk[w].pc = "rerun" -> 3
      [] wk[w].pc \in {"classify", "pushed"} -> 2
      [] wk[w].pc = "apply" -> 1
Refused(w) == wk[w].pc # "idle" /\ wk[w].at # status
WayLeft(w) == Way[status] + (IF MustReturn(w) THEN 5 ELSE 0)
TurnLeft(w) == StepsLeft(w) + (IF Refused(w) THEN 6 ELSE 0)
ToDo(w) ==
    <<MaxFaults - faults,
      MaxReplans + 1 + faults - replans,
      WayLeft(w),
      TurnLeft(w)>>

(* With one slot every step leaves the task less to do, whatever the gates *)
(* say: replans, recoveries and the way back from VERIFICATION to TESTING  *)
(* draw on bounded accounts.  Only the developer's writes and pushes are   *)
(* free; its tool budget (ToolLoop) bounds those.                          *)
NearsItsEnd ==
    [][\A w \in Workers :
          \/ Below(4, ToDo(w)', ToDo(w))
          \/ (WriteFile(w) \/ DeveloperPush(w)) /\ ToDo(w)' = ToDo(w)]_vars

(* A task goes to PR_CREATION only when the head of its branch is the      *)
(* commit that was reviewed: a commit that lands after the review makes it *)
(* stale, "never silently carried forward" (tests/test_lifecycle_phase9.py, *)
(* test_verification_catches_stale_commit).                                *)
ReviewedIsHead ==
    [][status' = "PR_CREATION" /\ status # "PR_CREATION" =>
          head \in approved \cap scanned]_vars

(* No commit is offered that was never under review: "the single commit     *)
(* provably represents the full change" and gives "a Reviewer one          *)
(* unambiguous commit to diff" (agents/developer/agent.py).                *)
UnderReview(commit) ==
    \E w \in Workers : Working(w, "REVIEWING") /\ wk[w].sha = commit
EveryCommitIsReviewed ==
    \A commit \in 1 .. MaxCommits :
       [](~UnderReview(commit)) => [](status = "PR_CREATION" => head < commit)

(* A stale review is overcome: VERIFICATION goes "back to TESTING (re-run   *)
(* the current state)" (task_lifecycle.py, _run_verification) so that what *)
(* is on the branch gets reviewed, or the task leaves the gates.           *)
StaleIsOvercome ==
    status = "VERIFICATION" /\ head # summary.commit
       ~> head = summary.commit \/ status \notin HandedOver
=============================================================================
