---------------------------- MODULE PullRequests ----------------------------
(***************************************************************************)
(* From the verified commit to its merge.  The GitHub agent force-pushes   *)
(* the task's branch to the fork, opens a pull request or adopts the one   *)
(* that is open, and persists its row; the human decides; an operator      *)
(* asks for the merge.  GitHub keeps its own state, which the runtime      *)
(* learns only through calls whose answers may be lost.                    *)
(*                                                                         *)
(* The stages between FAILED and PR_CREATION are TaskLifecycle's and       *)
(* ReviewGate's: here Resume stands for them, and each round brings a new  *)
(* verified commit.  What those stages may leave behind is here as well: a *)
(* push that nobody waits for any more, and a duplicate developer that     *)
(* goes on.  Commits, bases and pull requests are numbered.                *)
(***************************************************************************)
EXTENDS Integers, Sequences, TaskStates

CONSTANTS
    Workers,       \* job slots that may run the GitHub agent at the same time
    Free, Merger,  \* the row lock: held by nobody, by the merge endpoint
    MaxRetries,    \* GitHubClient.max_retries
    MaxCommits,    \* bound: commits on the task's branch
    MaxDrift,      \* bound: commits of others on the fork's default branch
    Faults,        \* which of AllFaults may happen
    MaxFaults      \* bound: how many of them hit one behaviour

AllFaults ==
    {"crash",       \* the worker's process or the API's dies
     "db_error",    \* a commit fails, a lock timeout included
     "late_commit", \* a duplicate developer is still at work: ReviewGate
     "push_fails",  \* git push is reported as failed
     "no_answer",   \* GitHub has acted or not, the caller does not learn it
     "deadline"}    \* the job's deadline: TaskLifecycle

ASSUME PullRequestsAssumption ==
    /\ MaxRetries \in Nat
    /\ MaxCommits \in Nat \ {0}
    /\ MaxDrift \in Nat
    /\ MaxFaults \in Nat
    /\ Faults \subseteq AllFaults
    /\ Free # Merger /\ Free \notin Workers /\ Merger \notin Workers

VARIABLES
    status,     \* tasks.status
    stopped,    \* the latest event is the user's cancellation
    decision,   \* the latest approvals row
    row,        \* the latest pull_requests row
    lock,       \* who holds the task row FOR UPDATE
    wk,         \* what each slot's GitHub agent is doing
    merge,      \* the merge request under way
    ended,      \* the slots whose job arq has ended on a database error
    stray,      \* the commits of pushes that nobody waits for
    fork,       \* GitHub: the commit the task's branch is at
    base,       \* GitHub: the head of the fork's default branch
    prs,        \* GitHub: the pull requests of the branch, by number
    faults,     \* how many faults have happened
    head,       \* HEAD of the worktree
    round,      \* the commit that VERIFICATION has let pass
    strayed,    \* history: a stray push has moved the branch since its own
                \* push or, if that is later, the human's approval
    reviewed,   \* history: the commit of the latest approval
    failures,   \* history: how often PR_CREATION ended in FAILED
    landed      \* history: the merges, oldest first

task == <<status, stopped, decision, head, round, ended>>
github == <<fork, base, prs, stray>>
history == <<reviewed, failures, landed, strayed>>
vars == <<task, row, lock, wk, merge, github, faults, history>>

Commits == 0 .. MaxCommits
PR == [open : BOOLEAN, merged : BOOLEAN]
Row == [number : Nat, base : Nat, merged : BOOLEAN]

(* pc of a slot: the next thing its agent does.  number and base are what  *)
(* GitHub answered.                                                        *)
Slot == [pc : {"idle", "push", "find", "post", "persist", "offer", "fail"},
         tries : 0 .. MaxRetries, number : Nat, base : Nat]
IdleSlot == [pc |-> "idle", tries |-> 0, number |-> 0, base |-> 0]
Merge == [pc : {"idle", "fetch", "put", "record"}, tries : 0 .. MaxRetries]
NoMerge == [pc |-> "idle", tries |-> 0]

Init ==
    /\ status = "PR_CREATION"
    /\ stopped = FALSE
    /\ decision = "none"
    /\ row = [number |-> 0, base |-> 0, merged |-> FALSE]
    /\ lock = Free
    /\ wk = [w \in Workers |-> IdleSlot]
    /\ merge = NoMerge
    /\ fork = 0
    /\ base = 0
    /\ prs = <<>>
    /\ faults = 0
    /\ head = 1
    /\ round = 1
    /\ ended = {}
    /\ stray = {}
    /\ strayed = FALSE
    /\ reviewed = 0
    /\ failures = 0
    /\ landed = <<>>

-----------------------------------------------------------------------------
Fault(kind) ==
    /\ kind \in Faults
    /\ faults < MaxFaults
    /\ faults' = faults + 1

Goto(w, pc) == wk' = [wk EXCEPT ![w].pc = pc, ![w].tries = 0]
Keep(w, number, b) ==
    wk' = [wk EXCEPT ![w].pc = "persist", ![w].tries = 0,
                     ![w].number = number, ![w].base = b]

(* Mutant: the retries are counted from the first repetition.              *)
RetryOnceMore(tries) == tries <= MaxRetries

(* _request: whether a transient failure is answered by another attempt.   *)
Retries(tries) == tries < MaxRetries

(* The agent's call brings no usable answer: it is repeated while there    *)
(* are retries left, or fails, as it does at once for a permanent error.   *)
NoAnswer(w) ==
    /\ Fault("no_answer")
    /\ \/ Retries(wk[w].tries) /\ wk' = [wk EXCEPT ![w].tries = @ + 1]
       \/ Goto(w, "fail")

OpenPRs == {n \in DOMAIN prs : prs[n].open}

(* Whoever stops waiting for a push does not stop git.                     *)
AbandonPush(w) ==
    stray' \in {stray} \cup
              (IF wk[w].pc = "push" THEN {stray \cup {head}} ELSE {})

-----------------------------------------------------------------------------
(* PR_CREATION.                                                            *)

(* Mutant: the agent is started whatever the row's status.                 *)
LoadAnyStatus(w) ==
    /\ wk[w].pc = "idle"
    /\ lock = Free
    /\ lock' = w
    /\ Goto(w, "push")
    /\ UNCHANGED <<task, row, merge, github, faults, history>>

(* The job loads the row under the lock and starts the agent; the lock     *)
(* lasts until the pipeline commits the push's audit row.                  *)
Load(w) ==
    /\ wk[w].pc = "idle"
    /\ w \notin ended
    /\ status = "PR_CREATION"
    /\ lock = Free
    /\ lock' = w
    /\ Goto(w, "push")
    /\ UNCHANGED <<task, row, merge, github, faults, history>>

(* git.push --force of the worktree's HEAD.                                *)
Push(w) ==
    /\ wk[w].pc = "push"
    /\ lock' = Free
    /\ \/ /\ fork' = head /\ strayed' = (head # round)
          /\ Goto(w, "find") /\ faults' = faults
       \/ /\ fork' \in {fork, head} /\ strayed' = strayed
          /\ Goto(w, "fail") /\ Fault("push_fails")
    /\ UNCHANGED <<task, row, merge, base, prs, stray, reviewed, failures,
                   landed>>

(* Mutant: an existing pull request is not looked for.                     *)
NeverFind(w) ==
    /\ wk[w].pc = "find"
    /\ Goto(w, "post")
    /\ UNCHANGED <<task, row, lock, merge, github, faults, history>>

(* Mutant: a closed pull request of the branch is adopted too.             *)
FindAny(w) ==
    /\ wk[w].pc = "find"
    /\ IF prs = <<>> THEN Goto(w, "post") ELSE Keep(w, Len(prs), base)
    /\ UNCHANGED <<task, row, lock, merge, github, faults, history>>

(* find_open_pr_for_branch: the open pull request is adopted.              *)
FindOpenPR(w) ==
    /\ wk[w].pc = "find"
    /\ \/ /\ \E n \in OpenPRs : Keep(w, n, base)
          /\ faults' = faults
       \/ OpenPRs = {} /\ Goto(w, "post") /\ faults' = faults
       \/ NoAnswer(w)
    /\ UNCHANGED <<task, row, lock, merge, github, history>>

(* Mutant: the refusal counts as transient and is retried without end.     *)
CreateAgain(w) ==
    /\ wk[w].pc = "post"
    /\ OpenPRs = {}
    /\ prs' = Append(prs, [open |-> TRUE, merged |-> FALSE])
    /\ \/ Keep(w, Len(prs'), base) /\ faults' = faults
       \/ NoAnswer(w)
    /\ UNCHANGED <<task, row, lock, merge, fork, base, stray, history>>

(* The POST of create_pr.  GitHub refuses a second open pull request for   *)
(* the branch, so a POST repeated after a lost answer fails.               *)
CreatePR(w) ==
    /\ wk[w].pc = "post"
    /\ \/ /\ OpenPRs = {}
          /\ prs' = Append(prs, [open |-> TRUE, merged |-> FALSE])
          /\ \/ Keep(w, Len(prs'), base) /\ faults' = faults
             \/ NoAnswer(w)
       \/ OpenPRs # {} /\ prs' = prs /\ Goto(w, "fail") /\ faults' = faults
       \/ prs' = prs /\ NoAnswer(w)
    /\ UNCHANGED <<task, row, lock, merge, fork, base, stray, history>>

(* The agent inserts its row; the foreign key needs the task row unlocked. *)
Persist(w) ==
    /\ wk[w].pc = "persist"
    /\ lock = Free
    /\ row' = [number |-> wk[w].number, base |-> wk[w].base, merged |-> FALSE]
    /\ Goto(w, "offer")
    /\ UNCHANGED <<task, lock, merge, github, faults, history>>

(* The call's audit row or the agent's row cannot be written.              *)
PersistFails(w) ==
    /\ wk[w].pc = "persist"
    /\ Fault("db_error")
    /\ Goto(w, "fail")
    /\ UNCHANGED <<task, row, lock, merge, github, history>>

(* _cas_transition to AWAITING_APPROVAL, or to FAILED after an error.      *)
Apply(w) ==
    /\ wk[w].pc \in {"offer", "fail"}
    /\ lock = Free
    /\ status' = IF status # "PR_CREATION" THEN status
                 ELSE IF wk[w].pc = "offer" THEN "AWAITING_APPROVAL"
                 ELSE "FAILED"
    /\ failures' = IF status = "PR_CREATION" /\ wk[w].pc = "fail"
                   THEN failures + 1 ELSE failures
    /\ wk' = [wk EXCEPT ![w] = IdleSlot]
    /\ UNCHANGED <<stopped, decision, head, round, ended, row, lock, merge,
                   github, faults, reviewed, landed, strayed>>

(* A database error outside the agent: while the job loads or locks the    *)
(* row, commits the transition or marks its own expiry.  arq ends the job, *)
(* and nothing has put another one in its place.                           *)
JobDies(w) ==
    /\ \/ wk[w].pc = "idle" /\ status = "PR_CREATION" /\ w \notin ended
       \/ wk[w].pc \in {"offer", "fail"}
       \/ wk[w].pc # "idle" /\ "deadline" \in Faults
    /\ Fault("db_error")
    /\ wk' = [wk EXCEPT ![w] = IdleSlot]
    /\ ended' = ended \cup {w}
    /\ lock' = IF lock = w THEN Free ELSE lock
    /\ AbandonPush(w)
    /\ UNCHANGED <<status, stopped, decision, head, round, row, merge, fork,
                   base, prs, history>>

(* A worker starts, and its sweep enqueues a job for the task.             *)
Restart(w) ==
    /\ w \in ended
    /\ ended' = ended \ {w}
    /\ UNCHANGED <<status, stopped, decision, head, round, row, lock, wk,
                   merge, github, faults, history>>

(* The process dies and its session with it; arq runs the job again.       *)
WorkerCrash(w) ==
    /\ wk[w].pc # "idle"
    /\ Fault("crash")
    /\ wk' = [wk EXCEPT ![w] = IdleSlot]
    /\ lock' = IF lock = w THEN Free ELSE lock
    /\ AbandonPush(w)
    /\ UNCHANGED <<task, row, merge, fork, base, prs, history>>

(* The job's deadline ends the agent and marks the task FAILED.            *)
Deadline(w) ==
    /\ wk[w].pc # "idle"
    /\ lock \in {Free, w}
    /\ Fault("deadline")
    /\ wk' = [wk EXCEPT ![w] = IdleSlot]
    /\ lock' = Free
    /\ status' = IF status = "PR_CREATION" THEN "FAILED" ELSE status
    /\ failures' = IF status = "PR_CREATION" THEN failures + 1 ELSE failures
    /\ AbandonPush(w)
    /\ UNCHANGED <<stopped, decision, head, round, ended, row, merge, fork,
                   base, prs, reviewed, landed, strayed>>

-----------------------------------------------------------------------------
(* The human, and the rest of the runtime.                                 *)

(* approve_task: the human has looked at the pull request.                 *)
Approve ==
    /\ status = "AWAITING_APPROVAL"
    /\ lock = Free
    /\ status' = "COMPLETED"
    /\ decision' = "approve"
    /\ reviewed' = fork
    /\ strayed' = FALSE
    /\ UNCHANGED <<stopped, head, round, ended, row, lock, wk, merge, github,
                   faults, failures, landed>>

(* reject_task.                                                            *)
Reject ==
    /\ status = "AWAITING_APPROVAL"
    /\ lock = Free
    /\ status' = "FAILED"
    /\ decision' = "reject"
    /\ UNCHANGED <<stopped, head, round, ended, row, lock, wk, merge, github,
                   faults, history>>

(* cancel_task.                                                            *)
Cancel ==
    /\ status \in {"PR_CREATION", "AWAITING_APPROVAL"}
    /\ lock = Free
    /\ status' = "FAILED"
    /\ stopped' = TRUE
    /\ UNCHANGED <<decision, head, round, ended, row, lock, wk, merge, github,
                   faults, history>>

(* _mark_job_timeout_failure comes late: it has read PR_CREATION, and by   *)
(* now the task has been offered or approved.                              *)
TimeoutMark ==
    /\ status \in {"AWAITING_APPROVAL", "COMPLETED"}
    /\ lock = Free
    /\ Fault("deadline")
    /\ status' = "FAILED"
    /\ UNCHANGED <<stopped, decision, head, round, ended, row, lock, wk, merge,
                   github, history>>

(* The driver recovers a FAILED task (next_status stops only at the user's *)
(* cancellation), and a new job brings it here with another commit, which  *)
(* the developer may have pushed itself.                                   *)
Resume ==
    /\ status = "FAILED"
    /\ ~stopped
    /\ lock = Free
    /\ head < MaxCommits
    /\ status' = "PR_CREATION"
    /\ head' = head + 1
    /\ round' = head'
    /\ ended' = {}
    /\ fork' \in {fork, head'}
    /\ UNCHANGED <<stopped, decision, row, lock, wk, merge, base, prs, stray,
                   faults, history>>

(* A duplicate developer, started in an earlier stage, commits and goes on *)
(* to git.push; its compare-and-swap comes too late to stop either.        *)
LateCommit ==
    /\ Fault("late_commit")
    /\ head < MaxCommits
    /\ head' = head + 1
    /\ stray' = stray \cup {head'}
    /\ UNCHANGED <<status, stopped, decision, round, ended, row, lock, wk,
                   merge, fork, base, prs, history>>

(* git.push takes no lock of its own: it forces the branch to the commit,  *)
(* whatever has become of the task.                                        *)
StrayPush ==
    /\ \E commit \in stray : fork' = commit /\ stray' = stray \ {commit}
    /\ strayed' = TRUE
    /\ UNCHANGED <<task, row, lock, wk, merge, base, prs, faults, reviewed,
                   failures, landed>>

(* GitHub's other users.                                                   *)
ClosePR ==
    /\ \E n \in OpenPRs : prs' = [prs EXCEPT ![n].open = FALSE]
    /\ UNCHANGED <<task, row, lock, wk, merge, fork, base, stray, faults,
                   history>>

BaseMoves ==
    /\ base < MaxDrift
    /\ base' = base + 1
    /\ UNCHANGED <<task, row, lock, wk, merge, fork, prs, stray, faults,
                   history>>

-----------------------------------------------------------------------------
(* The merge endpoint.  It holds the row lock until its tool commits or    *)
(* denies; a denial changes nothing but the audit trail.                   *)

Leave == merge' = NoMerge /\ lock' = Free

(* Mutant: the endpoint's own check of the approval is the only one.       *)
BeginOnApproval ==
    /\ merge.pc = "idle"
    /\ lock = Free
    /\ decision = "approve"
    /\ row.number # 0
    /\ ~row.merged
    /\ lock' = Merger
    /\ merge' = [pc |-> "fetch", tries |-> 0]
    /\ UNCHANGED <<task, row, wk, github, faults, history>>

(* merge_task and the gates of github.merge_pr that read the database.     *)
BeginMerge ==
    /\ merge.pc = "idle"
    /\ lock = Free
    /\ decision = "approve"
    /\ status = "COMPLETED"
    /\ row.number # 0
    /\ ~row.merged
    /\ lock' = Merger
    /\ merge' = [pc |-> "fetch", tries |-> 0]
    /\ UNCHANGED <<task, row, wk, github, faults, history>>

(* The fresh staleness check: open, not reported unmergeable, on the base  *)
(* the row names.                                                          *)
CheckFresh ==
    /\ merge.pc = "fetch"
    /\ \/ /\ prs[row.number].open
          /\ base = row.base
          /\ merge' = [pc |-> "put", tries |-> 0]
          /\ lock' = lock
       \/ Leave   \* closed, drifted, mergeable is False, or no answer
    /\ UNCHANGED <<task, row, wk, github, faults, history>>

(* The PUT brings no usable answer: repeated, or reported as failed.       *)
PutUnanswered ==
    /\ Fault("no_answer")
    /\ \/ /\ Retries(merge.tries)
          /\ merge' = [merge EXCEPT !.tries = @ + 1]
          /\ lock' = lock
       \/ Leave

(* GitHub squashes the branch onto its default branch.                     *)
GitHubMerges ==
    /\ prs[row.number].open
    /\ prs' = [prs EXCEPT ![row.number] = [open |-> FALSE, merged |-> TRUE]]
    /\ base' = base + 1
    /\ landed' = Append(landed, [commit |-> fork, round |-> round])

(* The PUT of client.merge_pr; GitHub may refuse (a conflict, a draft), and *)
(* refuses when the pull request is closed, be it by an unanswered PUT.    *)
PutMerge ==
    /\ merge.pc = "put"
    /\ \/ /\ GitHubMerges
          /\ \/ merge' = [pc |-> "record", tries |-> 0] /\ lock' = lock
                /\ faults' = faults
             \/ PutUnanswered
       \/ Leave /\ UNCHANGED <<prs, base, landed, faults>>
       \/ PutUnanswered /\ UNCHANGED <<prs, base, landed>>
    /\ UNCHANGED <<task, row, wk, fork, stray, reviewed, failures, strayed>>

(* merged_at and merge_commit_sha are set and committed.                   *)
RecordMerge ==
    /\ merge.pc = "record"
    /\ row' = [row EXCEPT !.merged = TRUE]
    /\ Leave
    /\ UNCHANGED <<task, wk, github, faults, history>>

(* The API's process dies and its session with it, or the session's commit *)
(* fails.                                                                  *)
MergeFails ==
    /\ merge.pc # "idle"
    /\ Fault("crash") \/ Fault("db_error")
    /\ Leave
    /\ UNCHANGED <<task, row, wk, github, history>>

-----------------------------------------------------------------------------
Agent(w) ==
    Load(w) \/ Push(w) \/ FindOpenPR(w) \/ CreatePR(w) \/ Persist(w) \/ Apply(w)

AgentFault(w) ==
    PersistFails(w) \/ JobDies(w) \/ Restart(w) \/ WorkerCrash(w) \/ Deadline(w)
Human == Approve \/ Reject \/ Cancel
Elsewhere ==
    \/ TimeoutMark \/ Resume \/ LateCommit \/ StrayPush
    \/ ClosePR \/ BaseMoves
MergeStep == CheckFresh \/ PutMerge \/ RecordMerge

Next ==
    \/ \E w \in Workers : Agent(w) \/ AgentFault(w)
    \/ Human
    \/ Elsewhere
    \/ BeginMerge \/ MergeStep \/ MergeFails

Spec == Init /\ [][Next]_vars

(* A live worker keeps taking steps, and so does a started merge request;  *)
(* nobody has to decide, to ask for a merge, to leave GitHub alone or to   *)
(* restart a worker.                                                       *)
FairSpec ==
    Spec /\ (\A w \in Workers : WF_vars(Agent(w))) /\ WF_vars(MergeStep)

-----------------------------------------------------------------------------
(* Properties.                                                             *)

(* The slots are typed and name pull requests that exist; the lock is held *)
(* by an agent that pushes, by the merge request, or by nobody.            *)
SlotsOK ==
    /\ wk \in [Workers -> Slot]
    /\ \A w \in Workers : wk[w].number <= Len(prs)
    /\ \A w \in Workers : wk[w].pc = "push" <=> lock = w
    /\ merge \in Merge
    /\ merge.pc # "idle" <=> lock = Merger
    /\ lock \in Workers \cup {Free, Merger}

(* The variables have their types, the slots as above.                     *)
TypeOK ==
    /\ status \in {"PR_CREATION", "AWAITING_APPROVAL", "COMPLETED", "FAILED"}
    /\ stopped \in BOOLEAN
    /\ decision \in {"none", "approve", "reject"}
    /\ row \in Row /\ row.number <= Len(prs)
    /\ SlotsOK
    /\ fork \in Commits /\ head \in Commits /\ round \in Commits
    /\ reviewed \in Commits /\ stray \subseteq Commits
    /\ ended \subseteq Workers
    /\ strayed \in BOOLEAN
    /\ base \in Nat
    /\ prs \in Seq(PR)
    /\ faults \in 0 .. MaxFaults
    /\ failures \in Nat
    /\ landed \in Seq([commit : Commits, round : Commits])

(* What GitHub merges on the runtime's behalf is the commit of the latest  *)
(* human approval, also after a later round has brought another commit     *)
(* (github_tools.py, GitHubMergePrTool: "approval evidence").  The one way *)
(* around it is a push that nobody waits for and that reaches GitHub       *)
(* between the approval and the merge, which names no head.                *)
LandsWhatWasApproved ==
    [][landed' # landed =>
          /\ decision = "approve"
          /\ Len(landed') = Len(landed) + 1
          /\ landed'[Len(landed')].commit = reviewed \/ strayed]_vars

(* No approval is spent twice: each round is merged at most once, although *)
(* a merge may have happened without a record.                             *)
MergedOnce ==
    \A i, j \in DOMAIN landed : landed[i].round = landed[j].round => i = j

(* What the human is asked about is the verified commit, unless a stray    *)
(* push or a late commit has come in between, in the newest pull request   *)
(* of the branch, which nobody has merged; no other is open.               *)
OfferIsFresh ==
    status = "AWAITING_APPROVAL" =>
       /\ fork = round \/ strayed
       /\ row.number = Len(prs) /\ row.number # 0
       /\ ~prs[row.number].merged /\ ~row.merged
       /\ OpenPRs \subseteq {row.number}

(* PR creation fails only for a fault of its own time: what an earlier     *)
(* round or a crashed run left on GitHub is adopted ("detect and reuse",   *)
(* github/client.py, find_open_pr_for_branch).                             *)
FailuresAreFaults == failures <= faults

(* A task does not hang in PR_CREATION: it is offered or fails, unless a   *)
(* database error outside the agent has ended every job it had; then it    *)
(* waits for a worker to restart or for its user.                          *)
LeavesCreation ==
    status = "PR_CREATION" ~> status # "PR_CREATION" \/ ended = Workers
=============================================================================
