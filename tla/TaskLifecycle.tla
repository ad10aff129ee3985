--------------------------- MODULE TaskLifecycle ----------------------------
(***************************************************************************)
(* The life of one task row: the arq jobs that advance it, the row lock,   *)
(* the agents' compare-and-swap, the inner deadline, the self-chain, the   *)
(* two recovery sweeps and the API's cancel, approve and reject.  Rows are *)
(* independent of one another (every statement names one task id), so one  *)
(* row is modelled; several workers may hold jobs for it at once.          *)
(*                                                                         *)
(* A job is named by the status suffix of its id, advance:<task>:<status>. *)
(* arq keeps a job's key from the enqueue to the end of its run and drops  *)
(* an enqueue whose key exists; a job whose worker died is run again.      *)
(***************************************************************************)
EXTENDS TaskStates, Ranks

CONSTANTS
    Workers,       \* the workers' job slots
    Cron,          \* the stale-CREATED sweep, as a writer of the row
    Free,          \* the row lock's holder when there is none
    MaxReplans,    \* tasks.max_replans
    MaxAttempts,   \* settings.sweep_stale_created_max_attempts
    Faults,        \* which of AllFaults may happen
    MaxFaults      \* bound: how many of them hit one behaviour

AllFaults ==
    {"lost",          \* the API's enqueue fails, or the API dies before it
     "crash",         \* a worker process dies
     "db_error",      \* a statement outside the agents raises
     "deadline",      \* asyncio.timeout fires while an agent works
     "restart",       \* a worker starts and runs the startup sweep
     "cron",          \* the stale-CREATED sweep runs
     "cron_dies",     \* its pass ends half way
     "stale_review"}  \* VERIFICATION finds another commit or a failed run

ASSUME ConstantsAssumption ==
    /\ MaxReplans \in Nat
    /\ MaxAttempts \in Nat
    /\ MaxFaults \in Nat
    /\ Faults \subseteq AllFaults
    /\ Cron \notin Workers
    /\ Free \notin Workers

VARIABLES
    status,      \* tasks.status
    replans,     \* tasks.replan_count
    attempts,    \* tasks.enqueue_attempts
    last,        \* the execution event with the latest created_at
    lock,        \* who holds the row FOR UPDATE across steps
    jobs,        \* the job ids in Redis, queued or running
    wk,          \* what each worker slot is doing
    current,     \* writers whose view of the row is its status, unmoved since
    api,         \* the create request: row committed, then job enqueued
    boot,        \* the status a startup sweep read and will enqueue
    cron,        \* the stale-CREATED sweep's pass: off, read or enqueue
    faults,      \* how many faults have happened
    developed    \* history: how often the task entered IMPLEMENTING

row == <<status, replans, attempts, last, developed>>
vars == <<row, lock, jobs, wk, current, api, boot, cron, faults>>

Writers == Workers \cup {Cron}

(* Reasons of events, told apart as far as the code or a property does.    *)
Reasons == {"worker", "user_cancelled", "user_rejected", "user_approved",
            "job_timeout", "enqueue_lost"}

Event == [from : TaskStatus \cup {NoStatus}, to : TaskStatus, reason : Reasons]

(* pc of a worker slot, and what its "view" is a status of:                *)
(*   start    job taken, row not loaded                                    *)
(*   agent    row loaded as view, agent working on it                      *)
(*   apply    agent done, its verdict not yet applied to view              *)
(*   chain    view committed (or found), next job not yet enqueued         *)
(*   finish   body done, job key not yet deleted                           *)
(*   expired  inner deadline fired, row not yet read again                 *)
(*   marking  read as view, to be overwritten by FAILED(job_timeout)       *)
WorkerPC == {"idle", "start", "agent", "apply", "chain", "finish",
             "expired", "marking"}

Slot == [pc : WorkerPC, job : TaskStatus \cup {NoStatus},
         view : TaskStatus \cup {NoStatus}]

IdleSlot == [pc |-> "idle", job |-> NoStatus, view |-> NoStatus]

Init ==
    /\ status = "CREATED"
    /\ replans = 0
    /\ attempts = 0
    /\ last = [from |-> NoStatus, to |-> "CREATED", reason |-> "worker"]
    /\ lock = Free
    /\ jobs = {}
    /\ wk = [w \in Workers |-> IdleSlot]
    /\ current = {}
    /\ api = "committed"
    /\ boot = NoStatus
    /\ cron = "off"
    /\ faults = 0
    /\ developed = 0

-----------------------------------------------------------------------------
(* Writing the row.                                                        *)

(* transition_task: the row is written with the new status and one more    *)
(* event, whose "from" is the status the writer read.  "charged" is what   *)
(* the caller itself adds to replan_count.                                 *)
TransitionTask(from, target, reason, charged) ==
    /\ status' = target
    /\ replans' = replans + charged + (IF target = "REPLANNING" THEN 1 ELSE 0)
    /\ last' = [from |-> from, to |-> target, reason |-> reason]
    /\ developed' = developed + (IF target = "IMPLEMENTING" THEN 1 ELSE 0)
    /\ current' = {}

(* The same by a writer x that holds no lock and read the row earlier: the *)
(* UPDATE names the id alone.  When the status moved in between, the event *)
(* of that move may carry the later created_at and stay the last one.      *)
BlindTransition(x, from, target, reason) ==
    /\ lock = Free
    /\ status' = target
    /\ last' \in {[from |-> from, to |-> target, reason |-> reason]} \cup
                 (IF x \in current THEN {} ELSE {last})
    /\ current' = {}
    /\ UNCHANGED <<replans, developed>>

(* enqueue_job(_job_id): a key that exists swallows the enqueue.           *)
Enqueue(job) == jobs' = jobs \cup {job}

Fault(kind) ==
    /\ kind \in Faults
    /\ faults < MaxFaults
    /\ faults' = faults + 1

Goto(w, pc, view) == wk' = [wk EXCEPT ![w].pc = pc, ![w].view = view]
Release(w) == lock' = IF lock = w THEN Free ELSE lock
Forget(w) == current' = current \ {w}

-----------------------------------------------------------------------------
(* The worker: arq's loop and the advance_task job.                        *)

(* arq takes a queued job no worker is running.                            *)
Dequeue(w) ==
    /\ wk[w].pc = "idle"
    /\ \E job \in jobs :
          /\ \A v \in Workers : wk[v].pc # "idle" => wk[v].job # job
          /\ wk' = [wk EXCEPT ![w].pc = "start", ![w].job = job]
    /\ UNCHANGED <<row, lock, jobs, current, api, boot, cron, faults>>

(* advance_task_with_agents, an agent state: the row is loaded FOR UPDATE  *)
(* and the lock is kept while the agent works.                             *)
LoadForAgent(w) ==
    /\ wk[w].pc = "start"
    /\ lock = Free
    /\ status \in AgentStatus
    /\ lock' = w
    /\ current' = current \cup {w}
    /\ Goto(w, "agent", status)
    /\ UNCHANGED <<row, jobs, api, boot, cron, faults>>

(* advance_task_once, every other state but AWAITING_APPROVAL: load, one   *)
(* transition, commit, under one lock.                                     *)
AdvanceOnce(w) ==
    /\ wk[w].pc = "start"
    /\ lock = Free
    /\ status \notin AgentStatus \cup {"AWAITING_APPROVAL"}
    /\ \E target \in NextStatus(status, replans, MaxReplans, last.reason) :
          /\ TransitionTask(status, target, "worker", 0)
          /\ Goto(w, "chain", target)
    /\ UNCHANGED <<attempts, lock, jobs, api, boot, cron, faults>>

(* Nothing to do: a task that waits for a human, is terminal or was        *)
(* cancelled.                                                              *)
NothingToDo(w) ==
    /\ wk[w].pc = "start"
    /\ lock = Free
    /\ status \notin AgentStatus
    /\ status # "AWAITING_APPROVAL" =>
          NextStatus(status, replans, MaxReplans, last.reason) = {}
    /\ Goto(w, "finish", NoStatus)
    /\ UNCHANGED <<row, lock, jobs, current, api, boot, cron, faults>>

(* An agent commits an audit row or an artifact, which ends the lock.  The *)
(* planner commits nothing before its plan.                                *)
AgentCommit(w) ==
    /\ wk[w].pc = "agent"
    /\ wk[w].view # "PLANNING"
    /\ lock = w
    /\ lock' = Free
    /\ UNCHANGED <<row, jobs, wk, current, api, boot, cron, faults>>

(* Mutant: the commit after the agent does not end the row lock.           *)
AgentReturnKeepsLock(w) ==
    /\ wk[w].pc = "agent"
    /\ Goto(w, "apply", wk[w].view)
    /\ UNCHANGED <<row, lock, jobs, current, api, boot, cron, faults>>

(* The agent returns or raises; its artifact is committed (or rolled back) *)
(* and no lock is held until the row is locked again.  The verdict is      *)
(* settled here; it is chosen where it is applied, nothing reads it before. *)
AgentReturn(w) ==
    /\ wk[w].pc = "agent"
    /\ Goto(w, "apply", wk[w].view)
    /\ Release(w)
    /\ UNCHANGED <<row, jobs, current, api, boot, cron, faults>>

(* _cas_transition and _replan_to_implementing, the row being elsewhere:   *)
(* nothing is written and the row's status is what the job chains.         *)
ApplySkips(w) ==
    /\ wk[w].pc = "apply"
    /\ lock = Free
    /\ status # wk[w].view
    /\ Goto(w, "chain", status)
    /\ UNCHANGED <<row, lock, jobs, current, api, boot, cron, faults>>

(* Mutant: the verdict is written without comparing the row's status.      *)
TransitionWithoutCompare(w) ==
    /\ wk[w].pc = "apply"
    /\ lock = Free
    /\ \E target \in TaskStatus :
          /\ <<wk[w].view, target>> \in Verdicts
          /\ ~IsReplan(wk[w].view, target)
          /\ TransitionTask(wk[w].view, target, "worker", 0)
          /\ Goto(w, "chain", target)
    /\ UNCHANGED <<attempts, lock, jobs, api, boot, cron, faults>>

(* _cas_transition, the row being where the agent found it.                *)
CasTransition(w) ==
    /\ wk[w].pc = "apply"
    /\ lock = Free
    /\ status = wk[w].view
    /\ \E target \in TaskStatus :
          /\ <<status, target>> \in Verdicts
          /\ ~IsReplan(status, target)
          /\ <<status, target>> = <<"VERIFICATION", "TESTING">> =>
                "stale_review" \in Faults
          /\ TransitionTask(status, target, "worker", 0)
          /\ Goto(w, "chain", target)
    /\ UNCHANGED <<attempts, lock, jobs, api, boot, cron, faults>>

(* Mutant: the budget's bound is off by one.                               *)
ReplanOnceTooOften(w) ==
    /\ wk[w].pc = "apply"
    /\ lock = Free
    /\ status = wk[w].view
    /\ IsReplan(status, "IMPLEMENTING")
    /\ \/ /\ replans > MaxReplans
          /\ TransitionTask(status, "ESCALATED", "worker", 0)
          /\ Goto(w, "chain", "ESCALATED")
       \/ /\ replans <= MaxReplans
          /\ TransitionTask(status, "IMPLEMENTING", "worker", 1)
          /\ Goto(w, "chain", "IMPLEMENTING")
    /\ UNCHANGED <<attempts, lock, jobs, api, boot, cron, faults>>

(* Mutant: a replan is granted within the budget and not charged to it.    *)
ReplanUncharged(w) ==
    /\ wk[w].pc = "apply"
    /\ lock = Free
    /\ status = wk[w].view
    /\ IsReplan(status, "IMPLEMENTING")
    /\ \E target \in IF replans >= MaxReplans THEN {"ESCALATED"}
                                            ELSE {"IMPLEMENTING"} :
          /\ TransitionTask(status, target, "worker", 0)
          /\ Goto(w, "chain", target)
    /\ UNCHANGED <<attempts, lock, jobs, api, boot, cron, faults>>

(* _replan_to_implementing: the shared budget is enforced here.            *)
ReplanToImplementing(w) ==
    /\ wk[w].pc = "apply"
    /\ lock = Free
    /\ status = wk[w].view
    /\ IsReplan(status, "IMPLEMENTING")
    /\ \/ /\ replans >= MaxReplans
          /\ TransitionTask(status, "ESCALATED", "worker", 0)
          /\ Goto(w, "chain", "ESCALATED")
       \/ /\ replans < MaxReplans
          /\ TransitionTask(status, "IMPLEMENTING", "worker", 1)
          /\ Goto(w, "chain", "IMPLEMENTING")
    /\ UNCHANGED <<attempts, lock, jobs, api, boot, cron, faults>>

(* The self-chain, after the commit: one job for the status reached, while *)
(* this job's own key still exists.                                        *)
Chain(w) ==
    /\ wk[w].pc = "chain"
    /\ IF wk[w].view \in TerminalStates THEN jobs' = jobs
                                        ELSE Enqueue(wk[w].view)
    /\ Goto(w, "finish", NoStatus)
    /\ UNCHANGED <<row, lock, current, api, boot, cron, faults>>

(* arq deletes the job's key (keep_result = 0).                            *)
Finish(w) ==
    /\ wk[w].pc = "finish"
    /\ jobs' = jobs \ {wk[w].job}
    /\ wk' = [wk EXCEPT ![w] = IdleSlot]
    /\ UNCHANGED <<row, lock, current, api, boot, cron, faults>>

(* The inner deadline fires while the agent works; the session is rolled   *)
(* back, which ends its lock.                                              *)
Deadline(w) ==
    /\ Fault("deadline")
    /\ wk[w].pc = "agent"
    /\ Goto(w, "expired", NoStatus)
    /\ Release(w)
    /\ Forget(w)
    /\ UNCHANGED <<row, jobs, api, boot, cron>>

(* _mark_job_timeout_failure reads the row without a lock ...              *)
MarkRead(w) ==
    /\ wk[w].pc = "expired"
    /\ IF status \in TerminalStates \cup {"FAILED"}
       THEN Goto(w, "finish", NoStatus) /\ current' = current
       ELSE Goto(w, "marking", status) /\ current' = current \cup {w}
    /\ UNCHANGED <<row, lock, jobs, api, boot, cron, faults>>

(* Mutant: the job returns after writing the failure and chains nothing.   *)
MarkWithoutChain(w) ==
    /\ wk[w].pc = "marking"
    /\ BlindTransition(w, wk[w].view, "FAILED", "job_timeout")
    /\ Goto(w, "finish", NoStatus)
    /\ UNCHANGED <<attempts, lock, jobs, api, boot, cron, faults>>

(* ... and writes FAILED(job_timeout) over whatever is there by then.      *)
MarkWrite(w) ==
    /\ wk[w].pc = "marking"
    /\ BlindTransition(w, wk[w].view, "FAILED", "job_timeout")
    /\ Goto(w, "chain", "FAILED")
    /\ UNCHANGED <<attempts, lock, jobs, api, boot, cron, faults>>

(* lock_timeout: a statement that waits for the row's lock is cancelled,   *)
(* the exception leaves the job, and arq ends a job that raised.           *)
LockTimeout(w) ==
    /\ wk[w].pc \in {"start", "apply", "marking"}
    /\ lock \notin {Free, w}
    /\ Goto(w, "finish", NoStatus)
    /\ Forget(w)
    /\ UNCHANGED <<row, lock, jobs, api, boot, cron, faults>>

(* Any other database error outside the agents, whose handlers catch all.  *)
DatabaseError(w) ==
    /\ Fault("db_error")
    /\ wk[w].pc \in {"start", "apply", "expired", "marking"}
    /\ Goto(w, "finish", NoStatus)
    /\ Forget(w)
    /\ UNCHANGED <<row, lock, jobs, api, boot, cron>>

(* The process dies: its transaction is rolled back and the job's key      *)
(* stays, so the job is run again.                                         *)
Crash(w) ==
    /\ Fault("crash")
    /\ wk[w].pc # "idle"
    /\ wk' = [wk EXCEPT ![w] = IdleSlot]
    /\ Release(w)
    /\ Forget(w)
    /\ UNCHANGED <<row, jobs, api, boot, cron>>

-----------------------------------------------------------------------------
(* The sweeps.                                                             *)

(* _sweep_pending_tasks reads every row that is not terminal ...           *)
StartupSweepRead ==
    /\ Fault("restart")
    /\ boot = NoStatus
    /\ status \notin TerminalStates
    /\ boot' = status
    /\ UNCHANGED <<row, lock, jobs, wk, current, api, cron>>

(* ... and later enqueues each under the status it read.                   *)
StartupSweepEnqueue ==
    /\ boot # NoStatus
    /\ Enqueue(boot)
    /\ boot' = NoStatus
    /\ UNCHANGED <<row, lock, wk, current, api, cron, faults>>

(* sweep_stale_created_once selects the CREATED rows, without a lock, ...  *)
CronRead ==
    /\ "cron" \in Faults
    /\ cron = "off"
    /\ status = "CREATED"
    /\ cron' = "read"
    /\ current' = current \cup {Cron}
    /\ UNCHANGED <<row, lock, jobs, wk, api, boot, faults>>

(* Mutant: a row out of attempts is skipped and stays CREATED.             *)
CronSkips ==
    /\ cron = "read"
    /\ attempts + 1 > MaxAttempts
    /\ cron' = "off"
    /\ UNCHANGED <<row, current, lock, jobs, wk, api, boot, faults>>

(* ... gives up on a row that has used its attempts ...                    *)
CronEscalate ==
    /\ cron = "read"
    /\ attempts + 1 > MaxAttempts
    /\ BlindTransition(Cron, "CREATED", "FAILED", "enqueue_lost")
    /\ cron' = "off"
    /\ UNCHANGED <<attempts, lock, jobs, wk, api, boot, faults>>

(* ... or counts one more attempt, commits, ...                            *)
CronCount ==
    /\ cron = "read"
    /\ attempts + 1 <= MaxAttempts
    /\ lock = Free
    /\ attempts' = attempts + 1
    /\ cron' = "enqueue"
    /\ Forget(Cron)
    /\ UNCHANGED <<status, replans, last, developed,
                   lock, jobs, wk, api, boot, faults>>

(* ... and enqueues the row under the CREATED it read.                     *)
CronEnqueue ==
    /\ cron = "enqueue"
    /\ Enqueue("CREATED")
    /\ cron' = "off"
    /\ UNCHANGED <<row, lock, wk, current, api, boot, faults>>

(* The pass dies half way: its process, or a wait for the row's lock.      *)
CronAbort ==
    /\ cron # "off"
    /\ \/ Fault("cron_dies")
       \/ cron = "read" /\ lock # Free /\ faults' = faults
    /\ cron' = "off"
    /\ Forget(Cron)
    /\ UNCHANGED <<row, lock, jobs, wk, api, boot>>

-----------------------------------------------------------------------------
(* The API.                                                                *)

(* Mutant: the bootstrap job takes the id its own chain will need.         *)
CreateEnqueueAhead ==
    /\ api = "committed"
    /\ api' = "answered"
    /\ \/ Enqueue("PLANNING") /\ faults' = faults
       \/ Fault("lost") /\ jobs' = jobs
    /\ UNCHANGED <<row, lock, wk, current, boot, cron>>

(* create_task has committed the row and now enqueues its first job.       *)
CreateEnqueue ==
    /\ api = "committed"
    /\ api' = "answered"
    /\ \/ Enqueue("CREATED") /\ faults' = faults
       \/ Fault("lost") /\ jobs' = jobs
    /\ UNCHANGED <<row, lock, wk, current, boot, cron>>

(* Mutant: a task that is over can still be cancelled.                     *)
CancelAnyTask ==
    /\ lock = Free
    /\ status # "FAILED"
    /\ TransitionTask(status, "FAILED", "user_cancelled", 0)
    /\ UNCHANGED <<attempts, lock, jobs, wk, api, boot, cron, faults>>

(* cancel_task: under the lock, in any state that is not terminal or FAILED *)
CancelTask ==
    /\ lock = Free
    /\ status \notin TerminalStates \cup {"FAILED"}
    /\ TransitionTask(status, "FAILED", "user_cancelled", 0)
    /\ UNCHANGED <<attempts, lock, jobs, wk, api, boot, cron, faults>>

ApproveTask ==
    /\ lock = Free
    /\ status = "AWAITING_APPROVAL"
    /\ TransitionTask(status, "COMPLETED", "user_approved", 0)
    /\ UNCHANGED <<attempts, lock, jobs, wk, api, boot, cron, faults>>

RejectTask ==
    /\ lock = Free
    /\ status = "AWAITING_APPROVAL"
    /\ TransitionTask(status, "FAILED", "user_rejected", 0)
    /\ UNCHANGED <<attempts, lock, jobs, wk, api, boot, cron, faults>>

-----------------------------------------------------------------------------
(* One step of the job a worker runs, nothing failing.                     *)
JobStep(w) ==
    \/ LoadForAgent(w) \/ AdvanceOnce(w) \/ NothingToDo(w)
    \/ AgentReturn(w)
    \/ ApplySkips(w) \/ CasTransition(w) \/ ReplanToImplementing(w)
    \/ Chain(w) \/ Finish(w)
    \/ MarkRead(w) \/ MarkWrite(w)

WorkerStep(w) == Dequeue(w) \/ JobStep(w)

WorkerFault(w) ==
    Deadline(w) \/ LockTimeout(w) \/ DatabaseError(w) \/ Crash(w)

StartupSweep == StartupSweepRead \/ StartupSweepEnqueue
CronStep == CronRead \/ CronEscalate \/ CronCount \/ CronEnqueue
Human == CancelTask \/ ApproveTask \/ RejectTask

Next ==
    \/ \E w \in Workers : WorkerStep(w) \/ AgentCommit(w) \/ WorkerFault(w)
    \/ StartupSweep
    \/ CronStep \/ CronAbort
    \/ CreateEnqueue
    \/ Human

Spec == Init /\ [][Next]_vars

(* A live worker keeps taking steps and arq keeps handing it jobs, the     *)
(* create request is answered and cron fires every minute.  Nobody has to  *)
(* cancel, approve, reject, restart or fail.                               *)
Fairness ==
    /\ \A w \in Workers : WF_vars(WorkerStep(w))
    /\ WF_vars(CreateEnqueue)
    /\ WF_vars(CronStep)
    /\ WF_vars(StartupSweepEnqueue)

FairSpec == Spec /\ Fairness

-----------------------------------------------------------------------------
(* Properties.                                                             *)

(* The slots are typed; a row lock that outlives a step is held by a slot  *)
(* whose agent is working on the row it locked; and a slot that will       *)
(* compare, chain or overwrite a status has one to do it with.             *)
HasView(w) == wk[w].pc \in {"agent", "apply", "chain", "marking"}

SlotsOK ==
    /\ wk \in [Workers -> Slot]
    /\ lock \in Workers \cup {Free}
    /\ lock # Free => wk[lock].pc = "agent"
    /\ \A w \in Workers : HasView(w) => wk[w].view \in TaskStatus

(* The variables have their types, the slots and the lock as above.        *)
TypeOK ==
    /\ status \in TaskStatus
    /\ replans \in Nat
    /\ attempts \in 0 .. MaxAttempts
    /\ last \in Event
    /\ jobs \subseteq TaskStatus
    /\ SlotsOK
    /\ current \subseteq Writers
    /\ api \in {"committed", "answered"}
    /\ boot \in TaskStatus \cup {NoStatus}
    /\ cron \in {"off", "read", "enqueue"}
    /\ faults \in 0 .. MaxFaults
    /\ developed \in Nat

(* The developer works on a task at most once plus once per replan the     *)
(* task was granted, however its failures, deadlines, crashes, duplicate   *)
(* jobs and sweeps interleave: the recovery path FAILED -> REPLANNING and  *)
(* the replans of debugger, reviewer and security agent draw on one        *)
(* max_replans (task_lifecycle.py, _replan_to_implementing, next_status).  *)
ImplementationBudget == developed <= MaxReplans + 1

(* How the budget is kept: a developer run is paid for before it starts.   *)
(* The first is free; each later one was charged to replan_count, on the   *)
(* way into REPLANNING or by the replan itself, and a task on its way back *)
(* to the developer has paid already and has budget left.  This is what    *)
(* makes ImplementationBudget inductive.                                   *)
BudgetLedger ==
    /\ developed <= replans + 1
    /\ developed <= MaxReplans + 1
    /\ status \in {"CREATED", "PLANNING"} => developed = 0
    /\ status \in {"REPLANNING", "RESEARCHING"} => developed <= replans
    /\ status = "RESEARCHING" => developed <= MaxReplans

(* The trail explains the status: whenever the status changes, the new     *)
(* last event is the step from the old status to the new one.              *)
TrailExplainsStatus ==
    [][status' # status =>
          last'.from = status /\ last'.to = status']_<<status, last>>

Cancelled == status = "FAILED" /\ last.reason = "user_cancelled"
Rejected == status = "FAILED" /\ last.reason = "user_rejected"

(* A cancelled task stays cancelled (task_lifecycle.py, next_status; the   *)
(* docstring of advance_task.py, _mark_job_timeout_failure).               *)
CancelIsFinal == [][Cancelled => Cancelled']_vars

(* A rejected task stays rejected: "a deliberate stop, NOT a replan"       *)
(* (api/routes/tasks.py, reject_task; state_machine.py).                   *)
RejectIsFinal == [][Rejected => Rejected']_vars

(* A task that somebody still has to move has a job that will move it:     *)
(* queued, or running and not yet past its chain.  Waiting for a human,    *)
(* stopped by one and still CREATED (the stale-CREATED sweep's business)   *)
(* are the exceptions, and a task that sweep has taken up: it may be given *)
(* two jobs, or failed for good while its first job is under way.          *)
Queued == jobs \ {wk[w].job : w \in {v \in Workers : wk[v].pc # "idle"}}
Serving(w) == wk[w].pc \notin {"idle", "finish"}
NeedsJob ==
    /\ status \notin TerminalStates \cup {"CREATED", "AWAITING_APPROVAL"}
    /\ status = "FAILED" =>
          last.reason \notin {"user_cancelled", "user_rejected", "enqueue_lost"}
    /\ attempts = 0
NoStrandedTask == NeedsJob => Queued # {} \/ \E w \in Workers : Serving(w)

(* The runtime implements the abstract task machine.                       *)
Machine == INSTANCE TaskMachine WITH cancelled <- Cancelled
ImplementsMachine == Machine!Spec

(* A task whose first enqueue was lost leaves CREATED: the sweep enqueues  *)
(* it again or gives it up (worker.py, sweep_stale_created_once).          *)
CreatedIsLeft == status = "CREATED" ~> status # "CREATED"

(* Every task comes to rest: done, out of budget, stopped by its user, or  *)
(* waiting for the human decision.  A task the stale-CREATED sweep has     *)
(* taken up is excepted, as above.                                         *)
AtRest ==
    \/ status \in TerminalStates \cup {"AWAITING_APPROVAL"}
    \/ status = "FAILED" /\ ~NeedsJob
ComesToRest == <>(AtRest \/ attempts > 0)

(* What a task has left to do: faults that may still hit it, replans, the  *)
(* create request, statuses on the way to its end, steps of its job.  A    *)
(* cancelled task is at its end unless the deadline is about to overwrite  *)
(* it; a job whose agent works for a status that is gone still has to find *)
(* that out, and to chain once more.                                       *)
WayLeft(w) ==
    IF ~Cancelled THEN Way[status]
    ELSE IF wk[w].pc \in {"expired", "marking"} THEN 3 ELSE 0
Chained(w) == jobs \ {wk[w].job} # {}
StepsLeft(w) ==
    CASE wk[w].pc = "chain" -> 9
      [] wk[w].pc = "finish" -> IF Chained(w) THEN 8 ELSE 1
      [] wk[w].pc = "idle" -> IF jobs # {} THEN 7 ELSE 0
      [] wk[w].pc = "start" -> 6
      [] wk[w].pc = "agent" -> IF lock = w THEN 5 ELSE 4
      [] wk[w].pc \in {"apply", "expired"} -> 3
      [] wk[w].pc = "marking" -> 2
Refused(w) == wk[w].pc \in {"agent", "apply"} /\ wk[w].view # status
TurnLeft(w) == StepsLeft(w) + (IF Refused(w) THEN 9 ELSE 0)
FaultsLeft == MaxFaults - faults
ReplansLeft == MaxReplans + 1 - replans
RequestLeft == IF api = "committed" THEN 1 ELSE 0
ToDo(w) == <<FaultsLeft, ReplansLeft, RequestLeft, WayLeft(w), TurnLeft(w)>>

(* With one slot, and as long as the stale-CREATED sweep has not taken the *)
(* task up, every step leaves it less to do, whatever verdicts, deadlines  *)
(* and humans decide: recoveries and replans draw on one budget, a job     *)
(* that finds nothing to do chains nothing, and a rejected or cancelled    *)
(* task never goes round for free (advance_task.py, advance_task).         *)
NearsItsEnd ==
    [][\A w \in Workers : attempts' = 0 =>
          \/ Below(5, ToDo(w)', ToDo(w))
          \/ (CronRead \/ CronAbort) /\ ToDo(w)' = ToDo(w)]_vars
=============================================================================
