# ForgeMind in TLA+

Specifications of ForgeMind's runtime, checked with TLC on small instances and,
for the core, proved with TLAPS for every value of the constants. All paths
below are relative to `src/forgemind/app/`.

ForgeMind drives a GitHub issue to a draft pull request. A *task* is one row of
Postgres with a status; arq workers advance it one status per job, running an
LLM agent (or deterministic code) in each; a human approves or rejects at the
end. What has to be right is the protocol around the row: who may move it,
from which status, how often, and that somebody always moves it.

## The system

| Component | State | Operations | Hard part |
|---|---|---|---|
| State machine (`runtime/state_machine.py`) | none: a table | `transition` | every writer goes through it, but with the status *it* read |
| Lifecycle (`runtime/task_lifecycle.py`) | `tasks.status`, `replan_count`, `execution_events` | load, stub step, nine handlers, `_cas_transition`, `_replan_to_implementing` | agents run for minutes without the row lock; duplicates; one budget, four ways to spend it |
| Job (`worker/jobs/advance_task.py`, `worker/queue.py`) | job keys in Redis | run one step, inner deadline, self-chain | deduplication by job id; unlocked failure marking; crash between commit and chain |
| Sweeps (`worker/worker.py`) | `enqueue_attempts` | startup sweep, stale-CREATED cron | read, then act without a lock |
| API (`api/routes/tasks.py`) | `approvals`, audit rows | create, cancel, approve, reject, merge | races with workers; row committed before its job exists |
| Merge (`tools/github_tools.py`) | `pull_requests.merged_at` | checks, merge call, record | crash between GitHub and the commit |
| Tool pipeline and policy (`execution/`, `policies/`, `capabilities/`) | `tool_calls`, audit | authorise, execute, record | order of audit and side effect; deny wins |
| Tool-loop agents (`agents/developer`, `researcher`, `debugger`, `planner`) | tool budget, artifacts, a commit | propose, execute, synthesise | what counts against the budget; residue of a failed run |
| Review gate (`agents/tester`, `reviewer`, `security`, `_run_verification`) | test runs, reviews, summaries, worktree HEAD | test, review, verify | every verdict is about *some* commit |
| GitHub agent and client (`agents/github_agent`, `github/`) | fork branch, PR row | push, create, adopt | retried POST, crash before the row |
| LLM providers (`llm/`) | cool-downs | retry, rotate | which error means what |
| Worktrees, clones, provisioning (`git/`, `repository/`, `shell/`) | directories, rows | create, discard, clone, install | directory and row change separately |
| Views (`runtime/task_trace.py`, `cli.py`, `main.py`, templates) | none | read | none |

Tasks do not share rows, so one task is modelled; workers, the API, the cron
and restarts interact with it through the row (with its lock), the job keys in
Redis and the trail of events.

## Modules

* `TaskStates` – constants: statuses, the legal table, `NextStatus` (the
  driver), and the verdicts each handler can reach. No state.
* `TaskMachine` – the abstract specification: what the runtime promises of one
  task, whoever moves it (legal moves only, nothing after a terminal status or
  a cancellation, the developer within budget).
* `TaskLifecycle` – the runtime. `MCTaskLifecycle` adds the symmetry of the
  worker slots for TLC.
* `ReviewGate` – what the agents do inside their states as far as the branch
  and the rows about it are concerned: which commit is tested, reviewed,
  scanned, verified and pushed. It moves the same row by the same rules, and
  also implements `TaskMachine`; jobs, sweeps, the deadline and the human are
  `TaskLifecycle`'s. `MCReviewGate` adds the symmetry of the slots.
* `PullRequests` – from the verified commit to its merge: push, pull request, row,
  the human's decision and the merge request, against a GitHub whose answers
  may be lost. `MCPullRequests` adds the symmetry of the slots.
* `LLMCall` – one request of an agent to its language model: the chain of models, the
  retries inside it and around it.
* `ToolLoop` – one run of a tool-loop agent: proposals, the tool pipeline with its
  gates and audit rows, the budget, the artifact. It extends `LLMCall`, whose request
  is a step of the loop, and implements `ReviewGate`. `MCToolLoop` is its instance.
* `Workspace` – where the agents work: clone, worktree, row and virtual environment,
  wanted by several jobs of several tasks at a time. `MCWorkspace` adds the symmetry of
  jobs and of tasks.
* `Ranks` – the order in which a tuple of numbers can only be lowered, which
  `TaskLifecycle`, `ReviewGate` and `ToolLoop` measure the rest of their work in.
* `TaskStatesProofs`, `TaskLifecycleProofs`, `ReviewGateProofs`,
  `PullRequestsProofs`, `RanksProofs`, `LLMCallProofs` (lemmas only),
  `ToolLoopProofs`, `WorkspaceProofs` – the theorems.

The first three state machines meet in the row. `TaskLifecycle` has every writer of the
status and treats agents as verdicts; `ReviewGate` replaces the verdicts of the
states before PR_CREATION by the evidence they rest on; `PullRequests` does the same for
PR_CREATION and what follows. The first two implement the same `TaskMachine`. Below
`ReviewGate`, where an agent's run is a few steps, `ToolLoop` has the calls it is made
of, and `ImplementsGate` (`INSTANCE ReviewGate WITH ...`) shows that they come to the
same commits, pushes, summary and verdict. `Workspace` is what all of them take for
granted: a worktree of the task's own.

### TaskLifecycle

| Variable | In the code |
|---|---|
| `status`, `replans`, `attempts` | columns of `tasks` |
| `last` | the execution event with the latest `created_at` (what `next_status` reads) |
| `lock` | who holds the row `FOR UPDATE` between two steps |
| `jobs` | arq's job keys of this task: queued, running or orphaned by a crash |
| `wk` | each worker slot: where its job is, the job's id, the status it read or reached |
| `current` | history: which unlocked readers' view of the row has not been overtaken |
| `api`, `boot`, `cron` | the create request, a startup sweep and a cron pass under way |
| `faults`, `developed` | a bound, and a history counter of entries into IMPLEMENTING |

A job is a sequence of atomic steps, cut wherever it releases the lock or
awaits: `Dequeue`, then either one locked transition (`AdvanceOnce`), nothing
(`NothingToDo`), or `LoadForAgent` – `AgentCommit`\* – `AgentReturn` – one of
`ApplySkips`, `CasTransition`, `ReplanToImplementing`; then `Chain` (enqueue the
next job) and `Finish` (arq deletes the key). `AgentCommit` is the audit or
artifact commit that ends the row lock while the agent is still working, which
is why duplicates can overlap. The inner deadline goes `Deadline` – `MarkRead` –
`MarkWrite`; the two last are separate because `_mark_job_timeout_failure` takes
no lock. `LockTimeout`, `DatabaseError` and `Crash` end a job in the three ways
the code and arq have. The sweeps are split between their read and their
write or enqueue; the API's three decisions are one transaction under the lock.

The agents are abstract: an agent's result is any verdict its handler can
reach. The verdict is chosen where it is applied, not where the agent returns;
nothing reads it in between.

`BlindTransition` deserves a word. A writer without a lock updates the row by
id and stamps its event before it commits. If the status has moved since its
read, the other event may have the later stamp, so either event may be the last
one afterwards; if it has not moved, its own is.

Abstracted: reasons of events other than those something reads; the text and
the artifacts of agents; several tasks; the age threshold of the cron (any
CREATED row may be old enough); arq's `max_tries` of 10, which no run's number of
faults reaches; requests that are refused (409) or time out, since they write nothing.

### ReviewGate

| Variable | In the code |
|---|---|
| `status`, `replans` | columns of `tasks`, moved only by the compare-and-swap |
| `head`, `dirty` | the task's worktree: HEAD as a number, 0 for the base, and whether uncommitted writes lie in it |
| `summary` | the latest `implementation_summaries` row; commit 0 is the INCOMPLETE marker |
| `run` | the latest `test_runs` row; `commit` is history, since the code keeps no such column |
| `approved`, `scanned` | the commits with an APPROVE in `review_results`, a PASS in `security_results` |
| `guidance` | which of the three replan sources' latest row carries a fix instruction, and their order by age |
| `pushed` | the branch on the fork |
| `wk` | each slot: the agent at work, its step, the commit it knows of, the pending decision |
| `developed`, `asked` | history: entries into IMPLEMENTING, and who last sent the task there |
| `faults` | a bound, on crashes, lost answers and false claims of flakiness |

An agent's work is cut where it commits to the database or to git:
`Load` (the handler reads its operands), the agent's own steps, `Apply` (the
compare-and-swap). The developer writes and commits as it pleases (`AgentChoice`,
never fair); the call of `git.commit` is two steps, the commit itself and the
answer (`ReadSha`, or `LoseAck` when `rev-parse` or the audit row fails, since
`ToolPipeline.invoke` then reports FAILED). `AgentFails` is any exception a
handler turns into FAILED, and `FailNoCommit` the developer's own way out
when it has no commit to show. The debugger runs the tests once more and
finds the failure gone (`FindFlaky`) or asks the model (`Classify`), which may
also call it flaky although it failed twice: nothing checks that. When the install before the
re-run fails there is no new row, and the code takes the latest one for the re-run's, whose
verdict may be that of an earlier run; `Rerun` has that way too. `Verify` reads while its job holds
the row, so no row about the task can be added meanwhile, and HEAD is the last thing it reads;
but the compare-and-swap that applies its decision begins with a rollback, which gives the
lock up. So `Verify` only decides, and `Apply` is a step of its own.

The slots take the task without a job: that two agents of one task overlap is
real, because the first audit commit of an agent ends the row lock, and
`TaskLifecycle` shows how the second job arises.

Abstracted: what files and findings say; the tool budget and the read-only
tools (`ToolLoop`'s); the research artifact and the plan; what a suite or pip leaves in the worktree
(it does not set `dirty`, so "nothing uncommitted" in `OneCommitInHand` is about what the developer
wrote) and a worktree that is gone; a test run's `error` goes the way of `failed`;
REJECT goes the way of REQUEST_CHANGES. A thread of a cancelled git call that
finishes late is a second slot's commit.

With one slot the fault `overtaken` (`MarkFailed`) keeps the interleaving that matters to
the compare-and-swap: somebody fails the task while its agent works. `DeveloperPush`
is the developer's own `git.push`; `PullRequests` has it in `Resume` and, when it comes late, in `StrayPush`.

### PullRequests

| Variable | In the code |
|---|---|
| `status`, `stopped` | `tasks.status`; whether the latest event is the user's cancellation, all `next_status` reads of it here |
| `decision` | the action of the latest `approvals` row |
| `row` | the latest `pull_requests` row: number, `base_sha`, `merged_at` |
| `lock` | who holds the task row `FOR UPDATE` between two steps |
| `wk` | each slot: the next thing its GitHub agent does, the attempt, what GitHub answered |
| `merge` | the merge request under way |
| `ended` | the slots whose job arq has ended on a database error, with no other in its place |
| `head`, `round` | HEAD of the task's worktree; the commit that VERIFICATION has let pass |
| `stray` | commits of pushes that nobody waits for: abandoned by their job, or a late duplicate developer's |
| `fork`, `base`, `prs` | GitHub's: the branch on the fork, the head of the default branch, the pull requests of the branch |
| `reviewed`, `failures`, `landed` | history: the commit of the latest approval, PR_CREATIONs that failed, the merges with the verified commit of their time |
| `strayed` | history: a stray push has moved the branch since the agent's own push or, if that is later, the approval |
| `faults` | a bound |

The agent's work is cut at each call to GitHub and each commit. The job keeps
the row lock from `Load` until the pipeline commits the audit row of the push;
the rest of the agent runs without it, and its row needs a share lock on the task row
(`Persist` waits). The merge endpoint holds the lock through both of its
calls, until the tool commits `merged_at` or the route commits its audit row, so an
approved task cannot be overwritten in between, and no GitHub agent moves the branch: that is what
`LandsWhatWasApproved` rests on, since the merge call names no head.

The lock does not hold the branch against everybody. `git.push` itself takes none: a push
runs in a thread that goes on when the job's deadline cancels the wait for it (`AbandonPush`,
then `StrayPush` at any later time, or never); and a duplicate developer, started in an earlier
stage, commits (`LateCommit`) and pushes whatever has become of the task. The second is the
duplicate of `late_commit_unreviewed`. Such pushes are the exception that `LandsWhatWasApproved`
and `OfferIsFresh` name (`strayed`), and the only one. An abandoned push carries HEAD as of the moment it was
abandoned: a thread that reads HEAD only later pushes what a later push of HEAD would.

Outside the agent the database may fail as well: the load, the compare-and-swap, the marking
of an expired deadline. The exception leaves the handler, arq ends the job (`JobDies`), and
nothing chains another. The task stays in PR_CREATION until a worker starts (`Restart`, its sweep)
or its user cancels it; `LeavesCreation` says that this is the only way to stay.

A call that brings no usable answer (`NoAnswer`, `PutUnanswered`) has acted or has not; the
attempt is repeated up to `MaxRetries` times, as `_request` does for a timeout, a
rate limit or a 5xx, or fails, as it does at once for the permanent errors. Whatever
ends the worker or the request without an answer at any step is `WorkerCrash`, `Deadline` or `MergeFails`.

`Resume` stands for recovery and all states up to VERIFICATION and brings a new
commit on the same branch, pushed by its developer or not yet, and a new job; that PR_CREATION is left by `Cancel`, `TimeoutMark` and `Deadline`
is copied from `TaskLifecycle`. Abstracted: the comment on the issue, the mock
provider, the allowlist and missing configuration (they deny before anything
is changed), the task's text.

### LLMCall and ToolLoop

| Variable | In the code |
|---|---|
| `chain`, `strict` | the models `build_provider` finds for a role; whether malformed output is raised at once |
| `llm` | the request: the model asked, its retries (`attempt`), the hops, the retries of the chain (`pass`), the result |
| `asks` | history: requests to each model |
| `agent`, `pc` | whose run it is and where: propose, execute, record, rerecord, synthesize |
| `call` | the tool call under way and how its execution ended |
| `spent` | `ToolBudget`'s two counters, or the turns of a `for` loop |
| `head`, `dirty`, `pushed` | what the run did to the worktree and the fork |
| `sha` | the developer's `commit_sha` |
| `session` | whether the database session waits for a rollback |
| `ran`, `rows` | history: executed calls, and their `tool_calls` rows |
| `draft`, `artifact` | the attempts at the artifact, and the row the run leaves |

The six agents run one loop with small differences, and the model has one loop with a
`Profile` of each: its capabilities, which budget it counts with, what it does when the
pipeline raises (research rolls back, the developer goes on, the others fail as they
write to their audit log), and what follows two bad artifacts. A request is `Prompt`,
replies of the models (`LLMStep`) and what the agent makes of the result
(`MalformedProposal`, `LLMFails`, `FinalProposal`, `RefuseCall`, `DenyCall`, `AdmitCall`,
and `Complete`, `Ungrounded`, `InvalidPlan`, `MalformedArtifact` for artifacts).
A call that passes the gates is executed (`Execute`: it returns, raises, or raises
after it has acted) and recorded (`Record`), and a row that is refused is tried once
more as FAILED (`Rerecord`), after which the pipeline raises (`RerecordFails`).

`ImplementsGate` maps the runs of the planner, the researcher and the developer; the debugger's,
the reviewer's and the security agent's loops read only (`ReadersOnlyRead`), and `ReviewGate` has their
verdicts. A commit whose answer or row is lost maps to `LoseAck`.

Abstracted: what messages and files say; one tool for each capability and two without;
redaction; waiting times. Any failing request may be any model's fault: which HTTP status
is which kind of failure is the table in `openai_compat.py`, and the reply is chosen among the kinds.

### Workspace

| Variable | In the code |
|---|---|
| `installs` | `repositories.install_command` is set |
| `clone`, `cloner` | the directory of the clone: absent, a directory, a git directory without branches, whole; who fills it |
| `branch`, `tree` | the branch `agent/task-...` and the worktree directory |
| `row` | active `worktrees` rows of the task |
| `venv` | the task's virtual environment: absent, half made, whole |
| `job` | each job: where it is, its task, whether it has retried, whether it has been undisturbed so far |
| `contested` | history: a directory another job was using was removed |

The steps are the code's calls to git, venv and pip, and the tests between
them: nothing locks. `Create` – `EnsureClone` – `Wait` – `Remove` is the way through
`_ensure_clone`, `StartClone` – `FillClone`\* what git does meanwhile (external), `Lost`
its failure branch; `ReadHead`, `CheckPath`, `AddWorktree`, `Insert` are `create`;
`Again` is the `except` of `get_or_create_for_task` with its one retry. `Provision`,
`MakeVenv`, `Pip` are `install_dependencies`, and a job at `suite` runs the tests.

Abstracted: `local_clone_path` (the same path); a clone inside another repository, where
`rev-parse` is always true; git's permission to clone into an empty directory; several
repositories, which share nothing. `WorktreeManager.discard` is called by tests only.

## Runs

| Run | Shows | Instance |
|---|---|---|
| `lifecycle_recovery` | type invariant; the trail explains the status; `TaskLifecycle` implements `TaskMachine` | 2 slots, 1 replan, 2 faults of crash, restart, lost enqueue, database error; stale reviews |
| `lifecycle_rest` | a task that must move has a job that will move it; `ImplementationBudget` and the ledger behind it; every task comes to rest, each step leaving it less to do; a lost first enqueue is noticed | 1 slot, 2 replans, 3 of deadline, lost enqueue, cron, a cron that dies; fair |
| `gate_release` | the commit in hand, the release gate, the right fix instruction; `ReviewGate` implements `TaskMachine`; the gates lead to an end, step by step | 1 slot, 2 replans, 5 commits, 2 of crash, lost answer, overtaken, false claim of flakiness; fair |
| `pr_release` | only what was approved last is merged, once; the offer is the verified commit in the one open pull request, in both cases but for a stray push; PR_CREATION fails for faults of its own time only, and is left unless database errors outside the agent took every job | 1 slot, 1 retry, 3 commits, 2 foreign commits, 3 of crash, database error, late commit, failed push, lost answer, deadline; fair |
| `tool_loop` | requests are bounded and given up last; executed calls are recorded and within budget; readers only read; the developer's commit is the whole change; a run ends, and every step but the named ones brings it nearer; `ToolLoop` implements `ReviewGate` | each of the six agents, chains of 0 to 2 models, 1 retry, 1 hop, 3 calls, 2 rejections, 2 of crash, database error, lost commit; fair |
| `workspace` | a job works in the one registered worktree of its task, which keeps its clone; a job that nobody disturbs fails on three leftovers only; no suite on an environment half made | 2 jobs, 2 tasks, 2 of crash, failed clone, database error, failed install |

Two slots are enough for a race, since every race here is between two jobs, or a
job and one other writer; one replan lets a task go round and still run out of
budget. `MaxFaults` of 2 allows a duplicate job and one more event; in
`lifecycle_rest` the bound of 3 stops nothing, because the budget ends the
behaviour first. `ComesToRest` and `NoStrandedTask` except a task the stale-CREATED sweep
has counted (`attempts` is not 0): it may be given two jobs, and run with them for ever
through stale deduplication keys, or be failed while its first job waits. Stale reviews (`lifecycle_recovery`) are not counted, so a task may loop
between TESTING and VERIFICATION as in the code.

In `gate_release` three developer runs can happen for the budget's sake and two
more commits come from crashed or unanswered ones, so 5 commits stop nothing the
faults allow; a replan from each source can follow one from each other.
A false claim of flakiness is a counted fault because such a failure goes from
REVIEWING to VERIFICATION and back to TESTING without spending budget, for as
long as the tests fail and the model keeps saying so: without a bound the task
would not come to rest. `ReleaseGate` and `OneCommitInHand` are checked and proved for one slot;
`late_commit_unreviewed` is what two slots do to them.

In `pr_release` three commits make three rounds, or two with a late commit. Three rounds let a merge go unrecorded in one, its pull request be found
closed in the next and an adopted one be left behind by the last; three faults cover a
merge without a record, the overwrite of the approval that brings the next round, and a
crash inside it. TLC also passes with four commits. With two slots `LandsWhatWasApproved` and
`LeavesCreation` still hold (the latter checked with smaller bounds); `MergedOnce`, `OfferIsFresh` and `FailuresAreFaults` do
not, because the slower agent pushes, creates or persists after the faster one's task
was offered.

In `tool_loop` three calls leave room for a write, a commit and one more, which a second
commit needs when the first was lost; two rejections exhaust the other counter; two
refused rows make the pipeline raise once. Two models, one retry and one hop let each
bound stop something before and after a hop. `ComesToEnd` allows a run to go on for ever in one way
only, on malformed proposals, which the code does not count.

In `workspace` two jobs are what every race needs; two tasks share a clone and nothing else. Two faults
leave one obstacle behind and hit the job that meets it. `LoneJobHeals` speaks of a job
that was alone from its start to its failure, with no fault in between, but with whatever earlier
jobs and faults left.

`NearsItsEnd`, in three of the modules, names a tuple of numbers (`ToDo`), earlier ones
outweighing later ones, that every step lowers but for the steps the property lists: a pass
of the stale-CREATED sweep that has not counted the task yet; the developer's writes and
pushes in `ReviewGate`, which no budget bounds there; malformed proposals in `ToolLoop`, which
the code does not count. `ComesToRest` and `ComesToEnd` say *that* there is an end, under
fairness; `NearsItsEnd` says *why*, without fairness, and is an action property, so it can
be proved. In `TaskLifecycle` and `ReviewGate` it is a property of one slot: a second job
makes an agent's verdict meet a row that has gone round, and a stale review is the one
cycle that costs nothing. `Faults` of `lifecycle_rest` has no stale review for that reason.

`CHECK_DEADLOCK` is off: a task, a run or a job at rest has nothing left to do.

### What the code does not keep

Six runs check a sentence of the code's own documentation and end in a
counterexample; PROJECT.json quotes each sentence.

* `reject_resumed` – a rejected task is resumed by a job left in the queue:
  `next_status` stops only at `user_cancelled`.
* `cancel_resumed` – the deadline's failure marking is not the compare-and-swap
  it says it is. It overwrites COMPLETED and ESCALATED in the same way.
* `late_commit_unreviewed` – verification compares HEAD with the latest summary,
  not with what was reviewed: a duplicate developer's commit passes unreviewed.
* `unseen_commit` – after a replan the pull request holds two commits, of which reviewer
  and security agent were only ever shown the last.
* `spurious_failure` – two jobs and no fault: the second takes the first's half-made
  clone for a clone, retries at once, and fails its task.
* `stale_never_heals` – when HEAD is ahead of the latest summary, the way from
  VERIFICATION to TESTING comes back to VERIFICATION without end or cost.

These say under which conditions the passing runs hold. `lifecycle_recovery` has
neither the deadline nor the cron, the two writers without a lock, and
`lifecycle_rest` has one slot and no crash or restart, since those make a job
run under an id that is not the status it finds. With two slots even a slow
`Finish` is enough: the chain of another job can come round to the id of a key
that is about to be deleted.

Seen in the code, and in the model where it is in scope, but with no run:

* a job swept under one status that finds a later one can reach the status of its own
  id and chain itself away (`worker/jobs/advance_task.py:179`), although
  `worker/queue.py:36` says the chain "can never dedupe itself away";
* the compare-and-swap compares statuses, not visits: a verdict survives a trip through
  FAILED and back (`runtime/task_lifecycle.py:422`);
* a clone cut short, a worktree without its row and an environment half made are never
  cleaned up (`Obstacle` in `Workspace`), although `repository/discovery.py:34` says a
  stale directory is removed and re-cloned; and the `rmtree` after the three seconds hits
  whatever the directory has become by then (`contested`);
* a clone directory that vanishes under a job raises `FileNotFoundError`, which
  `get_or_create_for_task` does not catch;
* the row of a call is added but not flushed before the tool runs
  (`execution/tool_pipeline.py:200`), so a crash leaves no row, where the docstring (`:14`)
  promises one with status ALLOWED;
* "bounded by the budget" (`agents/researcher/agent.py:150`): malformed proposals are not
  charged;
* "rather than failing the whole task" (`agents/researcher/agent.py:293`): two malformed
  artifacts end in a failed assertion;
* the planner leaves its INVALID row for a timeout and for bad plans, not for other errors
  of its provider;
* the stale-CREATED sweep counts an attempt for every old CREATED row, also when
  the job only waits for a slot (`worker/worker.py:106`);
* "let arq retry" (`worker/jobs/advance_task.py:158`): arq ends a job for an
  ordinary exception; `lifecycle_rest` therefore has no database error;
* FLAKY_TEST is also accepted from the model (`agents/debugger/agent.py:421`), and
  a flaky classification is linked to the re-run, which passed (`:154`);
* "exactly one commit per run" counts answers, not commits
  (`agents/developer/agent.py:232`), and a commit stages whatever a failed run
  left in the worktree (`git/operations.py:160`);
* the merge call names no head (`github/client.py:360`), so a push that arrives between the approval and
  the merge, from an abandoned thread or a late duplicate developer, lands what nobody has approved;
* a database error while the transition is applied leaves a task without a job
  (`runtime/task_lifecycle.py:409`), in PR_CREATION as in every other state, until a worker restarts;
* a merge whose answer is lost, or whose process dies, is never recorded: the
  next request finds the pull request closed and is denied (`tools/github_tools.py:390`);
* "GitHub must report mergeable == True" (`tools/github_tools.py:398`), but only an
  explicit `False` is refused, and GitHub answers `null` while it has not computed it.

### Fairness

`FairSpec` assumes that a live worker keeps taking steps and that arq keeps handing it
jobs, that the create request is answered (with or without the enqueue), that
the cron fires (every minute in `WorkerSettings`) and that a started startup sweep
finishes. Human decisions, faults and restarts are never assumed. In `ReviewGate` a slot keeps taking `Progress` steps, which
include giving up without a commit; writing and committing are not among them. In `PullRequests`
the agent and a started merge request go on; decisions, merge requests, GitHub's other
users, late pushes, restarts and faults are never assumed. `AgentCommit` is
not fair: an agent may return without one; that agents return at all is what
their budgets and the inner deadline are for. In `ToolLoop` a live worker goes on with the
run, and a request is answered or times out. `Workspace` has no liveness property.

## Proofs

`TaskLifecycleProofs` proves, for any number of slots, any budget and any number
and choice of faults unless said otherwise (assumption: `ConstantsAssumption`, types and distinctness):

* `TypeCorrect` – `Spec => []TypeOK`. `TypeOK` is inductive because it also says
  where the lock may be (`lock # Free => wk[lock].pc = "agent"`) and that a slot
  about to compare, chain or overwrite has a status to do it with.
* `LedgerBalances`, `WithinBudget` – the developer runs at most `MaxReplans + 1` times.
  The bound alone is not inductive: `BudgetLedger` says that each run is paid for
  in `replan_count` before it starts, and what REPLANNING and RESEARCHING have
  paid already. It holds with every fault, because the unlocked writers only write
  FAILED.
* `Refinement` and `TrailIsFaithful` – under `NoBlindWriter` (no inner deadline
  fires and the cron is off) `TaskLifecycle` implements `TaskMachine`, and the trail
  explains every change of status. `NobodyIsBlind` is the invariant that carries it.
* `CancelStays` – `CancelIsFinal` under `NoBlindWriter`, with any number of slots, crashes,
  restarts and duplicate jobs. `cancel_resumed` refutes the property with the deadline, so
  the fault lies with the writers that take no lock and with nothing else.
* `NotStranded` – `Spec => []NoStrandedTask` under `OneSteadySlot`: one slot, `MaxAttempts`
  not 0, no crash, restart or database error outside the agents; the inner deadline,
  the sweep and a lost first enqueue may happen. Its invariant, `Served`, follows the one job: its key is
  the only one until it has chained, and what it chains is never its own status, which arq
  would drop as a duplicate (`OnlyJob`). TLC finds a stranded task as soon as any one
  of these assumptions is dropped.
* `EndIsNear` – `Spec => NearsItsEnd` under `OneSteadyReview`: `OneSteadySlot` and no stale
  review. The rank is faults, replans, the create request, the way of the status, the turn of
  the job. Besides `Served` it needs the account of replans (`EndInv`): at most one above
  `MaxReplans`, only on the way to ESCALATED or under a cancellation, and never while
  an agent or the deadline holds a view of the row, whose overwrite would start a recovery.

The step proofs about the row go through `RowWriters`: a step leaves the row alone or is one of
five kinds of write. `NextStatusIsLegal`, `VerdictIsLegal` and `VerdictTargets` tie
the driver and the handlers to the legal table.

`ReviewGateProofs` (assumption: `GateAssumption`, types):

* `TypeCorrect` and `Refinement` – for any number of slots at work at once. The
  types need to know which agent a slot's step belongs to (`SlotsOK`); the refinement
  needs `Ledger`, the budget's bookkeeping again.
* `CommitInHand` and `Released` – under `OneWorker`, any faults, any number of commits
  and replans. Neither is inductive: `GateInv` says what evidence each
  status needs (`Evidence`), and that a slot's pending decision already has the
  evidence of the status it names, and its agent's commit is still the head
  (`UpToDate`).
* `FixIsTheLastAsked` – under `OneWorker`; whoever asked last is newer than all
  others (`LastAskedIsLatest`), and nobody answers between the asking and the
  developer's start (`InstructionWriters`).
* `EndIsNear` – `Spec => NearsItsEnd` under `OneWorker`. A task whose suite failed has a
  longer way to go (`MustReturn`): VERIFICATION will send it back to TESTING, once for
  each false claim of flakiness, which is a fault. Its invariant, `EndInv`, bounds the
  replans by budget and faults, and knows that the tester's verdict is that of its run.
* `HeadIsReviewed` – `Spec => ReviewedIsHead` under `OneWorker`, from `GateInv`.

`OneWorker` is not a convenience: `late_commit_unreviewed` refutes `ReviewedIsHead` with two.

`PullRequestsProofs` (assumption: `PullRequestsAssumption`, types), for any number of
agents at once, rounds, retries and faults:

* `TypeCorrect` – inductive because `SlotsOK` ties the lock to who is pushing or merging.
* `Approved` – `Spec => LandsWhatWasApproved`. Its invariant, `BranchIsHeld`:
  a COMPLETED task is approved and its branch still at the commit approved, unless a stray push
  has moved it since; whoever holds the lock to push does so in PR_CREATION, and a merge request is under way only
  while the task is COMPLETED. It is not enough that the endpoint checks: the agents push
  under the lock that the endpoint holds. What the theorem leaves open is just what the code
  leaves open, the pushes that take no lock.

The same module under `OneSlot`, at most one job at a time running the agent, for any
rounds, retries and faults:

* `Offer` – `Spec => []OfferIsFresh`. Its invariant, `Fresh`: an agent at work is the
  task's own unless the user has cancelled, so what it has pushed stays the
  round's commit, stray pushes and late commits excepted; an open pull request is always the newest and unmerged.
* `OneMerge` – `Spec => []MergedOnce`. The row's record cannot be relied on, since it may
  be missing; `Spent` says what replaces it: a COMPLETED task whose pull request is open
  has not merged its commit, and a task leaves COMPLETED only for a later commit.
* `CostOfFailures` – `Spec => []FailuresAreFaults`. An agent about to fail, or about to
  POST beside an open pull request, has met a fault that no failure is counted for
  (`Paid`).

With two agents TLC finds a counterexample to each of the three.

`LLMCallProofs` and `ToolLoopProofs` (assumptions: `LLMAssumption`, `LoopAssumption`), for
any chain, retries, hops, budgets and faults:

* `LoopTypesHold`, `LoopRequestsBounded`, `LoopGivesUpLast` – types, and the two bounds of a
  request. That a request is given up last is inductive only with what a pass has asked so
  far: each model before the current one its full share, the current one as often as its
  attempts say, multiplied by the passes gone by.
* `LoopKeepsItsBooks`, `LoopKeepsItsBudget` – executed calls are recorded, each one without
  its row having cost two faults or the process, and the recorded ones are within the
  budget. It carries along what `session` and `pc` say about faults under way.
* `LoopReadersRead`, `LoopCommitsOnce` – readers only read, since no call reaches `Execute`
  that the gates did not let through; and the named commit is the clean head.
* `LoopNearsItsEnd` – `NearsItsEnd`, for all agents and any number of faults. The rank is
  turns, steps of the turn, corrections, then the request: whether it is asked, its passes,
  models and retries.
* `LoopImplementsGate` – `ImplementsGate` for every budget: each action of a mapped run is
  shown to be one of `ReviewGate`'s actions of its slot, or a step it does not see. `GateInv`
  is what this needs beyond `LoopInv`: a run that goes on has left no row, and it has
  committed at most once for each turn it was charged for, which bounds the commits and
  the faults that `ReviewGate` is instantiated with.

`WorkspaceProofs` (assumption: `WorkspaceAssumption`), for any number of jobs, tasks and faults:

* `TypeCorrect`, `Registration`, `WholeWorktrees` – `TypeOK`, `WorkspaceIsOne` and
  `WorktreesStayWhole`. Inductive with `Registered`: at most one job is between
  `git worktree add` and the row, because git refuses the second one.
* `Healing` – `LoneJobHeals`. Its invariant, `Undisturbed`, says what a job that has been
  alone finds at each of its points.
* `Provisioned` – `SuiteIsProvisioned`.

`RanksProofs` holds one lemma about tuples of four, which `ReviewGate`'s rank is. What the
`NearsItsEnd` theorems come to differs: in `TaskLifecycle` and `ReviewGate` the named steps leave
the rank as it is, so all other steps of a behaviour are finitely many; in `ToolLoop` a malformed
proposal raises the rank, so `Prompt`, `LLMStep` and `MalformedProposal` can recur for ever.

That is as far as this prover goes. Only model-checked:
`ComesToRest`, `ComesToEnd`, `CreatedIsLeft` and `LeavesCreation`, which say that
the system does not stop before the end; that needs fairness and ENABLED.

The six refuted properties have no theorem as they stand. Two hold under a condition that
says where the fault lies (`CancelStays`, `HeadIsReviewed`). `RejectIsFinal` and
`EveryCommitIsReviewed` fail with one slot and no fault, so no condition of that kind is
left; `RacesAreResolved` is about races, and a job that has none is `LoneJobHeals`';
`StaleIsOvercome` is a liveness property.

## Not modelled, and the plan

* `WorktreeManager.discard` (nothing but tests calls it), the allowlists of commands, the
  parsing of test output, redaction: text.
* The trace view, the CLI, logging and the HTML templates only read. Prompts and
  schemas are text; the migrations are data; the mock providers stand in for models.

What is left to do: `ReviewGate` and `PullRequests` in one module, so that the commit of a late
developer would come from that developer's own run instead of from a fault (`LateCommit`), and a
module of several tasks around one pool of workers, which share nothing but the slots.
