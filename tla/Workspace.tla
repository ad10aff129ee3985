----------------------------- MODULE Workspace -----------------------------
(***************************************************************************)
(* Where the agents work: the cached clone of one repository, a worktree   *)
(* on a branch of its own for every task, its row, and the virtual         *)
(* environment beside it.  Jobs of the same or of different tasks of the   *)
(* repository ask for them at the same time; a job the deadline has        *)
(* cancelled goes on in its thread, like any other job here.  No lock is   *)
(* taken: what git refuses is what keeps the jobs apart.                   *)
(*                                                                         *)
(* git clone creates its directory, makes a git directory of it, fetches,  *)
(* and only then knows the default branch.  rev-parse --git-dir, the test  *)
(* of the code for a clone, is true from the second step on.               *)
(***************************************************************************)
EXTENDS Naturals

CONSTANTS
    Jobs,       \* jobs (or threads left over from one) at a time
    Tasks,      \* tasks of the repository
    Faults,     \* which of AllFaults may happen
    MaxFaults   \* bound: how many of them

AllFaults ==
    {"crash",        \* the process dies with the commands it has started
     "clone_fails",  \* git clone gives up and takes its directory with it
     "db_error",     \* the database refuses the row
     "no_install"}   \* venv or pip fails or runs out of time

ASSUME WorkspaceAssumption ==
    /\ "none" \notin Jobs
    /\ Faults \subseteq AllFaults
    /\ MaxFaults \in Nat

VARIABLES
    installs,   \* the repository has an install_command
    clone,      \* the directory of the clone
    cloner,     \* the job whose git clone fills that directory
    branch,     \* the task's branch exists in the clone
    tree,       \* the task's worktree directory exists
    row,        \* active worktree rows of the task
    venv,       \* the task's virtual environment
    job,        \* what each job is doing
    contested,  \* history: a directory another job used was removed
    faults      \* how many faults have happened

disk == <<clone, cloner, branch, tree, venv, contested>>
vars == <<installs, disk, row, job, faults>>

(* absent; dir: a directory and no more; half: a git directory without the *)
(* remote's branches; full.                                                *)
Clones == {"absent", "dir", "half", "full"}
Venvs == {"absent", "half", "full"}

(* create   clone_if_absent begins                                         *)
(* wait     the path exists and is no git directory yet                    *)
(* remove   it never became one, rmtree is next                            *)
(* clone    git clone is next                  cloning  git clone runs     *)
(* lost     git clone has failed               raze     ... and left a mess *)
(* head     the clone is taken for one         path, add, insert  the      *)
(*                                             worktree and its row        *)
(* again    an error the loop catches                                      *)
(* ready    the worktree is at hand            venv, pip, suite  the tester *)
Points ==
    {"idle", "create", "wait", "remove", "clone", "cloning", "lost", "raze",
     "head", "path", "add", "insert", "again", "ready", "venv", "pip",
     "suite", "failed"}
WithWorktree == {"ready", "venv", "pip", "suite"}

Init ==
    /\ installs \in BOOLEAN
    /\ clone = "absent"
    /\ cloner = "none"
    /\ branch = [t \in Tasks |-> FALSE]
    /\ tree = [t \in Tasks |-> FALSE]
    /\ row = [t \in Tasks |-> 0]
    /\ venv = [t \in Tasks |-> "absent"]
    /\ job \in [Jobs -> [pc : {"idle"}, task : Tasks, retried : {FALSE},
                         alone : {FALSE}]]
    /\ contested = FALSE
    /\ faults = 0

At(j, pc) == job[j].pc = pc
To(j, pc) == job' = [job EXCEPT ![j].pc = pc]
Task(j) == job[j].task

(* A fault spoils the run of every job.                                    *)
FaultTo(kind, j, pc) ==
    /\ kind \in Faults
    /\ faults < MaxFaults
    /\ faults' = faults + 1
    /\ job' = [i \in Jobs |-> [job[i] EXCEPT !.alone = FALSE,
                                 !.pc = IF i = j THEN pc ELSE @]]

-----------------------------------------------------------------------------
(* get_or_create_for_task: the row, or two attempts at making one.         *)
Start(j) ==
    /\ At(j, "idle")
    /\ \E t \in Tasks :
          job' = [i \in Jobs |->
             IF i # j THEN [job[i] EXCEPT !.alone = FALSE]
             ELSE [pc |-> IF row[t] > 0 THEN "ready" ELSE "create",
                   task |-> t, retried |-> FALSE,
                   alone |-> \A k \in Jobs \ {j} : At(k, "idle")]]
    /\ UNCHANGED <<installs, disk, row, faults>>

(* Mutant: a worktree on disk is as good as its row.                       *)
AgainTrustsPath(j) ==
    /\ At(j, "again")
    /\ IF tree[Task(j)] THEN To(j, "ready")
       ELSE IF job[j].retried THEN To(j, "failed")
       ELSE job' = [job EXCEPT ![j].pc = "create", ![j].retried = TRUE]
    /\ UNCHANGED <<installs, disk, row, faults>>

(* A DirtyWorktreeError or GitOperationError: the winner's row, or once    *)
(* more.                                                                   *)
Again(j) ==
    /\ At(j, "again")
    /\ IF row[Task(j)] > 0 THEN To(j, "ready")
       ELSE IF job[j].retried THEN To(j, "failed")
       ELSE job' = [job EXCEPT ![j].pc = "create", ![j].retried = TRUE]
    /\ UNCHANGED <<installs, disk, row, faults>>

-----------------------------------------------------------------------------
(* The clone.                                                              *)
IsGitDir == clone \in {"half", "full"}

(* Mutant: whatever is at the path is taken for a clone.                   *)
CreateTrustsPath(j) ==
    /\ At(j, "create")
    /\ To(j, IF row[Task(j)] > 0 THEN "again"
             ELSE IF clone = "absent" THEN "clone" ELSE "head")
    /\ UNCHANGED <<installs, disk, row, faults>>

(* _ensure_clone: where the way to a clone begins.                         *)
EnsureClone ==
    IF clone = "absent" THEN "clone" ELSE IF IsGitDir THEN "head" ELSE "wait"

(* create: a row that appeared since is an error.                          *)
Create(j) ==
    /\ At(j, "create")
    /\ To(j, IF row[Task(j)] > 0 THEN "again" ELSE EnsureClone)
    /\ UNCHANGED <<installs, disk, row, faults>>

(* About three seconds.  A directory that vanishes is noticed, or git is   *)
(* started in it, which raises what nobody catches.                        *)
Wait(j) ==
    /\ At(j, "wait")
    /\ \/ IsGitDir /\ To(j, "head")
       \/ clone = "dir" /\ To(j, "remove")
       \/ clone = "absent" /\ \E pc \in {"clone", "failed"} : To(j, pc)
    /\ UNCHANGED <<installs, disk, row, faults>>

(* rmtree, on whatever is there by now.                                    *)
RemoveClone ==
    /\ clone' = "absent"
    /\ cloner' = "none"
    /\ branch' = [t \in Tasks |-> FALSE]
    /\ contested' = (contested \/ IsGitDir \/ cloner # "none")
    /\ UNCHANGED <<tree, venv>>

Remove(j) ==
    /\ \/ At(j, "remove") /\ To(j, "clone")
       \/ At(j, "raze") /\ To(j, "again")
    /\ RemoveClone
    /\ UNCHANGED <<installs, row, faults>>

(* git clone refuses a directory that exists.                              *)
StartClone(j) ==
    /\ At(j, "clone")
    /\ \/ /\ clone = "absent"
          /\ clone' = "dir"
          /\ cloner' = j
          /\ To(j, "cloning")
       \/ /\ clone # "absent"
          /\ To(j, "lost")
          /\ UNCHANGED <<clone, cloner>>
    /\ UNCHANGED <<installs, branch, tree, venv, contested, row, faults>>

FillClone(j) ==
    /\ At(j, "cloning")
    /\ cloner = j
    /\ \/ /\ clone = "dir"
          /\ clone' = "half"
          /\ UNCHANGED <<cloner, job>>
       \/ /\ clone = "half"
          /\ clone' = "full"
          /\ cloner' = "none"
          /\ To(j, "head")
    /\ UNCHANGED <<installs, branch, tree, venv, contested, row, faults>>

(* git clone fails of its own, or because its directory is gone; it cleans *)
(* up the path, in the second case whatever another job has put there.     *)
CloneFails(j) ==
    /\ At(j, "cloning")
    /\ \/ /\ cloner = j
          /\ FaultTo("clone_fails", j, "lost")
          /\ clone' = "absent"
          /\ cloner' = "none"
          /\ UNCHANGED <<branch, tree, venv, contested>>
       \/ /\ cloner # j
          /\ To(j, "lost")
          /\ RemoveClone \/ UNCHANGED disk
          /\ UNCHANGED faults
    /\ UNCHANGED <<installs, row>>

(* The winner's clone is used; anything else is removed, and the error is  *)
(* raised.                                                                 *)
Lost(j) ==
    /\ At(j, "lost")
    /\ To(j, IF IsGitDir THEN "head"
             ELSE IF clone = "absent" THEN "again" ELSE "raze")
    /\ UNCHANGED <<installs, disk, row, faults>>

-----------------------------------------------------------------------------
(* The worktree.                                                           *)

(* The commands are detected (a listing that fails detects none) and the   *)
(* head of the default branch is read, which needs a whole clone.          *)
ReadHead(j) ==
    /\ At(j, "head")
    /\ To(j, CASE clone = "full"   -> "path"
               [] clone = "absent" -> "failed"
               [] OTHER            -> "again")
    /\ UNCHANGED <<installs, disk, row, faults>>

CheckPath(j) ==
    /\ At(j, "path")
    /\ To(j, IF tree[Task(j)] THEN "again" ELSE "add")
    /\ UNCHANGED <<installs, disk, row, faults>>

(* Mutant: the branch and the directory of an earlier attempt are reused.  *)
AddReusing(j) ==
    /\ At(j, "add")
    /\ clone = "full"
    /\ To(j, "insert")
    /\ branch' = [branch EXCEPT ![Task(j)] = TRUE]
    /\ tree' = [tree EXCEPT ![Task(j)] = TRUE]
    /\ UNCHANGED <<installs, clone, cloner, venv, contested, row, faults>>

(* Mutant: nobody looks whether git has refused.                           *)
AddUnchecked(j) ==
    /\ At(j, "add")
    /\ To(j, "insert")
    /\ IF clone = "full" /\ ~branch[Task(j)] /\ ~tree[Task(j)]
       THEN /\ branch' = [branch EXCEPT ![Task(j)] = TRUE]
            /\ tree' = [tree EXCEPT ![Task(j)] = TRUE]
       ELSE UNCHANGED <<branch, tree>>
    /\ UNCHANGED <<installs, clone, cloner, venv, contested, row, faults>>

(* git worktree add -b, refused when the branch or the directory exists.   *)
AddWorktree(j) ==
    /\ At(j, "add")
    /\ \/ /\ clone = "full" /\ ~branch[Task(j)] /\ ~tree[Task(j)]
          /\ To(j, "insert")
          /\ branch' = [branch EXCEPT ![Task(j)] = TRUE]
          /\ tree' = [tree EXCEPT ![Task(j)] = TRUE]
       \/ /\ clone # "full" \/ branch[Task(j)] \/ tree[Task(j)]
          /\ To(j, IF clone = "absent" THEN "failed" ELSE "again")
          /\ UNCHANGED <<branch, tree>>
    /\ UNCHANGED <<installs, clone, cloner, venv, contested, row, faults>>

Insert(j) ==
    /\ At(j, "insert")
    /\ \/ /\ To(j, "ready")
          /\ row' = [row EXCEPT ![Task(j)] = @ + 1]
          /\ UNCHANGED faults
       \/ /\ FaultTo("db_error", j, "failed")
          /\ UNCHANGED row
    /\ UNCHANGED <<installs, disk>>

-----------------------------------------------------------------------------
(* The tester provisions the environment and runs the suite; the other     *)
(* agents do their work in the worktree.                                   *)
Work(j) ==
    /\ At(j, "ready")
    /\ To(j, "idle")
    /\ UNCHANGED <<installs, disk, row, faults>>

(* install_dependencies: without an install_command nothing is done; a     *)
(* directory that exists is not made again.                                *)
Provision(j) ==
    /\ At(j, "ready")
    /\ \/ /\ ~installs
          /\ To(j, "suite")
          /\ UNCHANGED venv
       \/ /\ installs /\ venv[Task(j)] # "absent"
          /\ To(j, "pip")
          /\ UNCHANGED venv
       \/ /\ installs /\ venv[Task(j)] = "absent"
          /\ To(j, "venv")
          /\ venv' = [venv EXCEPT ![Task(j)] = "half"]
    /\ UNCHANGED <<installs, clone, cloner, branch, tree, contested, row,
                   faults>>

MakeVenv(j) ==
    /\ At(j, "venv")
    /\ \/ /\ To(j, "pip")
          /\ venv' = [venv EXCEPT ![Task(j)] = "full"]
          /\ UNCHANGED faults
       \/ /\ FaultTo("no_install", j, "failed")
          /\ UNCHANGED venv
    /\ UNCHANGED <<installs, clone, cloner, branch, tree, contested, row>>

(* Mutant: an environment without pip is left to the ambient one.          *)
PipOnHalf(j) ==
    /\ At(j, "pip")
    /\ To(j, "suite")
    /\ UNCHANGED <<installs, disk, row, faults>>

(* pip is the environment's own; in one half made there is none.           *)
Pip(j) ==
    /\ At(j, "pip")
    /\ \/ To(j, IF venv[Task(j)] = "full" THEN "suite" ELSE "failed")
          /\ UNCHANGED faults
       \/ FaultTo("no_install", j, "failed")
    /\ UNCHANGED <<installs, disk, row>>

Finish(j) ==
    /\ At(j, "suite") \/ At(j, "failed")
    /\ To(j, "idle")
    /\ UNCHANGED <<installs, disk, row, faults>>

(* What git and venv had begun is left as it is; git worktree add makes    *)
(* the branch before the directory.                                        *)
Crash(j) ==
    /\ ~At(j, "idle")
    /\ FaultTo("crash", j, "idle")
    /\ cloner' = IF cloner = j THEN "none" ELSE cloner
    /\ \/ UNCHANGED branch
       \/ /\ At(j, "add") /\ clone = "full" /\ ~tree[Task(j)]
          /\ branch' = [branch EXCEPT ![Task(j)] = TRUE]
    /\ UNCHANGED <<installs, clone, tree, venv, contested, row>>

Next ==
    \E j \in Jobs :
       \/ Start(j) \/ Again(j)
       \/ Create(j) \/ Wait(j) \/ Remove(j)
       \/ StartClone(j) \/ FillClone(j) \/ CloneFails(j) \/ Lost(j)
       \/ ReadHead(j) \/ CheckPath(j) \/ AddWorktree(j) \/ Insert(j)
       \/ Work(j) \/ Provision(j) \/ MakeVenv(j) \/ Pip(j) \/ Finish(j)
       \/ Crash(j)

Spec == Init /\ [][Next]_vars

-----------------------------------------------------------------------------
(* Properties.                                                             *)

(* Types; the branches are in the clone, and go with it.                   *)
TypeOK ==
    /\ installs \in BOOLEAN
    /\ clone \in Clones
    /\ cloner \in Jobs \cup {"none"}
    /\ branch \in [Tasks -> BOOLEAN]
    /\ tree \in [Tasks -> BOOLEAN]
    /\ row \in [Tasks -> 0 .. 1]
    /\ venv \in [Tasks -> Venvs]
    /\ job \in [Jobs -> [pc : Points, task : Tasks, retried : BOOLEAN,
                         alone : BOOLEAN]]
    /\ contested \in BOOLEAN
    /\ faults \in 0 .. MaxFaults
    /\ \A t \in Tasks : branch[t] => clone = "full"

(* Whoever works on a task works in the one worktree that is registered    *)
(* for it (git/worktree_manager.py: "no double-processing").               *)
WorkspaceIsOne ==
    \A j \in Jobs : job[j].pc \in WithWorktree =>
       row[Task(j)] = 1 /\ tree[Task(j)]

(* A registered worktree keeps the clone and the branch it was added from, *)
(* through crashes and failures, unless a job removed a directory another  *)
(* one was using (repository/discovery.py: "Deleting it would corrupt the  *)
(* winner's clone").                                                       *)
WorktreesStayWhole ==
    \A t \in Tasks : row[t] > 0 => tree[t] /\ (branch[t] \/ contested)

(* What stands in the way of every later job of the task: a clone cut      *)
(* short, a worktree or branch without its row, an environment half made.  *)
Obstacle(t) ==
    \/ clone = "half"
    \/ row[t] = 0 /\ (tree[t] \/ branch[t])
    \/ installs /\ venv[t] = "half"

(* A job that nobody disturbs makes up for whatever was left behind but    *)
(* for those three (repository/discovery.py: "A stale/missing cache dir is *)
(* removed and re-cloned").                                                *)
LoneJobHeals ==
    \A j \in Jobs : At(j, "failed") /\ job[j].alone => Obstacle(Task(j))

(* The suite never runs on an environment half made, nor before its        *)
(* dependencies are installed (agents/tester/agent.py).                    *)
SuiteIsProvisioned ==
    \A j \in Jobs : At(j, "suite") /\ installs => venv[Task(j)] = "full"

(* Jobs that only meet each other, and remove nothing of the other's, do   *)
(* not fail: "no double-processing, no spurious failures"                  *)
(* (git/worktree_manager.py).                                              *)
RacesAreResolved ==
    \A j \in Jobs : At(j, "failed") => faults > 0 \/ contested
=============================================================================
