-------------------------- MODULE WorkspaceProofs --------------------------
(***************************************************************************)
(* However many jobs and tasks meet, one worktree is registered for a      *)
(* task, it keeps its clone unless a job removed a directory in use, and a *)
(* job that nobody disturbs makes up for all but three leftovers.          *)
(***************************************************************************)
EXTENDS Workspace, TLAPS

(* What keeps the registration single: a worktree is added where there is  *)
(* none, and its row follows before anyone else can add one.               *)
Registered ==
    /\ cloner # "none" => clone \in {"dir", "half"}
    /\ \A t \in Tasks : row[t] = 1 => tree[t]
    /\ \A j \in Jobs : At(j, "insert") =>
          /\ tree[Task(j)] /\ row[Task(j)] = 0
          /\ branch[Task(j)] \/ contested
          /\ \A k \in Jobs \ {j} : At(k, "insert") => Task(k) # Task(j)
    /\ \A j \in Jobs : job[j].pc \in WithWorktree => row[Task(j)] = 1

(* What a job that has been alone since it started finds at a point.       *)
Expected(j, pc) ==
    /\ pc \in {"wait", "remove"} => clone = "dir"
    /\ pc = "clone" => clone = "absent"
    /\ pc = "cloning" => cloner = j
    /\ pc \notin {"lost", "raze"}
    /\ pc = "head" => clone \in {"half", "full"}
    /\ pc = "path" => clone = "full"
    /\ pc = "add" => clone = "full" /\ ~tree[Task(j)] /\ row[Task(j)] = 0
    /\ pc = "again" => row[Task(j)] = 1 \/ Obstacle(Task(j))
    /\ pc = "venv" => installs
    /\ pc = "pip" => installs /\ venv[Task(j)] # "absent"
    /\ pc = "failed" => Obstacle(Task(j))

Undisturbed ==
    \A j \in Jobs : job[j].alone /\ ~At(j, "idle") =>
       /\ \A k \in Jobs \ {j} : At(k, "idle")
       /\ Expected(j, job[j].pc)

WInv ==
    /\ TypeOK
    /\ Registered
    /\ WorktreesStayWhole
    /\ SuiteIsProvisioned
    /\ Undisturbed

-----------------------------------------------------------------------------
(* Two ways a job moves.                                                   *)

Moved(j, pc) ==
    /\ job' \in [Jobs -> [pc : Points, task : Tasks, retried : BOOLEAN,
                          alone : BOOLEAN]]
    /\ job'[j].pc = pc
    /\ job'[j].task = job[j].task
    /\ job'[j].alone = job[j].alone
    /\ \A k \in Jobs \ {j} : job'[k] = job[k]

LEMMA Moves ==
    ASSUME TypeOK, NEW j \in Jobs, NEW pc \in Points, To(j, pc)
    PROVE  Moved(j, pc)
<1>1. job'[j] = [job[j] EXCEPT !.pc = pc]
  BY DEF TypeOK, To
<1>2. \A k \in Jobs \ {j} : job'[k] = job[k]
  BY DEF TypeOK, To
<1>3. job' \in [Jobs -> [pc : Points, task : Tasks, retried : BOOLEAN,
                         alone : BOOLEAN]]
  BY DEF TypeOK, To
<1>4. job[j] \in [pc : Points, task : Tasks, retried : BOOLEAN,
                  alone : BOOLEAN]
  BY DEF TypeOK
<1> QED
  BY <1>1, <1>2, <1>3, <1>4 DEF Moved

LEMMA FaultMoves ==
    ASSUME WorkspaceAssumption, TypeOK, NEW j \in Jobs, NEW pc \in Points,
           NEW kind, FaultTo(kind, j, pc)
    PROVE  /\ job' \in [Jobs -> [pc : Points, task : Tasks,
                                 retried : BOOLEAN, alone : BOOLEAN]]
           /\ job'[j].pc = pc
           /\ \A k \in Jobs : job'[k].task = job[k].task /\ ~job'[k].alone
           /\ \A k \in Jobs \ {j} : job'[k].pc = job[k].pc
           /\ faults' \in 0 .. MaxFaults
<1> DEFINE Job == [pc : Points, task : Tasks, retried : BOOLEAN,
                   alone : BOOLEAN]
<1>1. \A k \in Jobs : job[k] \in Job
  BY DEF TypeOK
<1>2. \A k \in Jobs : job'[k] = [job[k] EXCEPT !.alone = FALSE,
                                   !.pc = IF k = j THEN pc ELSE @]
  BY DEF FaultTo
<1>3. \A k \in Jobs :
         /\ job'[k] \in Job
         /\ job'[k].task = job[k].task
         /\ ~job'[k].alone
         /\ job'[k].pc = IF k = j THEN pc ELSE job[k].pc
  <2>1. SUFFICES ASSUME NEW k \in Jobs
                 PROVE  /\ job'[k] \in Job
                        /\ job'[k].task = job[k].task
                        /\ ~job'[k].alone
                        /\ job'[k].pc = IF k = j THEN pc ELSE job[k].pc
    OBVIOUS
  <2>2. job[k].pc \in Points
    BY <1>1
  <2>3. PICK p \in Points : p = IF k = j THEN pc ELSE job[k].pc
    BY <2>2
  <2>4. job'[k] = [job[k] EXCEPT !.alone = FALSE, !.pc = p]
    BY <1>2, <2>3
  <2> QED
    BY <1>1, <2>3, <2>4
<1>4. job' = [k \in Jobs |-> job'[k]]
  BY DEF FaultTo
<1>5. job' \in [Jobs -> Job]
  BY <1>3, <1>4
<1>6. faults' \in 0 .. MaxFaults
  <2>1. MaxFaults \in Nat /\ faults \in 0 .. MaxFaults
    BY DEF TypeOK, WorkspaceAssumption
  <2>2. faults < MaxFaults /\ faults' = faults + 1
    BY DEF FaultTo
  <2> QED
    BY <2>1, <2>2
<1> QED
  BY <1>3, <1>5, <1>6

(* A job that goes on without changing anything shared.                    *)
LEMMA GoesOn ==
    ASSUME WInv, NEW j \in Jobs, NEW pc \in Points \ {"insert"}, Moved(j, pc),
           ~At(j, "idle"),
           pc \in WithWorktree => row[Task(j)] = 1,
           pc = "suite" /\ installs => venv[Task(j)] = "full",
           job[j].alone => pc = "idle" \/ Expected(j, pc),
           UNCHANGED <<installs, disk, row, faults>>
    PROVE  WInv'
<1> USE DEF WInv, Moved
<1>1. TypeOK'
  BY DEF TypeOK, disk
<1>2. Registered'
  BY DEF Registered, At, Task, disk
<1>3. WorktreesStayWhole'
  BY DEF WorktreesStayWhole, disk
<1>4. SuiteIsProvisioned'
  BY DEF SuiteIsProvisioned, At, Task, disk
<1>5. Undisturbed'
  BY DEF Undisturbed, Expected, Obstacle, At, Task, disk
<1> QED
  BY <1>1, <1>2, <1>3, <1>4, <1>5

(* A job a fault stops or turns back, with the disk as it was or one more   *)
(* thing left on it.                                                       *)
LEMMA GoesDown ==
    ASSUME WorkspaceAssumption, WInv, NEW j \in Jobs,
           NEW pc \in {"idle", "failed", "lost"}, NEW kind,
           FaultTo(kind, j, pc),
           cloner' \in {cloner, "none"},
           \/ UNCHANGED branch
           \/ clone = "full" /\ branch' = [branch EXCEPT ![Task(j)] = TRUE],
           UNCHANGED <<installs, clone, tree, venv, contested, row>>
    PROVE  WInv'
<1> USE FaultMoves DEF WInv
<1>1. /\ branch' \in [Tasks -> BOOLEAN]
      /\ \A t \in Tasks : branch[t] => branch'[t]
      /\ \A t \in Tasks : branch'[t] => clone = "full"
  BY DEF TypeOK
<1>2. TypeOK'
  BY <1>1 DEF TypeOK, Points
<1>3. Registered'
  <2>1. \A k \in Jobs : /\ At(k, "insert")' => At(k, "insert")
                        /\ Task(k)' = Task(k)
                        /\ job'[k].pc \in WithWorktree
                             => job[k].pc \in WithWorktree
    BY DEF At, Task, WithWorktree, Points
  <2>2. cloner' # "none" => clone' \in {"dir", "half"}
    BY DEF Registered
  <2>3. \A t \in Tasks : row'[t] = 1 => tree'[t]
    BY DEF Registered
  <2>4. \A k \in Jobs : Task(k) \in Tasks
    BY DEF TypeOK, Task
  <2>5. \A k \in Jobs : At(k, "insert")' =>
           /\ tree'[Task(k)'] /\ row'[Task(k)'] = 0
           /\ branch'[Task(k)'] \/ contested'
           /\ \A i \in Jobs \ {k} :
                 At(i, "insert")' => Task(i)' # Task(k)'
    <3> SUFFICES ASSUME NEW k \in Jobs, At(k, "insert")'
                 PROVE  /\ tree'[Task(k)'] /\ row'[Task(k)'] = 0
                        /\ branch'[Task(k)'] \/ contested'
                        /\ \A i \in Jobs \ {k} :
                              At(i, "insert")' => Task(i)' # Task(k)'
      OBVIOUS
    <3>1. /\ tree[Task(k)] /\ row[Task(k)] = 0
          /\ branch[Task(k)] \/ contested
          /\ \A i \in Jobs \ {k} : At(i, "insert") => Task(i) # Task(k)
      BY <2>1 DEF Registered
    <3> QED
      BY <1>1, <2>1, <2>4, <3>1
  <2>6. \A k \in Jobs : job'[k].pc \in WithWorktree => row'[Task(k)'] = 1
    BY <2>1 DEF Registered
  <2> QED
    BY <2>2, <2>3, <2>5, <2>6 DEF Registered
<1>4. WorktreesStayWhole'
  BY <1>1 DEF WorktreesStayWhole
<1>5. SuiteIsProvisioned'
  BY DEF SuiteIsProvisioned, At, Task, Points
<1>6. Undisturbed'
  BY DEF Undisturbed, Points
<1> QED
  BY <1>2, <1>3, <1>4, <1>5, <1>6

-----------------------------------------------------------------------------
(* The steps that change nothing shared.                                   *)

LEMMA StartKeeps ==
    ASSUME WInv, NEW j \in Jobs, Start(j)
    PROVE  WInv'
<1> USE DEF WInv
<1>1. PICK t \in Tasks :
         job' = [i \in Jobs |->
            IF i # j THEN [job[i] EXCEPT !.alone = FALSE]
            ELSE [pc |-> IF row[t] > 0 THEN "ready" ELSE "create",
                  task |-> t, retried |-> FALSE,
                  alone |-> \A k \in Jobs \ {j} : At(k, "idle")]]
  BY DEF Start
<1>2. \A k \in Jobs : job[k] \in [pc : Points, task : Tasks,
                                  retried : BOOLEAN, alone : BOOLEAN]
  BY DEF TypeOK
<1>3. PICK p \in {"ready", "create"} :
         p = IF row[t] > 0 THEN "ready" ELSE "create"
  OBVIOUS
<1>4. PICK a \in BOOLEAN : a <=> \A k \in Jobs \ {j} : At(k, "idle")
  OBVIOUS
<1>5. job'[j] = [pc |-> p, task |-> t, retried |-> FALSE, alone |-> a]
  BY <1>1, <1>3, <1>4
<1>6. \A k \in Jobs \ {j} : job'[k] = [job[k] EXCEPT !.alone = FALSE]
  BY <1>1
<1>7. \A k \in Jobs \ {j} : /\ job'[k].pc = job[k].pc
                            /\ job'[k].task = job[k].task
                            /\ ~job'[k].alone
  BY <1>2, <1>6
<1>8. job' \in [Jobs -> [pc : Points, task : Tasks, retried : BOOLEAN,
                         alone : BOOLEAN]]
  <2>1. job'[j] \in [pc : Points, task : Tasks, retried : BOOLEAN,
                     alone : BOOLEAN]
    BY <1>5 DEF Points
  <2>2. \A k \in Jobs \ {j} :
           job'[k] \in [pc : Points, task : Tasks, retried : BOOLEAN,
                        alone : BOOLEAN]
    BY <1>2, <1>6
  <2>3. job' = [k \in Jobs |-> job'[k]]
    BY <1>1
  <2> QED
    BY <2>1, <2>2, <2>3
<1>9. UNCHANGED <<installs, disk, row, faults>>
  BY DEF Start
<1>10. TypeOK'
  BY <1>8, <1>9 DEF TypeOK, disk
<1>11. p \in WithWorktree => row[t] = 1
  BY <1>3 DEF TypeOK, WithWorktree
<1>12. Registered'
  BY <1>5, <1>7, <1>9, <1>11 DEF Registered, At, Task, disk
<1>13. WorktreesStayWhole'
  BY <1>9 DEF WorktreesStayWhole, disk
<1>14. SuiteIsProvisioned'
  BY <1>5, <1>7, <1>9 DEF SuiteIsProvisioned, At, Task, disk
<1>15. Undisturbed'
  BY <1>4, <1>5, <1>7 DEF Undisturbed, Expected, At
<1> QED
  BY <1>10, <1>12, <1>13, <1>14, <1>15

(* A job under way and alone finds what is expected at its point.          *)
LEMMA Found ==
    ASSUME WInv, NEW j \in Jobs, ~At(j, "idle"), job[j].alone
    PROVE  Expected(j, job[j].pc)
BY DEF WInv, Undisturbed

(* What a row is when there is one, or none.                               *)
LEMMA Rows ==
    ASSUME TypeOK, NEW j \in Jobs
    PROVE  /\ Task(j) \in Tasks
           /\ row[Task(j)] \in 0 .. 1
           /\ row[Task(j)] > 0 <=> row[Task(j)] = 1
           /\ clone \in Clones
           /\ job[j].pc \in Points
           /\ job[j].alone \in BOOLEAN
BY DEF TypeOK, Task

LEMMA AgainKeeps ==
    ASSUME WInv, NEW j \in Jobs, Again(j)
    PROVE  WInv'
<1> USE Rows, Found DEF WInv
<1>1. CASE row[Task(j)] > 0
  <2>1. To(j, "ready")
    BY <1>1 DEF Again
  <2> QED
    BY <1>1, <2>1, Moves, GoesOn DEF Again, At, Expected, Points
<1>2. CASE ~(row[Task(j)] > 0) /\ job[j].retried
  <2>1. To(j, "failed")
    BY <1>2 DEF Again
  <2> QED
    BY <1>2, <2>1, Moves, GoesOn DEF Again, At, Expected, Points, WithWorktree
<1>3. CASE ~(row[Task(j)] > 0) /\ ~job[j].retried
  <2>1. job' = [job EXCEPT ![j].pc = "create", ![j].retried = TRUE]
    BY <1>3 DEF Again
  <2>2. Moved(j, "create")
    <3>1. \A k \in Jobs : job[k] \in [pc : Points, task : Tasks,
                                      retried : BOOLEAN, alone : BOOLEAN]
      BY DEF TypeOK
    <3>2. job'[j] = [job[j] EXCEPT !.pc = "create", !.retried = TRUE]
      BY <2>1 DEF TypeOK
    <3>3. \A k \in Jobs \ {j} : job'[k] = job[k]
      BY <2>1 DEF TypeOK
    <3>4. "create" \in Points
      BY DEF Points
    <3>5. job'[j] \in [pc : Points, task : Tasks, retried : BOOLEAN,
                       alone : BOOLEAN]
      BY <3>1, <3>2, <3>4
    <3>6. job' = [k \in Jobs |-> job'[k]]
      BY <2>1 DEF TypeOK
    <3>7. job' \in [Jobs -> [pc : Points, task : Tasks, retried : BOOLEAN,
                             alone : BOOLEAN]]
      BY <3>1, <3>3, <3>5, <3>6
    <3> QED
      BY <3>1, <3>2, <3>3, <3>7 DEF Moved
  <2>3. /\ "create" \in Points \ {"insert"}
        /\ "create" \notin WithWorktree
        /\ Expected(j, "create")
    BY DEF Expected, Points, WithWorktree
  <2>4. ~At(j, "idle") /\ UNCHANGED <<installs, disk, row, faults>>
    BY DEF Again, At
  <2> QED
    BY <2>2, <2>3, <2>4, GoesOn
<1> QED
  BY <1>1, <1>2, <1>3

LEMMA CreateKeeps ==
    ASSUME WInv, NEW j \in Jobs, Create(j)
    PROVE  WInv'
<1> USE Rows DEF WInv
<1>1. PICK pc \in {"again", "clone", "head", "wait"} :
         pc = IF row[Task(j)] > 0 THEN "again" ELSE EnsureClone
  BY DEF EnsureClone
<1>2. To(j, pc)
  BY <1>1 DEF Create
<1>3. Expected(j, pc)
  BY <1>1 DEF Expected, EnsureClone, IsGitDir, Clones
<1> QED
  BY <1>2, <1>3, Moves, GoesOn DEF Create, At, Points, WithWorktree

LEMMA WaitKeeps ==
    ASSUME WInv, NEW j \in Jobs, Wait(j)
    PROVE  WInv'
<1> USE Rows, Found DEF WInv
<1>1. PICK pc \in {"head", "remove", "clone", "failed"} :
         /\ To(j, pc)
         /\ pc = "head" => IsGitDir
         /\ pc = "remove" => clone = "dir"
         /\ pc \in {"clone", "failed"} => clone = "absent"
  BY DEF Wait
<1>2. job[j].alone => Expected(j, pc)
  BY <1>1 DEF Wait, Expected, IsGitDir, At
<1> QED
  BY <1>1, <1>2, Moves, GoesOn DEF Wait, At, Points, WithWorktree

LEMMA LostKeeps ==
    ASSUME WInv, NEW j \in Jobs, Lost(j)
    PROVE  WInv'
<1> USE Rows, Found DEF WInv
<1>1. PICK pc \in {"head", "again", "raze"} : To(j, pc)
  BY DEF Lost
<1>2. ~job[j].alone
  BY DEF Lost, Expected, At
<1> QED
  BY <1>1, <1>2, Moves, GoesOn DEF Lost, At, Points, WithWorktree

LEMMA ReadHeadKeeps ==
    ASSUME WInv, NEW j \in Jobs, ReadHead(j)
    PROVE  WInv'
<1> USE Rows, Found DEF WInv
<1>1. PICK pc \in {"path", "failed", "again"} :
         pc = CASE clone = "full"   -> "path"
                [] clone = "absent" -> "failed"
                [] OTHER            -> "again"
  OBVIOUS
<1>2. To(j, pc)
  BY <1>1 DEF ReadHead
<1>3. job[j].alone => Expected(j, pc)
  BY <1>1 DEF ReadHead, Expected, At, Obstacle
<1> QED
  BY <1>2, <1>3, Moves, GoesOn DEF ReadHead, At, Points, WithWorktree

LEMMA CheckPathKeeps ==
    ASSUME WInv, NEW j \in Jobs, CheckPath(j)
    PROVE  WInv'
<1> USE Rows, Found DEF WInv
<1>1. PICK pc \in {"again", "add"} :
         pc = IF tree[Task(j)] THEN "again" ELSE "add"
  OBVIOUS
<1>2. To(j, pc)
  BY <1>1 DEF CheckPath
<1>3. row[Task(j)] = 1 \/ row[Task(j)] = 0
  OBVIOUS
<1>4. row[Task(j)] = 1 => tree[Task(j)]
  BY DEF Registered
<1>5. job[j].alone => Expected(j, pc)
  BY <1>1, <1>3, <1>4 DEF CheckPath, Expected, At, Obstacle
<1> QED
  BY <1>2, <1>5, Moves, GoesOn DEF CheckPath, At, Points, WithWorktree

LEMMA LeavesKeep ==
    ASSUME WInv, NEW j \in Jobs, Work(j) \/ Finish(j)
    PROVE  WInv'
BY Moves, GoesOn DEF WInv, Work, Finish, At, Points, WithWorktree

-----------------------------------------------------------------------------
(* The steps that change the clone.                                        *)

LEMMA RemoveKeeps ==
    ASSUME WInv, NEW j \in Jobs, NEW pc \in {"clone", "again", "lost"},
           To(j, pc), RemoveClone, ~At(j, "idle"),
           job[j].alone => pc = "clone",
           UNCHANGED <<installs, row, faults>>
    PROVE  WInv'
<1>1. Moved(j, pc)
  BY Moves DEF WInv, Points
<1>2. /\ \A t \in Tasks : branch[t] => contested'
      /\ contested => contested'
      /\ contested' \in BOOLEAN
  BY DEF WInv, TypeOK, RemoveClone, IsGitDir
<1> USE <1>1, <1>2 DEF WInv, Moved, RemoveClone
<1>3. TypeOK'
  BY DEF TypeOK, Clones
<1>4. Registered'
  BY Rows DEF Registered, At, Task, WithWorktree
<1>5. WorktreesStayWhole'
  BY DEF WorktreesStayWhole
<1>6. SuiteIsProvisioned'
  BY DEF SuiteIsProvisioned, At, Task
<1>7. Undisturbed'
  BY DEF Undisturbed, Expected, At, Points
<1> QED
  BY <1>3, <1>4, <1>5, <1>6, <1>7

(* A clone one step nearer to being whole.                                 *)
LEMMA StartCloneKeeps ==
    ASSUME WInv, NEW j \in Jobs, StartClone(j)
    PROVE  WInv'
<1>1. CASE clone # "absent"
  <2>1. /\ To(j, "lost")
        /\ UNCHANGED <<installs, disk, row, faults>>
        /\ At(j, "clone")
    BY <1>1 DEF StartClone, disk
  <2>2. ~job[j].alone
    BY <1>1, <2>1, Found DEF Expected, At
  <2> QED
    BY <2>1, <2>2, Moves, GoesOn DEF WInv, At, Points, WithWorktree
<1>2. CASE clone = "absent"
  <2>1. Moved(j, "cloning")
    BY <1>2, Moves DEF StartClone, WInv, Points
  <2> USE <1>2, <2>1 DEF WInv, Moved, StartClone
  <2>2. TypeOK'
    BY DEF TypeOK, Clones
  <2>3. Registered'
    BY DEF Registered, At, Task, WithWorktree
  <2>4. WorktreesStayWhole'
    BY DEF WorktreesStayWhole
  <2>5. SuiteIsProvisioned'
    BY DEF SuiteIsProvisioned, At, Task
  <2>6. Undisturbed'
    BY DEF Undisturbed, Expected, At
  <2> QED
    BY <2>2, <2>3, <2>4, <2>5, <2>6
<1> QED
  BY <1>1, <1>2

LEMMA FillCloneKeeps ==
    ASSUME WInv, NEW j \in Jobs, FillClone(j)
    PROVE  WInv'
<1>1. CASE clone = "dir"
  <2> USE <1>1 DEF WInv, FillClone
  <2>1. TypeOK'
    BY DEF TypeOK, Clones
  <2>2. Registered'
    BY DEF Registered, At, Task, WithWorktree
  <2>3. WorktreesStayWhole'
    BY DEF WorktreesStayWhole
  <2>4. SuiteIsProvisioned'
    BY DEF SuiteIsProvisioned, At, Task
  <2>5. Undisturbed'
    BY DEF Undisturbed, Expected, At, Obstacle, Task
  <2> QED
    BY <2>1, <2>2, <2>3, <2>4, <2>5
<1>2. CASE clone = "half"
  <2>1. Moved(j, "head")
    BY <1>2, Moves DEF FillClone, WInv, Points
  <2> USE <1>2, <2>1 DEF WInv, Moved, FillClone
  <2>2. TypeOK'
    BY DEF TypeOK, Clones
  <2>3. Registered'
    BY DEF Registered, At, Task, WithWorktree
  <2>4. WorktreesStayWhole'
    BY DEF WorktreesStayWhole
  <2>5. SuiteIsProvisioned'
    BY DEF SuiteIsProvisioned, At, Task
  <2>6. Undisturbed'
    BY DEF Undisturbed, Expected, At
  <2> QED
    BY <2>2, <2>3, <2>4, <2>5, <2>6
<1> QED
  BY <1>1, <1>2 DEF FillClone

LEMMA CloneFailsKeeps ==
    ASSUME WorkspaceAssumption, WInv, NEW j \in Jobs, CloneFails(j)
    PROVE  WInv'
<1>1. CASE cloner = j
  <2>1. /\ FaultTo("clone_fails", j, "lost")
        /\ clone' = "absent"
        /\ cloner' = "none"
        /\ UNCHANGED <<installs, branch, tree, venv, contested, row>>
    BY <1>1 DEF CloneFails
  <2>2. \A t \in Tasks : ~branch[t]
    BY <1>1 DEF WInv, TypeOK, Registered, WorkspaceAssumption
  <2> USE <2>1, <2>2, FaultMoves DEF WInv
  <2>3. TypeOK'
    BY DEF TypeOK, Clones, Points
  <2>4. Registered'
    BY DEF Registered, At, Task, WithWorktree, Points
  <2>5. WorktreesStayWhole'
    BY DEF WorktreesStayWhole
  <2>6. SuiteIsProvisioned'
    BY DEF SuiteIsProvisioned, At, Task, Points
  <2>7. Undisturbed'
    BY DEF Undisturbed, Points
  <2> QED
    BY <2>3, <2>4, <2>5, <2>6, <2>7
<1>2. CASE cloner # j
  <2>1. /\ At(j, "cloning")
        /\ To(j, "lost")
        /\ RemoveClone \/ UNCHANGED disk
        /\ UNCHANGED <<installs, row, faults>>
    BY <1>2 DEF CloneFails
  <2>2. ~job[j].alone
    BY <1>2, <2>1, Found DEF Expected, At
  <2>3. CASE RemoveClone
    BY <2>1, <2>2, <2>3, RemoveKeeps DEF At
  <2>4. CASE UNCHANGED disk
    BY <2>1, <2>2, <2>4, Moves, GoesOn DEF WInv, At, Points, WithWorktree
  <2> QED
    BY <2>1, <2>3, <2>4
<1> QED
  BY <1>1, <1>2

-----------------------------------------------------------------------------
(* The worktree and its row.                                               *)

LEMMA AddWorktreeKeeps ==
    ASSUME WInv, NEW j \in Jobs, AddWorktree(j)
    PROVE  WInv'
<1>1. CASE clone = "full" /\ ~branch[Task(j)] /\ ~tree[Task(j)]
  <2>1. /\ Moved(j, "insert")
        /\ Task(j) \in Tasks
        /\ row[Task(j)] = 0
    <3>1. row[Task(j)] \in 0 .. 1 /\ row[Task(j)] # 1
      BY <1>1, Rows DEF WInv, Registered
    <3> QED
      BY <1>1, <3>1, Moves, Rows DEF AddWorktree, WInv, Points
  <2>2. /\ clone = "full"
        /\ branch' = [branch EXCEPT ![Task(j)] = TRUE]
        /\ tree' = [tree EXCEPT ![Task(j)] = TRUE]
        /\ UNCHANGED <<installs, clone, cloner, venv, contested, row, faults>>
    BY <1>1 DEF AddWorktree
  <2>3. /\ branch' \in [Tasks -> BOOLEAN] /\ tree' \in [Tasks -> BOOLEAN]
        /\ branch'[Task(j)] /\ tree'[Task(j)]
        /\ \A t \in Tasks : branch[t] => branch'[t]
        /\ \A t \in Tasks : tree[t] => tree'[t]
        /\ \A t \in Tasks : row[t] = 1 => tree'[t]
    BY <2>1, <2>2 DEF WInv, TypeOK, Registered
  <2>4. \A k \in Jobs \ {j} : At(k, "insert") => Task(k) # Task(j)
    BY <1>1 DEF WInv, Registered
  <2> USE <1>1, <2>1, <2>2, <2>3, <2>4 DEF WInv, Moved
  <2>5. TypeOK'
    BY DEF TypeOK
  <2>6. Registered'
    BY DEF Registered, At, Task, WithWorktree
  <2>7. WorktreesStayWhole'
    BY DEF WorktreesStayWhole
  <2>8. SuiteIsProvisioned'
    BY DEF SuiteIsProvisioned, At, Task
  <2>9. Undisturbed'
    BY DEF Undisturbed, Expected, At, AddWorktree
  <2> QED
    BY <2>5, <2>6, <2>7, <2>8, <2>9
<1>2. CASE clone # "full" \/ branch[Task(j)] \/ tree[Task(j)]
  <2>1. PICK pc \in {"failed", "again"} :
           pc = IF clone = "absent" THEN "failed" ELSE "again"
    OBVIOUS
  <2>2. /\ At(j, "add")
        /\ To(j, pc)
        /\ UNCHANGED <<installs, disk, row, faults>>
    BY <1>2, <2>1 DEF AddWorktree, disk
  <2>3. job[j].alone => Expected(j, pc)
    BY <1>2, <2>1, <2>2, Found DEF Expected, At, Obstacle
  <2> QED
    BY <2>2, <2>3, Moves, GoesOn DEF WInv, At, Points, WithWorktree
<1> QED
  BY <1>1, <1>2

LEMMA InsertKeeps ==
    ASSUME WorkspaceAssumption, WInv, NEW j \in Jobs, Insert(j)
    PROVE  WInv'
<1>1. CASE FaultTo("db_error", j, "failed") /\ UNCHANGED row
  BY <1>1, GoesDown DEF Insert, disk
<1>2. CASE /\ To(j, "ready")
           /\ row' = [row EXCEPT ![Task(j)] = @ + 1]
           /\ UNCHANGED faults
  <2>1. /\ Moved(j, "ready")
        /\ Task(j) \in Tasks
        /\ row[Task(j)] = 0
        /\ tree[Task(j)]
        /\ branch[Task(j)] \/ contested
        /\ \A k \in Jobs \ {j} : At(k, "insert") => Task(k) # Task(j)
    BY <1>2, Moves, Rows DEF WInv, Registered, Insert, Points
  <2>2. /\ row' \in [Tasks -> 0 .. 1]
        /\ row'[Task(j)] = 1
        /\ \A t \in Tasks \ {Task(j)} : row'[t] = row[t]
    BY <1>2, <2>1 DEF WInv, TypeOK
  <2>3. UNCHANGED <<installs, disk, faults>>
    BY <1>2 DEF Insert
  <2> USE <2>1, <2>2, <2>3 DEF WInv, Moved, disk
  <2>4. TypeOK'
    BY DEF TypeOK
  <2>5. Registered'
    <3>1. \A k \in Jobs : Task(k)' = Task(k) /\ Task(k) \in Tasks
      BY DEF Task, TypeOK
    <3>2. \A k \in Jobs : At(k, "insert")' => k # j /\ At(k, "insert")
      BY DEF At
    <3>3. \A k \in Jobs : (job[k].pc \in WithWorktree)' =>
             k = j \/ row[Task(k)] = 1
      BY DEF Registered
    <3> HIDE DEF Moved
    <3>4. (cloner # "none" => clone \in {"dir", "half"})'
      BY DEF Registered
    <3>5. (\A t \in Tasks : row[t] = 1 => tree[t])'
      BY DEF Registered
    <3>6. (\A k \in Jobs : At(k, "insert") =>
             /\ tree[Task(k)] /\ row[Task(k)] = 0
             /\ branch[Task(k)] \/ contested
             /\ \A i \in Jobs \ {k} : At(i, "insert") => Task(i) # Task(k))'
      BY <3>1, <3>2 DEF Registered
    <3>7. (\A k \in Jobs : job[k].pc \in WithWorktree => row[Task(k)] = 1)'
      BY <3>1, <3>3
    <3> QED
      BY <3>4, <3>5, <3>6, <3>7 DEF Registered
  <2>6. WorktreesStayWhole'
    BY DEF WorktreesStayWhole
  <2>7. SuiteIsProvisioned'
    BY DEF SuiteIsProvisioned, At, Task
  <2>8. Undisturbed'
    BY DEF Undisturbed, Expected, At, Insert
  <2> QED
    BY <2>4, <2>5, <2>6, <2>7, <2>8
<1> QED
  BY <1>1, <1>2 DEF Insert

-----------------------------------------------------------------------------
(* The environment, crashes and the specification.                         *)

LEMMA ProvisionKeeps ==
    ASSUME WInv, NEW j \in Jobs, Provision(j)
    PROVE  WInv'
<1>1. row[Task(j)] = 1 /\ Task(j) \in Tasks
  BY Rows DEF WInv, Registered, Provision, At, WithWorktree
<1>2. CASE ~installs
  BY <1>1, <1>2, Moves, GoesOn
     DEF Provision, disk, WInv, Expected, At, Points
<1>3. CASE installs /\ venv[Task(j)] # "absent"
  BY <1>1, <1>3, Moves, GoesOn
     DEF Provision, disk, WInv, Expected, At, Points
<1>4. CASE installs /\ venv[Task(j)] = "absent"
  <2>1. /\ Moved(j, "venv")
        /\ venv' = [venv EXCEPT ![Task(j)] = "half"]
        /\ UNCHANGED <<installs, clone, cloner, branch, tree, contested, row,
                       faults>>
        /\ At(j, "ready")
    BY <1>4, Moves DEF Provision, WInv, Points
  <2>2. venv' \in [Tasks -> Venvs]
    BY <1>1, <2>1 DEF WInv, TypeOK, Venvs
  <2>3. \A t \in Tasks : venv[t] = "full" => venv'[t] = "full"
    BY <1>1, <1>4, <2>1 DEF WInv, TypeOK
  <2> USE <1>1, <1>4, <2>1, <2>2, <2>3 DEF WInv, Moved
  <2>4. TypeOK'
    BY DEF TypeOK
  <2>5. Registered'
    BY DEF Registered, At, Task, WithWorktree
  <2>6. WorktreesStayWhole'
    BY DEF WorktreesStayWhole
  <2>7. SuiteIsProvisioned'
    BY DEF SuiteIsProvisioned, At, Task, TypeOK
  <2>8. Undisturbed'
    BY DEF Undisturbed, Expected, At
  <2> QED
    BY <2>4, <2>5, <2>6, <2>7, <2>8
<1> QED
  BY <1>2, <1>3, <1>4 DEF Provision

LEMMA MakeVenvKeeps ==
    ASSUME WorkspaceAssumption, WInv, NEW j \in Jobs, MakeVenv(j)
    PROVE  WInv'
<1>1. CASE FaultTo("no_install", j, "failed") /\ UNCHANGED venv
  BY <1>1, GoesDown DEF MakeVenv
<1>2. CASE /\ To(j, "pip")
           /\ venv' = [venv EXCEPT ![Task(j)] = "full"]
           /\ UNCHANGED faults
  <2>1. /\ Moved(j, "pip")
        /\ Task(j) \in Tasks
        /\ row[Task(j)] = 1
        /\ UNCHANGED <<installs, clone, cloner, branch, tree, contested, row,
                       faults>>
        /\ At(j, "venv")
    BY <1>2, Moves, Rows
       DEF MakeVenv, WInv, Registered, At, WithWorktree, Points
  <2>2. venv' \in [Tasks -> Venvs]
    BY <1>2, <2>1 DEF WInv, TypeOK, Venvs
  <2>3. /\ venv'[Task(j)] = "full"
        /\ \A t \in Tasks : venv[t] = "full" => venv'[t] = "full"
    BY <1>2, <2>1 DEF WInv, TypeOK
  <2> USE <2>1, <2>2, <2>3 DEF WInv, Moved
  <2>4. TypeOK'
    BY DEF TypeOK
  <2>5. Registered'
    BY DEF Registered, At, Task, WithWorktree
  <2>6. WorktreesStayWhole'
    BY DEF WorktreesStayWhole
  <2>7. SuiteIsProvisioned'
    BY DEF SuiteIsProvisioned, At, Task, TypeOK
  <2>8. Undisturbed'
    BY DEF Undisturbed, Expected, At, Task
  <2> QED
    BY <2>4, <2>5, <2>6, <2>7, <2>8
<1> QED
  BY <1>1, <1>2 DEF MakeVenv

LEMMA PipKeeps ==
    ASSUME WorkspaceAssumption, WInv, NEW j \in Jobs, Pip(j)
    PROVE  WInv'
<1>1. CASE FaultTo("no_install", j, "failed")
  BY <1>1, GoesDown DEF Pip, disk
<1>2. CASE /\ To(j, IF venv[Task(j)] = "full" THEN "suite" ELSE "failed")
           /\ UNCHANGED faults
  <2>1. PICK pc \in {"suite", "failed"} :
           pc = IF venv[Task(j)] = "full" THEN "suite" ELSE "failed"
    OBVIOUS
  <2>2. /\ At(j, "pip")
        /\ To(j, pc)
        /\ UNCHANGED <<installs, disk, row, faults>>
    BY <1>2, <2>1 DEF Pip
  <2>3. row[Task(j)] = 1 /\ venv[Task(j)] \in Venvs
    BY <2>2, Rows DEF WInv, Registered, At, WithWorktree, TypeOK
  <2>4. job[j].alone => Expected(j, pc)
    BY <2>1, <2>2, <2>3, Found DEF Expected, At, Obstacle, Venvs
  <2> QED
    BY <2>1, <2>2, <2>3, <2>4, Moves, GoesOn DEF WInv, At, Points
<1> QED
  BY <1>1, <1>2 DEF Pip

LEMMA CrashKeeps ==
    ASSUME WorkspaceAssumption, WInv, NEW j \in Jobs, Crash(j)
    PROVE  WInv'
BY GoesDown DEF Crash

(* The registration holds from the start and through every step.           *)
LEMMA Inductive == Spec => []WInv
<1> USE DEF WInv
<1>1. Init => WInv
  <2> SUFFICES ASSUME Init PROVE WInv
    OBVIOUS
  <2>1. \A j \in Jobs : job[j] \in [pc : {"idle"}, task : Tasks,
                                    retried : {FALSE}, alone : {FALSE}]
    BY DEF Init
  <2>2. \A j \in Jobs : job[j].pc = "idle" /\ ~job[j].alone
    BY <2>1
  <2>3. job \in [Jobs -> [pc : Points, task : Tasks, retried : BOOLEAN,
                          alone : BOOLEAN]]
    <3>1. \A j \in Jobs : job[j] \in [pc : Points, task : Tasks,
                                      retried : BOOLEAN, alone : BOOLEAN]
      BY <2>1 DEF Points
    <3>2. job = [j \in Jobs |-> job[j]]
      BY DEF Init
    <3> QED
      BY <3>1, <3>2
  <2>4. TypeOK
    <3>1. faults \in 0 .. MaxFaults
      BY WorkspaceAssumption DEF Init, WorkspaceAssumption
    <3>2. /\ branch \in [Tasks -> BOOLEAN]
          /\ tree \in [Tasks -> BOOLEAN]
          /\ \A t \in Tasks : ~branch[t]
      BY DEF Init
    <3>3. row \in [Tasks -> 0 .. 1]
      BY DEF Init
    <3>4. venv \in [Tasks -> Venvs]
      BY DEF Init, Venvs
    <3> QED
      BY <2>3, <3>1, <3>2, <3>3, <3>4 DEF Init, TypeOK, Clones
  <2>5. Registered
    <3>1. cloner = "none" /\ \A t \in Tasks : row[t] = 0
      BY DEF Init
    <3> QED
      BY <2>2, <3>1 DEF Registered, At, WithWorktree
  <2>6. WorktreesStayWhole /\ SuiteIsProvisioned /\ Undisturbed
    <3>1. \A t \in Tasks : ~(row[t] > 0)
      BY DEF Init
    <3> QED
      BY <2>2, <3>1 DEF WorktreesStayWhole, SuiteIsProvisioned, Undisturbed, At
  <2> QED
    BY <2>4, <2>5, <2>6
<1>2. WInv /\ [Next]_vars => WInv'
  <2>1. ASSUME WInv, NEW j \in Jobs,
               \/ Start(j) \/ Again(j)
               \/ Create(j) \/ Wait(j) \/ Remove(j)
               \/ StartClone(j) \/ FillClone(j) \/ CloneFails(j) \/ Lost(j)
               \/ ReadHead(j) \/ CheckPath(j) \/ AddWorktree(j) \/ Insert(j)
               \/ Work(j) \/ Provision(j) \/ MakeVenv(j) \/ Pip(j) \/ Finish(j)
               \/ Crash(j)
        PROVE  WInv'
    <3> HIDE DEF WInv
    <3>1. CASE Remove(j)
      <4>1. ~At(j, "idle") /\ (At(j, "raze") => ~job[j].alone)
        BY <2>1, <3>1, Found DEF Remove, At, Expected
      <4> QED
        BY <2>1, <3>1, <4>1, RemoveKeeps DEF Remove, At
    <3> QED
      BY <2>1, <3>1, WorkspaceAssumption, StartKeeps, AgainKeeps, CreateKeeps,
         WaitKeeps, StartCloneKeeps, FillCloneKeeps, CloneFailsKeeps,
         LostKeeps, ReadHeadKeeps, CheckPathKeeps, AddWorktreeKeeps,
         InsertKeeps, LeavesKeep, ProvisionKeeps, MakeVenvKeeps, PipKeeps,
         CrashKeeps
  <2>2. ASSUME WInv, UNCHANGED vars
        PROVE  WInv'
    BY <2>2 DEF vars, disk, TypeOK, Registered, WorktreesStayWhole,
               SuiteIsProvisioned, Undisturbed, Expected, Obstacle, At, Task
  <2> QED
    BY <2>1, <2>2 DEF Next
<1> QED
  BY <1>1, <1>2, PTL DEF Spec

-----------------------------------------------------------------------------
(* The directories, rows and jobs keep their types, for any number of jobs *)
(* and tasks and whatever fails (git/worktree_manager.py).                 *)
THEOREM TypeCorrect == Spec => []TypeOK
<1>1. WInv => TypeOK
  BY DEF WInv
<1> QED
  BY <1>1, Inductive, PTL

(* Every job works in the one registered worktree of its task, whoever won *)
(* the race for it (git/worktree_manager.py, get_or_create_for_task).      *)
THEOREM Registration == Spec => []WorkspaceIsOne
<1>1. WInv => WorkspaceIsOne
  BY Rows DEF WInv, WorkspaceIsOne, Registered
<1> QED
  BY <1>1, Inductive, PTL

(* A registered worktree keeps its clone and branch unless a job removed a *)
(* directory another one was using (git/worktree_manager.py,               *)
(* repository/discovery.py).                                               *)
THEOREM WholeWorktrees == Spec => []WorktreesStayWhole
<1>1. WInv => WorktreesStayWhole
  BY Rows DEF WInv, Registered
<1> QED
  BY <1>1, Inductive, PTL

(* A job that nobody disturbs fails only on what nothing removes: a clone  *)
(* cut short, a worktree or branch without its row, an environment half    *)
(* made (repository/discovery.py, shell/provision.py).                     *)
THEOREM Healing == Spec => []LoneJobHeals
<1>1. WInv => LoneJobHeals
  BY DEF WInv, LoneJobHeals, Undisturbed, Expected, At
<1> QED
  BY <1>1, Inductive, PTL

(* No suite runs before its dependencies are installed, whoever shares the *)
(* environment with it (agents/tester/agent.py).                           *)
THEOREM Provisioned == Spec => []SuiteIsProvisioned
<1>1. WInv => SuiteIsProvisioned
  BY DEF WInv
<1> QED
  BY <1>1, Inductive, PTL
=============================================================================
