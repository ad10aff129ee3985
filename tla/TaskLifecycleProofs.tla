------------------------ MODULE TaskLifecycleProofs -------------------------
(***************************************************************************)
(* What holds of TaskLifecycle for any number of worker slots, any budget, *)
(* any choice of faults and any number of them; what holds without the two *)
(* writers that take no lock; and, last, that one slot which nothing       *)
(* interrupts strands no task and brings it nearer its end at every step.  *)
(***************************************************************************)
EXTENDS TaskLifecycle, TaskStatesProofs, RanksProofs, TLAPS

-----------------------------------------------------------------------------
(* Type correctness.                                                       *)

LEMMA TypeInit == Init => TypeOK
  BY ConstantsAssumption
     DEF Init, TypeOK, SlotsOK, HasView, TaskStatus, AgentStatus,
         TerminalStates, Event, Reasons, Slot, WorkerPC, IdleSlot, Writers

(* What may become of a slot without disturbing the others.                *)
LEMMA SlotBecomes ==
    ASSUME SlotsOK, NEW w \in Workers, NEW slot \in Slot,
           slot.pc \in {"agent", "apply", "chain", "marking"}
              => slot.view \in TaskStatus,
           wk' = [wk EXCEPT ![w] = slot],
           \/ lock' = Free
           \/ lock' = lock /\ lock # w
           \/ lock' = w /\ slot.pc = "agent"
    PROVE  SlotsOK'
<1>1. wk' \in [Workers -> Slot] /\ wk'[w] = slot
  BY DEF SlotsOK
<1>2. \A v \in Workers \ {w} : wk'[v] = wk[v]
  BY DEF SlotsOK
<1>3. lock' # Free => wk'[lock'].pc = "agent"
  BY <1>1, <1>2 DEF SlotsOK
<1>4. \A v \in Workers : HasView(v)' => wk'[v].view \in TaskStatus
  BY <1>1, <1>2 DEF SlotsOK, HasView
<1>5. QED
  BY <1>1, <1>3, <1>4 DEF SlotsOK

(* The same for a slot that goes to pc with a view.                        *)
LEMMA SlotGoes ==
    ASSUME SlotsOK, NEW w \in Workers, NEW pc \in WorkerPC,
           NEW view \in TaskStatus \cup {NoStatus},
           pc \in {"agent", "apply", "chain", "marking"}
              => view \in TaskStatus,
           Goto(w, pc, view),
           \/ lock' = Free
           \/ lock' = lock /\ lock # w
           \/ lock' = w /\ pc = "agent"
    PROVE  SlotsOK'
<1> DEFINE slot == [wk[w] EXCEPT !.pc = pc, !.view = view]
<1>1. slot \in Slot /\ slot.pc = pc /\ slot.view = view
  BY DEF SlotsOK, Slot
<1>2. wk' = [wk EXCEPT ![w] = slot]
  BY DEF SlotsOK, Goto, Slot
<1>3. QED
  BY <1>1, <1>2, SlotBecomes

(* A slot is of its pc only if it holds no lock, unless its agent works.   *)
LEMMA SlotLock ==
    ASSUME SlotsOK, NEW w \in Workers, wk[w].pc # "agent"
    PROVE  lock # w
  BY ConstantsAssumption DEF SlotsOK

LEMMA TypeNext == TypeOK /\ [Next]_vars => TypeOK'
<1> SUFFICES ASSUME TypeOK, [Next]_vars
             PROVE  TypeOK'
  OBVIOUS
<1> USE ConstantsAssumption
<1> USE DEF TypeOK, Writers, row
<1>1. ASSUME NEW w \in Workers, Dequeue(w)
      PROVE  TypeOK'
  <2>1. PICK job \in jobs :
           wk' = [wk EXCEPT ![w].pc = "start", ![w].job = job]
    BY <1>1 DEF Dequeue
  <2> DEFINE slot == [wk[w] EXCEPT !.pc = "start", !.job = job]
  <2>2. slot \in Slot /\ slot.pc = "start"
    BY DEF SlotsOK, Slot, WorkerPC
  <2>3. wk' = [wk EXCEPT ![w] = slot]
    BY <2>1 DEF SlotsOK, Slot
  <2>4. lock' = lock /\ lock # w
    BY <1>1, SlotLock DEF Dequeue
  <2>5. SlotsOK'
    BY <2>2, <2>3, <2>4, SlotBecomes
  <2>6. QED
    BY <1>1, <2>5 DEF Dequeue
<1>2. ASSUME NEW w \in Workers, LoadForAgent(w)
      PROVE  TypeOK'
  <2>1. SlotsOK'
    BY <1>2, SlotGoes DEF LoadForAgent, WorkerPC
  <2>2. QED
    BY <1>2, <2>1 DEF LoadForAgent
<1>3. ASSUME NEW w \in Workers, AdvanceOnce(w)
      PROVE  TypeOK'
  <2>1. PICK target \in NextStatus(status, replans, MaxReplans, last.reason) :
           /\ TransitionTask(status, target, "worker", 0)
           /\ Goto(w, "chain", target)
    BY <1>3 DEF AdvanceOnce
  <2>2. target \in TaskStatus
    BY NextStatusIsLegal
  <2>3. SlotsOK'
    BY <1>3, <2>1, <2>2, SlotGoes DEF AdvanceOnce, WorkerPC
  <2>4. QED
    BY <1>3, <2>1, <2>2, <2>3
       DEF AdvanceOnce, TransitionTask, Event, Reasons
<1>4. ASSUME NEW w \in Workers, NothingToDo(w)
      PROVE  TypeOK'
  <2>1. SlotsOK'
    BY <1>4, SlotGoes DEF NothingToDo, WorkerPC
  <2>2. QED
    BY <1>4, <2>1 DEF NothingToDo
<1>5. ASSUME NEW w \in Workers, AgentCommit(w)
      PROVE  TypeOK'
  BY <1>5 DEF AgentCommit, SlotsOK, HasView
<1>6. ASSUME NEW w \in Workers, AgentReturn(w)
      PROVE  TypeOK'
  <2>1. wk[w].view \in TaskStatus
    BY <1>6 DEF AgentReturn, SlotsOK, HasView
  <2>2. SlotsOK'
    BY <1>6, <2>1, SlotGoes DEF AgentReturn, Release, WorkerPC
  <2>3. QED
    BY <1>6, <2>2 DEF AgentReturn
<1>7. ASSUME NEW w \in Workers, ApplySkips(w)
      PROVE  TypeOK'
  <2>1. SlotsOK'
    BY <1>7, SlotGoes DEF ApplySkips, WorkerPC
  <2>2. QED
    BY <1>7, <2>1 DEF ApplySkips
<1>8. ASSUME NEW w \in Workers, CasTransition(w)
      PROVE  TypeOK'
  <2>1. PICK target \in TaskStatus :
           /\ TransitionTask(status, target, "worker", 0)
           /\ Goto(w, "chain", target)
    BY <1>8 DEF CasTransition
  <2>2. SlotsOK'
    BY <1>8, <2>1, SlotGoes DEF CasTransition, WorkerPC
  <2>3. QED
    BY <1>8, <2>1, <2>2 DEF CasTransition, TransitionTask, Event, Reasons
<1>9. ASSUME NEW w \in Workers, ReplanToImplementing(w)
      PROVE  TypeOK'
  <2>1. PICK target \in {"ESCALATED", "IMPLEMENTING"}, charged \in {0, 1} :
           /\ TransitionTask(status, target, "worker", charged)
           /\ Goto(w, "chain", target)
    BY <1>9 DEF ReplanToImplementing
  <2>2. target \in TaskStatus
    BY DEF TaskStatus, AgentStatus, TerminalStates
  <2>3. SlotsOK'
    BY <1>9, <2>1, <2>2, SlotGoes DEF ReplanToImplementing, WorkerPC
  <2>4. QED
    BY <1>9, <2>1, <2>2, <2>3
       DEF ReplanToImplementing, TransitionTask, Event, Reasons
<1>10. ASSUME NEW w \in Workers, Chain(w)
       PROVE  TypeOK'
  <2>1. wk[w].view \in TaskStatus
    BY <1>10 DEF Chain, SlotsOK, HasView
  <2>2. lock' = lock /\ lock # w
    BY <1>10, SlotLock DEF Chain
  <2>3. SlotsOK'
    BY <1>10, <2>2, SlotGoes DEF Chain, WorkerPC
  <2>4. QED
    BY <1>10, <2>1, <2>3 DEF Chain, Enqueue
<1>11. ASSUME NEW w \in Workers, Finish(w)
       PROVE  TypeOK'
  <2>1. lock' = lock /\ lock # w
    BY <1>11, SlotLock DEF Finish
  <2>2. SlotsOK'
    BY <1>11, <2>1, SlotBecomes DEF Finish, IdleSlot, Slot, WorkerPC
  <2>3. QED
    BY <1>11, <2>2 DEF Finish
<1>12. ASSUME NEW w \in Workers, Deadline(w)
       PROVE  TypeOK'
  <2>1. SlotsOK'
    BY <1>12, SlotGoes DEF Deadline, Release, WorkerPC
  <2>2. QED
    BY <1>12, <2>1 DEF Deadline, Fault, Forget
<1>13. ASSUME NEW w \in Workers, MarkRead(w)
       PROVE  TypeOK'
  <2>1. lock' = lock /\ lock # w
    BY <1>13, SlotLock DEF MarkRead
  <2>2. \/ Goto(w, "finish", NoStatus)
        \/ Goto(w, "marking", status)
    BY <1>13 DEF MarkRead
  <2>3. SlotsOK'
    BY <2>1, <2>2, SlotGoes DEF WorkerPC
  <2>4. QED
    BY <1>13, <2>3 DEF MarkRead
<1>14. ASSUME NEW w \in Workers, MarkWrite(w)
       PROVE  TypeOK'
  <2>1. /\ wk[w].view \in TaskStatus
        /\ "FAILED" \in TaskStatus
    BY <1>14 DEF MarkWrite, SlotsOK, HasView, TaskStatus
  <2>2. lock' = Free
    BY <1>14 DEF MarkWrite, BlindTransition
  <2>3. SlotsOK'
    BY <1>14, <2>1, <2>2, SlotGoes DEF MarkWrite, WorkerPC
  <2>4. QED
    BY <1>14, <2>1, <2>3 DEF MarkWrite, BlindTransition, Event, Reasons
<1>15. ASSUME NEW w \in Workers, LockTimeout(w)
       PROVE  TypeOK'
  <2>1. SlotsOK'
    BY <1>15, SlotGoes DEF LockTimeout, WorkerPC
  <2>2. QED
    BY <1>15, <2>1 DEF LockTimeout, Forget
<1>16. ASSUME NEW w \in Workers, DatabaseError(w)
       PROVE  TypeOK'
  <2>1. lock' = lock /\ lock # w
    BY <1>16, SlotLock DEF DatabaseError
  <2>2. SlotsOK'
    BY <1>16, <2>1, SlotGoes DEF DatabaseError, WorkerPC
  <2>3. QED
    BY <1>16, <2>2 DEF DatabaseError, Fault, Forget
<1>17. ASSUME NEW w \in Workers, Crash(w)
       PROVE  TypeOK'
  <2>1. IdleSlot \in Slot /\ IdleSlot.pc = "idle"
    BY DEF IdleSlot, Slot, WorkerPC
  <2>2. SlotsOK'
    BY <1>17, <2>1, SlotBecomes DEF Crash, Release
  <2>3. QED
    BY <1>17, <2>2 DEF Crash, Fault, Forget
<1> USE DEF SlotsOK, HasView
<1>18. CASE StartupSweep
  BY <1>18 DEF StartupSweep, StartupSweepRead, StartupSweepEnqueue, Fault,
               Enqueue
<1>19. CASE CronRead \/ CronCount \/ CronEnqueue \/ CronAbort
  BY <1>19 DEF CronRead, CronCount, CronEnqueue, CronAbort, Fault, Enqueue,
               Forget, TaskStatus
<1>20. CASE CronEscalate
  BY <1>20 DEF CronEscalate, BlindTransition, Event, Reasons, TaskStatus
<1>21. CASE CreateEnqueue
  BY <1>21 DEF CreateEnqueue, Enqueue, Fault, TaskStatus
<1>22. CASE Human
  BY <1>22 DEF Human, CancelTask, ApproveTask, RejectTask, TransitionTask,
               Event, Reasons, TaskStatus, TerminalStates
<1>23. CASE UNCHANGED vars
  BY <1>23 DEF vars
<1>24. QED
  BY <1>1, <1>2, <1>3, <1>4, <1>5, <1>6, <1>7, <1>8, <1>9, <1>10, <1>11,
     <1>12, <1>13, <1>14, <1>15, <1>16, <1>17, <1>18, <1>19, <1>20, <1>21,
     <1>22, <1>23
     DEF Next, WorkerStep, JobStep, WorkerFault, CronStep

(* Every behaviour of the runtime is well typed, and a row lock that       *)
(* outlives a step belongs to a worker whose agent works on the row.       *)
THEOREM TypeCorrect == Spec => []TypeOK
<1>1. QED
  BY TypeInit, TypeNext, PTL DEF Spec

-----------------------------------------------------------------------------
(* Who writes the row, and what.                                           *)

(* The driver, outside the agents' states.                                 *)
DriverWrites(t) ==
    /\ status \notin AgentStatus \cup {"AWAITING_APPROVAL"}
    /\ t \in NextStatus(status, replans, MaxReplans, last.reason)
    /\ TransitionTask(status, t, "worker", 0)

(* The compare-and-swap of an agent's verdict.                             *)
VerdictWrites(t) ==
    /\ <<status, t>> \in Verdicts
    /\ ~IsReplan(status, t)
    /\ TransitionTask(status, t, "worker", 0)

(* A replan within the budget, and one beyond it.                          *)
ReplanWrites ==
    /\ IsReplan(status, "IMPLEMENTING")
    /\ \/ /\ replans >= MaxReplans
          /\ TransitionTask(status, "ESCALATED", "worker", 0)
       \/ /\ replans < MaxReplans
          /\ TransitionTask(status, "IMPLEMENTING", "worker", 1)

(* The writers that hold no lock: the deadline and the stale-CREATED sweep *)
BlindWrite == CronEscalate \/ \E w \in Workers : MarkWrite(w)

(* Nobody else writes the part of the row the lifecycle is about.          *)
LEMMA RowWriters ==
    ASSUME TypeOK, [Next]_vars
    PROVE  \/ UNCHANGED <<status, replans, last, developed>>
           \/ \E t \in TaskStatus : DriverWrites(t)
           \/ \E t \in TaskStatus : VerdictWrites(t)
           \/ ReplanWrites
           \/ Human
           \/ BlindWrite
<1> USE DEF row
<1>1. CASE \E w \in Workers : AdvanceOnce(w)
  <2>1. PICK w \in Workers :
           \E t \in NextStatus(status, replans, MaxReplans, last.reason) :
              TransitionTask(status, t, "worker", 0)
    BY <1>1 DEF AdvanceOnce
  <2>2. PICK t \in NextStatus(status, replans, MaxReplans, last.reason) :
           TransitionTask(status, t, "worker", 0)
    BY <2>1
  <2>3. t \in TaskStatus
    BY NextStatusIsLegal DEF TypeOK
  <2>4. QED
    BY <1>1, <2>2, <2>3 DEF AdvanceOnce, DriverWrites
<1>2. CASE \E w \in Workers : CasTransition(w)
  BY <1>2 DEF CasTransition, VerdictWrites
<1>3. CASE \E w \in Workers : ReplanToImplementing(w)
  BY <1>3 DEF ReplanToImplementing, ReplanWrites
<1>4. CASE \E w \in Workers : MarkWrite(w)
  BY <1>4 DEF BlindWrite
<1>5. CASE \E w \in Workers :
              \/ Dequeue(w) \/ LoadForAgent(w) \/ NothingToDo(w)
              \/ AgentCommit(w) \/ AgentReturn(w) \/ ApplySkips(w)
              \/ Chain(w) \/ Finish(w) \/ MarkRead(w) \/ WorkerFault(w)
  BY <1>5 DEF Dequeue, LoadForAgent, NothingToDo, AgentCommit, AgentReturn,
              ApplySkips, Chain, Finish, MarkRead, WorkerFault, Deadline,
              LockTimeout, DatabaseError, Crash
<1>6. CASE StartupSweep \/ CronRead \/ CronCount \/ CronEnqueue \/ CronAbort
              \/ CreateEnqueue
  BY <1>6 DEF StartupSweep, StartupSweepRead, StartupSweepEnqueue, CronRead,
              CronCount, CronEnqueue, CronAbort, CreateEnqueue
<1>7. CASE CronEscalate
  BY <1>7 DEF BlindWrite
<1>8. CASE UNCHANGED vars
  BY <1>8 DEF vars
<1>9. QED
  BY <1>1, <1>2, <1>3, <1>4, <1>5, <1>6, <1>7, <1>8
     DEF Next, WorkerStep, JobStep, CronStep

-----------------------------------------------------------------------------
(* The budget.                                                             *)

LEMMA LedgerInit == Init => BudgetLedger
  BY ConstantsAssumption DEF Init, BudgetLedger

LEMMA LedgerNext == TypeOK /\ BudgetLedger /\ [Next]_vars => BudgetLedger'
<1> SUFFICES ASSUME TypeOK, BudgetLedger, [Next]_vars
             PROVE  BudgetLedger'
  OBVIOUS
<1> USE ConstantsAssumption
<1> USE DEF BudgetLedger
<1>1. replans \in Nat /\ developed \in Nat /\ status \in TaskStatus
  BY DEF TypeOK
<1>2. CASE UNCHANGED <<status, replans, last, developed>>
  BY <1>2
<1>3. ASSUME NEW t \in TaskStatus, DriverWrites(t)
      PROVE  BudgetLedger'
  <2>1. <<status, t>> \in PipelineEdges \cup FailureEdges
    BY <1>1, <1>3, NextStatusIsLegal DEF DriverWrites, LegalTransitions
  <2>2. t = "RESEARCHING" => status = "REPLANNING" /\ replans < MaxReplans
    BY <1>1, <1>3, <2>1
       DEF DriverWrites, NextStatus, PipelineEdges, FailureEdges, AgentStatus,
           TerminalStates
  <2>3. t \notin {"IMPLEMENTING", "CREATED"}
    BY <1>1, <1>3, <2>1
       DEF DriverWrites, NextStatus, PipelineEdges, FailureEdges, AgentStatus,
           TerminalStates
  <2>4. t = "PLANNING" => status = "CREATED"
    BY <2>1 DEF PipelineEdges, FailureEdges
  <2>5. QED
    BY <1>1, <1>3, <2>2, <2>3, <2>4 DEF DriverWrites, TransitionTask
<1>4. ASSUME NEW t \in TaskStatus, VerdictWrites(t)
      PROVE  BudgetLedger'
  <2>1. /\ t = "IMPLEMENTING" => status = "RESEARCHING"
        /\ t = "RESEARCHING" => status = "PLANNING"
        /\ t \notin {"CREATED", "PLANNING", "REPLANNING"}
    BY <1>4, VerdictTargets DEF VerdictWrites
  <2>2. QED
    BY <1>1, <1>4, <2>1 DEF VerdictWrites, TransitionTask
<1>5. CASE ReplanWrites
  BY <1>1, <1>5 DEF ReplanWrites, TransitionTask
<1>6. CASE Human
  BY <1>1, <1>6
     DEF Human, CancelTask, ApproveTask, RejectTask, TransitionTask
<1>7. CASE BlindWrite
  BY <1>1, <1>7 DEF BlindWrite, CronEscalate, MarkWrite, BlindTransition
<1>8. QED
  BY <1>2, <1>3, <1>4, <1>5, <1>6, <1>7, RowWriters

(* The ledger balances in every reachable state ...                        *)
THEOREM LedgerBalances == Spec => []BudgetLedger
<1>1. Init => TypeOK /\ BudgetLedger
  BY TypeInit, LedgerInit
<1>2. TypeOK /\ BudgetLedger /\ [Next]_vars => (TypeOK /\ BudgetLedger)'
  BY TypeNext, LedgerNext
<1>3. QED
  BY <1>1, <1>2, PTL DEF Spec

(* ... so the developer never works on a task more than max_replans + 1    *)
(* times, however failures, deadlines, crashes, duplicate jobs and sweeps  *)
(* interleave.                                                             *)
THEOREM WithinBudget == Spec => []ImplementationBudget
<1>1. BudgetLedger => ImplementationBudget
  BY DEF BudgetLedger, ImplementationBudget
<1>2. QED
  BY <1>1, LedgerBalances, PTL

-----------------------------------------------------------------------------
(* Without the two writers that hold no lock.                              *)

(* The inner deadline does not fire and the stale-CREATED sweep is off.    *)
NoBlindWriter == Faults \cap {"deadline", "cron"} = {}

(* Then no slot is on its way to overwrite a status, and no sweep pass is  *)
(* under way.                                                              *)
NobodyIsBlind ==
    /\ \A w \in Workers : wk[w].pc \notin {"expired", "marking"}
    /\ cron = "off"

LEMMA NobodyIsBlindNext ==
    ASSUME NoBlindWriter, TypeOK, NobodyIsBlind, [Next]_vars
    PROVE  NobodyIsBlind'
<1> USE DEF NobodyIsBlind, NoBlindWriter, TypeOK, SlotsOK, Slot
<1>1. ASSUME NEW w \in Workers, NEW pc \in WorkerPC \ {"expired", "marking"},
             NEW view, Goto(w, pc, view)
      PROVE  \A v \in Workers : wk'[v].pc \notin {"expired", "marking"}
  BY <1>1 DEF Goto
<1>2. ASSUME NEW w \in Workers, JobStep(w) \/ WorkerFault(w)
      PROVE  NobodyIsBlind'
  <2>1. cron' = cron
    BY <1>2 DEF JobStep, LoadForAgent, AdvanceOnce, NothingToDo, AgentReturn,
                ApplySkips, CasTransition, ReplanToImplementing, Chain, Finish,
                MarkRead, MarkWrite, WorkerFault, Deadline, LockTimeout,
                DatabaseError, Crash
  <2>2. ~Deadline(w) /\ ~MarkRead(w) /\ ~MarkWrite(w)
    BY DEF Deadline, Fault, MarkRead, MarkWrite
  <2>3. \/ \E pc \in WorkerPC \ {"expired", "marking"} :
              \E view : Goto(w, pc, view)
        \/ wk' = [wk EXCEPT ![w] = IdleSlot]
    BY <1>2, <2>2
       DEF JobStep, LoadForAgent, AdvanceOnce, NothingToDo, AgentReturn,
           ApplySkips, CasTransition, ReplanToImplementing, Chain, Finish,
           WorkerFault, LockTimeout, DatabaseError, Crash, WorkerPC
  <2>4. \A v \in Workers : wk'[v].pc \notin {"expired", "marking"}
    BY <1>1, <2>3 DEF IdleSlot
  <2>5. QED
    BY <2>1, <2>4
<1>3. ASSUME NEW w \in Workers, Dequeue(w) \/ AgentCommit(w)
      PROVE  NobodyIsBlind'
  BY <1>3 DEF Dequeue, AgentCommit
<1>4. CASE \/ StartupSweep \/ CronStep \/ CronAbort \/ CreateEnqueue \/ Human
           \/ UNCHANGED vars
  BY <1>4 DEF StartupSweep, StartupSweepRead, StartupSweepEnqueue, CronStep,
              CronRead, CronEscalate, CronCount, CronEnqueue, CronAbort,
              CreateEnqueue, Human, CancelTask, ApproveTask, RejectTask, vars
<1>5. QED
  BY <1>2, <1>3, <1>4 DEF Next, WorkerStep

(* The same table, in the abstract machine.                                *)
LEMMA SameTable ==
    /\ Machine!TaskStatus = TaskStatus
    /\ Machine!LegalTransitions = LegalTransitions
  BY DEF Machine!TaskStatus, TaskStatus, Machine!AgentStatus, AgentStatus,
         Machine!TerminalStates, TerminalStates, Machine!LegalTransitions,
         LegalTransitions, Machine!PipelineEdges, PipelineEdges,
         Machine!FailureEdges, FailureEdges

(* A step of the runtime leaves the status alone, or is a legal move of a  *)
(* task its user has not cancelled, within the budget, that the last event *)
(* records.                                                                *)
LEMMA StepIsMove ==
    ASSUME NoBlindWriter, TypeOK, BudgetLedger, NobodyIsBlind, [Next]_vars
    PROVE  \/ UNCHANGED <<status, replans, last, developed>>
           \/ /\ ~Cancelled
              /\ status' \in TaskStatus
              /\ <<status, status'>> \in LegalTransitions
              /\ last'.from = status
              /\ last'.to = status'
              /\ developed' =
                    developed + (IF status' = "IMPLEMENTING" THEN 1 ELSE 0)
              /\ status' = "IMPLEMENTING" => developed <= MaxReplans
<1> USE ConstantsAssumption
<1>1. /\ replans \in Nat /\ developed \in Nat /\ status \in TaskStatus
      /\ developed <= replans + 1
      /\ status = "RESEARCHING" => developed <= MaxReplans
  BY DEF TypeOK, BudgetLedger
<1>2. ASSUME NEW t \in TaskStatus, NEW reason, NEW charged,
             TransitionTask(status, t, reason, charged)
      PROVE  /\ status' = t
             /\ last'.from = status
             /\ last'.to = t
             /\ developed' = developed + (IF t = "IMPLEMENTING" THEN 1 ELSE 0)
  BY <1>2 DEF TransitionTask
<1>3. ASSUME NEW t \in TaskStatus, DriverWrites(t)
      PROVE  /\ ~Cancelled
             /\ <<status, t>> \in LegalTransitions
             /\ t # "IMPLEMENTING"
  <2>1. <<status, t>> \in LegalTransitions
    BY <1>1, <1>3, NextStatusIsLegal DEF DriverWrites
  <2>2. ~Cancelled
    BY <1>3 DEF DriverWrites, NextStatus, Cancelled, TerminalStates
  <2>3. t # "IMPLEMENTING"
    BY <1>1, <1>3, <2>1
       DEF DriverWrites, NextStatus, LegalTransitions, PipelineEdges,
           FailureEdges, AgentStatus, TerminalStates
  <2>4. QED
    BY <2>1, <2>2, <2>3
<1>4. ASSUME NEW t \in TaskStatus, VerdictWrites(t)
      PROVE  /\ ~Cancelled
             /\ <<status, t>> \in LegalTransitions
             /\ t = "IMPLEMENTING" => status = "RESEARCHING"
  <2>1. <<status, t>> \in LegalTransitions /\ status \in AgentStatus
    BY <1>4, VerdictIsLegal DEF VerdictWrites
  <2>2. t = "IMPLEMENTING" => status = "RESEARCHING"
    BY <1>4, VerdictTargets DEF VerdictWrites
  <2>3. QED
    BY <2>1, <2>2 DEF Cancelled, AgentStatus
<1>5. ASSUME ReplanWrites
      PROVE  /\ ~Cancelled
             /\ \/ TransitionTask(status, "ESCALATED", "worker", 0)
                \/ /\ TransitionTask(status, "IMPLEMENTING", "worker", 1)
                   /\ developed <= MaxReplans
             /\ <<status, "ESCALATED">> \in LegalTransitions
             /\ <<status, "IMPLEMENTING">> \in LegalTransitions
             /\ {"ESCALATED", "IMPLEMENTING"} \subseteq TaskStatus
  BY <1>1, <1>5
     DEF ReplanWrites, IsReplan, Cancelled, LegalTransitions, PipelineEdges,
         FailureEdges, TaskStatus, AgentStatus, TerminalStates
<1>6. ASSUME Human
      PROVE  /\ ~Cancelled
             /\ \E t \in {"FAILED", "COMPLETED"}, reason \in Reasons :
                   /\ TransitionTask(status, t, reason, 0)
                   /\ <<status, t>> \in LegalTransitions
             /\ {"FAILED", "COMPLETED"} \subseteq TaskStatus
  BY <1>1, <1>6
     DEF Human, CancelTask, ApproveTask, RejectTask, Cancelled, Reasons,
         LegalTransitions, PipelineEdges, FailureEdges, TaskStatus,
         TerminalStates
<1>7. ~BlindWrite
  BY DEF BlindWrite, CronEscalate, MarkWrite, NobodyIsBlind
<1>8. CASE \E t \in TaskStatus : DriverWrites(t)
  BY <1>2, <1>3, <1>8 DEF DriverWrites
<1>9. CASE \E t \in TaskStatus : VerdictWrites(t)
  BY <1>1, <1>2, <1>4, <1>9 DEF VerdictWrites
<1>10. CASE ReplanWrites
  BY <1>2, <1>5, <1>10
<1>11. CASE Human
  BY <1>2, <1>6, <1>11
<1>12. QED
  BY <1>7, <1>8, <1>9, <1>10, <1>11, RowWriters

(* What the theorems below need of every state.                            *)
LEMMA Strengthened ==
    ASSUME NoBlindWriter
    PROVE  Spec => [](TypeOK /\ BudgetLedger /\ NobodyIsBlind)
<1>1. Init => TypeOK /\ BudgetLedger /\ NobodyIsBlind
  BY TypeInit, LedgerInit DEF Init, NobodyIsBlind, IdleSlot
<1>2. TypeOK /\ BudgetLedger /\ NobodyIsBlind /\ [Next]_vars
         => (TypeOK /\ BudgetLedger /\ NobodyIsBlind)'
  BY TypeNext, LedgerNext, NobodyIsBlindNext
<1>3. QED
  BY <1>1, <1>2, PTL DEF Spec

(* When the deadline does not fire and the stale-CREATED sweep is off, the *)
(* runtime implements the abstract machine: every change of status is a    *)
(* legal transition, none leaves a terminal or a cancelled task, and none  *)
(* starts the developer beyond the budget.                                 *)
THEOREM Refinement ==
    ASSUME NoBlindWriter
    PROVE  Spec => ImplementsMachine
<1>1. Init => Machine!Init
  BY DEF Init, Machine!Init, Cancelled
<1>2. TypeOK /\ BudgetLedger /\ NobodyIsBlind /\ [Next]_vars
         => [Machine!Next]_(Machine!vars)
  <2> SUFFICES ASSUME TypeOK, BudgetLedger, NobodyIsBlind, [Next]_vars
               PROVE  [Machine!Next]_(Machine!vars)
    OBVIOUS
  <2>1. CASE UNCHANGED <<status, replans, last, developed>>
    BY <2>1 DEF Machine!vars, Cancelled
  <2>2. CASE /\ ~Cancelled
             /\ status' \in TaskStatus
             /\ <<status, status'>> \in LegalTransitions
             /\ developed' =
                   developed + (IF status' = "IMPLEMENTING" THEN 1 ELSE 0)
             /\ status' = "IMPLEMENTING" => developed <= MaxReplans
    <3>1. developed \in Nat
      BY DEF TypeOK
    <3>2. Cancelled' \in IF status' = "FAILED" THEN BOOLEAN ELSE {FALSE}
      BY DEF Cancelled
    <3>3. IF status' = "IMPLEMENTING"
          THEN developed <= MaxReplans /\ developed' = developed + 1
          ELSE developed' = developed
      BY <2>2, <3>1
    <3>4. Machine!Move(status')
      BY <2>2, <3>2, <3>3, SameTable, Zenon DEF Machine!Move
    <3>5. QED
      BY <2>2, <3>4, SameTable DEF Machine!Next
  <2>3. QED
    BY <2>1, <2>2, StepIsMove
<1>3. QED
  BY <1>1, <1>2, Strengthened, PTL DEF Spec, ImplementsMachine, Machine!Spec

(* Under the same assumption the trail explains the status: every change   *)
(* of status has its own event, from the old status to the new one, and it *)
(* is the latest.                                                          *)
THEOREM TrailIsFaithful ==
    ASSUME NoBlindWriter
    PROVE  Spec => TrailExplainsStatus
<1>1. TypeOK /\ BudgetLedger /\ NobodyIsBlind /\ [Next]_vars
         => [status' # status =>
               last'.from = status /\ last'.to = status']_<<status, last>>
  BY StepIsMove
<1>2. QED
  BY <1>1, Strengthened, PTL DEF Spec, TrailExplainsStatus

(* Without the two writers that hold no lock, a cancelled task stays       *)
(* cancelled: the driver stops at it, no verdict is applied over it and    *)
(* nothing is charged to it.  What the run cancel_resumed refutes takes a  *)
(* deadline that fires at that moment (task_lifecycle.py, next_status).    *)
THEOREM CancelStays ==
    ASSUME NoBlindWriter
    PROVE  Spec => CancelIsFinal
<1>1. TypeOK /\ BudgetLedger /\ NobodyIsBlind /\ [Next]_vars
         => [Cancelled => Cancelled']_vars
  BY StepIsMove DEF Cancelled
<1>2. QED
  BY <1>1, Strengthened, PTL DEF Spec, CancelIsFinal

-----------------------------------------------------------------------------
(* One job slot, and nothing that runs a job twice or ends it half way: no *)
(* crash, no restart, no database error outside the agents.  The inner     *)
(* deadline, the stale-CREATED sweep and a lost first enqueue may happen.  *)

OneSteadySlot ==
    /\ \E w : Workers = {w}
    /\ Faults \cap {"crash", "restart", "db_error"} = {}
    /\ MaxAttempts # 0

(* Nobody has to move the task.                                            *)
Settled ==
    \/ status \in TerminalStates \cup {"CREATED", "AWAITING_APPROVAL"}
    \/ Cancelled
    \/ Rejected

(* A job is named after the status it will find, unless a human has been   *)
(* there first.                                                            *)
Fits(job) ==
    \/ status = job
    \/ status \in TerminalStates
    \/ Cancelled
    \/ Rejected /\ job = "AWAITING_APPROVAL"

(* The one job at each point of its run: its key is the only one until it  *)
(* has chained, and the status it chains is never its own, which arq would *)
(* take for a duplicate and drop.                                          *)
OnlyJob(w) ==
    /\ wk[w].pc = "idle" =>
          \/ jobs = {} /\ Settled
          \/ \E next \in TaskStatus : jobs = {next} /\ Fits(next)
    /\ wk[w].pc \notin {"idle", "finish"} => jobs = {wk[w].job}
    /\ wk[w].pc = "start" => Fits(wk[w].job)
    /\ wk[w].pc \in {"agent", "apply", "expired", "marking"} =>
          /\ wk[w].job \in AgentStatus
          /\ status = wk[w].job \/ Cancelled
    /\ wk[w].pc \in {"agent", "apply"} => wk[w].view = wk[w].job
    /\ wk[w].pc = "chain" => wk[w].view # wk[w].job /\ Fits(wk[w].view)
    /\ wk[w].pc = "finish" =>
          \/ jobs = {wk[w].job} /\ Settled
          \/ \E next \in TaskStatus \ {wk[w].job} :
                jobs = {wk[w].job, next} /\ Fits(next)

(* The job the create request still owes.                                  *)
FirstJob ==
    api = "committed" =>
       /\ jobs = {}
       /\ \A w \in Workers : wk[w].pc = "idle"
       /\ status = "CREATED" \/ Cancelled

Served ==
    /\ boot = NoStatus
    /\ cron = "enqueue" => attempts > 0
    /\ attempts = 0 => FirstJob /\ \A w \in Workers : OnlyJob(w)

LEMMA ServedInit == Init => Served
  BY DEF Init, Served, FirstJob, OnlyJob, IdleSlot, Settled

LEMMA ServedMeansNotStranded ==
    ASSUME OneSteadySlot, TypeOK, Served
    PROVE  NoStrandedTask
<1> SUFFICES ASSUME NeedsJob
             PROVE  Queued # {} \/ \E w \in Workers : Serving(w)
  BY DEF NoStrandedTask
<1>1. PICK w : Workers = {w}
  BY DEF OneSteadySlot
<1>2. OnlyJob(w) /\ ~Settled
  BY <1>1 DEF Served, NeedsJob, Settled, Cancelled, Rejected
<1>3. CASE wk[w].pc = "idle"
  BY <1>1, <1>2, <1>3 DEF OnlyJob, Queued
<1>4. CASE wk[w].pc = "finish"
  BY <1>1, <1>2, <1>4 DEF OnlyJob, Queued
<1>5. CASE wk[w].pc \notin {"idle", "finish"}
  BY <1>1, <1>5 DEF Serving
<1>6. QED
  BY <1>3, <1>4, <1>5

(* The driver never stays, nor hands a task to the human; it stops only at *)
(* a task that is over.                                                    *)
LEMMA DriverMovesOn ==
    ASSUME NEW s \in TaskStatus \ (AgentStatus \cup {"AWAITING_APPROVAL"}),
           NEW r, NEW m, NEW reason
    PROVE  /\ \A t \in NextStatus(s, r, m, reason) :
                 t \in TaskStatus /\ t # s /\ t # "AWAITING_APPROVAL"
           /\ NextStatus(s, r, m, reason) = {}
                 => \/ s \in TerminalStates
                    \/ s = "FAILED" /\ reason = "user_cancelled"
           /\ s \in TerminalStates => NextStatus(s, r, m, reason) = {}
           /\ s = "FAILED" /\ reason = "user_cancelled"
                 => NextStatus(s, r, m, reason) = {}
<1>1. CASE s \in TerminalStates
  BY <1>1 DEF NextStatus, TerminalStates
<1>2. CASE s = "FAILED"
  BY <1>2 DEF NextStatus, TerminalStates, TaskStatus
<1>3. CASE s = "RECOVERING"
  BY <1>3 DEF NextStatus, TerminalStates, TaskStatus
<1>4. CASE s = "REPLANNING"
  BY <1>4 DEF NextStatus, TerminalStates, TaskStatus, AgentStatus
<1>5. CASE s = "CREATED"
  <2>1. NextStatus(s, r, m, reason) =
           {AutoPipeline[i + 1] :
               i \in {j \in 1 .. Len(AutoPipeline) - 1 : AutoPipeline[j] = s}}
    BY <1>5 DEF NextStatus, TerminalStates
  <2>2. {j \in 1 .. Len(AutoPipeline) - 1 : AutoPipeline[j] = s} = {1}
    BY <1>5 DEF AutoPipeline
  <2>3. NextStatus(s, r, m, reason) = {"PLANNING"}
    BY <2>1, <2>2 DEF AutoPipeline
  <2>4. QED
    BY <1>5, <2>3 DEF TaskStatus, AgentStatus, TerminalStates
<1>6. QED
  BY <1>1, <1>2, <1>3, <1>4, <1>5 DEF TaskStatus, TerminalStates

LEMMA VerdictMovesOn ==
    ASSUME NEW s, NEW t, <<s, t>> \in Verdicts
    PROVE  s # t /\ s \in AgentStatus /\ t \in TaskStatus
<1>1. s \in AgentStatus /\ t \in TaskStatus
  BY VerdictIsLegal
<1>2. s # t
  BY DEF Verdicts, PlanningVerdicts,
         ResearchingVerdicts, ImplementingVerdicts, TestingVerdicts,
         DebuggingVerdicts, ReviewingVerdicts, SecurityVerdicts,
         VerificationVerdicts, PRCreationVerdicts
<1>3. QED
  BY <1>1, <1>2

(* What the steps of the sweeps leave alone.                               *)
LEMMA SweepsStay ==
    ASSUME OneSteadySlot, TypeOK, Served, [Next]_vars
    PROVE  /\ boot' = NoStatus
           /\ cron' = "enqueue" => attempts' > 0
           /\ attempts' = 0 => attempts = 0
           /\ api' = "committed" => api = "committed"
<1>0. attempts \in Nat /\ "restart" \notin Faults
  BY ConstantsAssumption DEF TypeOK, OneSteadySlot
<1>1. CASE StartupSweep
  BY <1>0, <1>1 DEF StartupSweep, StartupSweepRead, StartupSweepEnqueue, Fault,
                    Served
<1>2. CASE CronStep \/ CronAbort
  BY <1>0, <1>2 DEF CronStep, CronRead, CronEscalate, CronCount, CronEnqueue,
                    CronAbort, Served, row
<1>3. CASE CreateEnqueue \/ Human \/ UNCHANGED vars
  BY <1>0, <1>3 DEF CreateEnqueue, Human, CancelTask, ApproveTask, RejectTask,
                    Served, vars, row
<1>4. CASE \E w \in Workers : WorkerStep(w) \/ AgentCommit(w) \/ WorkerFault(w)
  <2>1. UNCHANGED <<boot, cron, attempts, api>>
    BY <1>4 DEF WorkerStep, Dequeue, JobStep, LoadForAgent, AdvanceOnce,
                NothingToDo, AgentReturn, ApplySkips, CasTransition,
                ReplanToImplementing, Chain, Finish, MarkRead, MarkWrite,
                AgentCommit, WorkerFault, Deadline, LockTimeout, DatabaseError,
                Crash, row
  <2>2. QED
    BY <2>1 DEF Served
<1>5. QED
  BY <1>1, <1>2, <1>3, <1>4 DEF Next

(* Where a slot goes.                                                      *)
LEMMA Goes ==
    ASSUME SlotsOK, NEW w \in Workers, NEW pc \in WorkerPC, NEW view,
           Goto(w, pc, view)
    PROVE  wk'[w].pc = pc /\ wk'[w].view = view /\ wk'[w].job = wk[w].job
<1>1. wk[w] \in Slot /\ wk'[w] = [wk[w] EXCEPT !.pc = pc, !.view = view]
  BY DEF SlotsOK, Goto
<1>2. QED
  BY <1>1 DEF Slot

(* The steps of a job that leave the row alone.                            *)
LEMMA OnlyJobWaits ==
    ASSUME OneSteadySlot, TypeOK, NEW w \in Workers, OnlyJob(w),
           \/ LoadForAgent(w) \/ NothingToDo(w) \/ AgentReturn(w)
           \/ ApplySkips(w) \/ MarkRead(w) \/ Deadline(w) \/ AgentCommit(w)
    PROVE  OnlyJob(w)'
<1>0. SlotsOK /\ status \in TaskStatus
  BY DEF TypeOK
<1>a. UNCHANGED <<status, last, jobs>>
  BY DEF LoadForAgent, NothingToDo, AgentReturn, ApplySkips, MarkRead,
         Deadline, AgentCommit, row
<1>b. (Settled <=> Settled') /\ (Cancelled <=> Cancelled')
  BY <1>a DEF Settled, Cancelled, Rejected
<1>c. "FAILED" \notin AgentStatus
      /\ AgentStatus \cap TerminalStates = {}
      /\ "FAILED" \notin TerminalStates
  BY DEF AgentStatus, TerminalStates
<1>1. CASE LoadForAgent(w)
  <2>1. /\ wk'[w].pc = "agent" /\ wk'[w].view = status
        /\ wk'[w].job = wk[w].job
    BY <1>0, <1>1, Goes DEF LoadForAgent, WorkerPC
  <2>2. wk[w].pc = "start" /\ status \in AgentStatus
    BY <1>1 DEF LoadForAgent
  <2>3. status = wk[w].job
    BY <1>c, <2>2 DEF OnlyJob, Fits, Cancelled, Rejected
  <2>4. QED
    BY <1>a, <2>1, <2>2, <2>3 DEF OnlyJob
<1>2. CASE NothingToDo(w)
  <2>1. wk'[w].pc = "finish" /\ wk'[w].job = wk[w].job /\ wk[w].pc = "start"
    BY <1>0, <1>2, Goes DEF NothingToDo, WorkerPC
  <2>2. CASE status = "AWAITING_APPROVAL"
    BY <1>a, <1>b, <2>1, <2>2 DEF OnlyJob, Settled
  <2>3. CASE status # "AWAITING_APPROVAL"
    <3>1. NextStatus(status, replans, MaxReplans, last.reason) = {}
      BY <1>2, <2>3 DEF NothingToDo
    <3>2. status \in TaskStatus \ (AgentStatus \cup {"AWAITING_APPROVAL"})
      BY <1>0, <1>2, <2>3 DEF NothingToDo
    <3>3. Settled
      BY <3>1, <3>2, DriverMovesOn DEF Settled, Cancelled
    <3>4. QED
      BY <1>a, <1>b, <2>1, <3>3 DEF OnlyJob
  <2>4. QED
    BY <2>2, <2>3
<1>3. CASE AgentReturn(w)
  <2>1. /\ wk'[w].pc = "apply" /\ wk'[w].view = wk[w].view
        /\ wk'[w].job = wk[w].job /\ wk[w].pc = "agent"
    BY <1>0, <1>3, Goes DEF AgentReturn, WorkerPC
  <2>2. QED
    BY <1>a, <1>b, <2>1 DEF OnlyJob
<1>4. CASE ApplySkips(w)
  <2>1. /\ wk'[w].pc = "chain" /\ wk'[w].view = status
        /\ wk'[w].job = wk[w].job /\ wk[w].pc = "apply"
        /\ status # wk[w].view
    BY <1>0, <1>4, Goes DEF ApplySkips, WorkerPC
  <2>2. wk[w].job \in AgentStatus /\ Cancelled
    BY <2>1 DEF OnlyJob
  <2>3. status # wk[w].job
    BY <1>c, <2>2 DEF Cancelled
  <2>4. QED
    BY <1>a, <2>1, <2>3 DEF OnlyJob, Fits
<1>5. CASE MarkRead(w)
  <2>1. wk[w].pc = "expired"
    BY <1>5 DEF MarkRead
  <2>2. wk[w].job \in AgentStatus /\ (status = wk[w].job \/ Cancelled)
    BY <2>1 DEF OnlyJob
  <2>3. CASE status \in TerminalStates \cup {"FAILED"}
    <3>1. wk'[w].pc = "finish" /\ wk'[w].job = wk[w].job
      BY <1>0, <1>5, <2>3, Goes DEF MarkRead, WorkerPC
    <3>2. Settled
      BY <1>c, <2>2, <2>3 DEF Settled
    <3>3. QED
      BY <1>a, <1>b, <2>1, <3>1, <3>2 DEF OnlyJob
  <2>4. CASE status \notin TerminalStates \cup {"FAILED"}
    <3>1. wk'[w].pc = "marking" /\ wk'[w].job = wk[w].job
      BY <1>0, <1>5, <2>4, Goes DEF MarkRead, WorkerPC
    <3>2. QED
      BY <1>a, <1>b, <2>1, <2>2, <3>1 DEF OnlyJob
  <2>5. QED
    BY <2>3, <2>4
<1>6. CASE Deadline(w)
  <2>1. wk'[w].pc = "expired" /\ wk'[w].job = wk[w].job /\ wk[w].pc = "agent"
    BY <1>0, <1>6, Goes DEF Deadline, WorkerPC
  <2>2. QED
    BY <1>a, <1>b, <2>1 DEF OnlyJob
<1>7. CASE AgentCommit(w)
  BY <1>7, <1>a, <1>b DEF AgentCommit, OnlyJob, Fits, Rejected
<1>8. QED
  BY <1>1, <1>2, <1>3, <1>4, <1>5, <1>6, <1>7

(* The steps of a job that write the row: each chains the status it wrote. *)
LEMMA OnlyJobWrites ==
    ASSUME OneSteadySlot, TypeOK, NEW w \in Workers, OnlyJob(w),
           \/ AdvanceOnce(w) \/ CasTransition(w) \/ ReplanToImplementing(w)
           \/ MarkWrite(w)
    PROVE  OnlyJob(w)'
<1>0. SlotsOK /\ status \in TaskStatus
  BY DEF TypeOK
<1>a. jobs' = jobs /\ wk[w].pc \in {"start", "apply", "marking"}
  BY DEF AdvanceOnce, CasTransition, ReplanToImplementing, MarkWrite
<1>b. jobs = {wk[w].job}
  BY <1>a DEF OnlyJob
<1>c. /\ AgentStatus \cap (TerminalStates \cup {"FAILED"}) = {}
      /\ "FAILED" \notin TerminalStates
  BY DEF AgentStatus, TerminalStates
<1>1. PICK target \in TaskStatus :
         /\ status' = target
         /\ target # wk[w].job
         /\ Goto(w, "chain", target)
  <2>1. CASE AdvanceOnce(w)
    <3>1. PICK target \in NextStatus(status, replans, MaxReplans, last.reason) :
             status' = target /\ Goto(w, "chain", target)
      BY <2>1 DEF AdvanceOnce, TransitionTask
    <3>2. status \in TaskStatus \ (AgentStatus \cup {"AWAITING_APPROVAL"})
      BY <1>0, <2>1 DEF AdvanceOnce
    <3>3. /\ target \in TaskStatus /\ target # status
          /\ target # "AWAITING_APPROVAL"
          /\ status \notin TerminalStates /\ ~Cancelled
      BY <3>1, <3>2, DriverMovesOn DEF Cancelled
    <3>4. status = wk[w].job \/ wk[w].job = "AWAITING_APPROVAL"
      BY <2>1, <3>3 DEF AdvanceOnce, OnlyJob, Fits
    <3>5. QED
      BY <3>1, <3>3, <3>4
  <2>2. CASE CasTransition(w)
    <3>1. PICK target \in TaskStatus :
             /\ <<status, target>> \in Verdicts
             /\ status' = target /\ Goto(w, "chain", target)
      BY <2>2 DEF CasTransition, TransitionTask
    <3>2. status = wk[w].job
      BY <2>2 DEF CasTransition, OnlyJob
    <3>3. QED
      BY <3>1, <3>2, VerdictMovesOn
  <2>3. CASE ReplanToImplementing(w)
    <3>1. PICK target \in {"ESCALATED", "IMPLEMENTING"} :
             status' = target /\ Goto(w, "chain", target)
      BY <2>3 DEF ReplanToImplementing, TransitionTask
    <3>2. status = wk[w].job
      BY <2>3 DEF ReplanToImplementing, OnlyJob
    <3>3. status \notin {"ESCALATED", "IMPLEMENTING"}
      BY <2>3 DEF ReplanToImplementing, IsReplan
    <3>4. target \in TaskStatus
      BY DEF TaskStatus, AgentStatus, TerminalStates
    <3>5. QED
      BY <3>1, <3>2, <3>3, <3>4
  <2>4. CASE MarkWrite(w)
    <3>1. /\ status' = "FAILED" /\ Goto(w, "chain", "FAILED")
          /\ wk[w].pc = "marking"
      BY <2>4 DEF MarkWrite, BlindTransition
    <3>2. wk[w].job \in AgentStatus
      BY <3>1 DEF OnlyJob
    <3>3. "FAILED" \in TaskStatus
      BY DEF TaskStatus
    <3>4. QED
      BY <1>c, <3>1, <3>2, <3>3
  <2>5. QED
    BY <2>1, <2>2, <2>3, <2>4
<1>2. /\ wk'[w].pc = "chain" /\ wk'[w].view = target
      /\ wk'[w].job = wk[w].job
  BY <1>0, <1>1, Goes DEF WorkerPC
<1>3. QED
  BY <1>1, <1>2, <1>a, <1>b DEF OnlyJob, Fits

(* The steps of arq: a job is taken, has chained, has ended.               *)
LEMMA OnlyJobQueued ==
    ASSUME OneSteadySlot, TypeOK, NEW w \in Workers, OnlyJob(w),
           Dequeue(w) \/ Chain(w) \/ Finish(w)
    PROVE  OnlyJob(w)'
<1>0. SlotsOK
  BY DEF TypeOK
<1>a. /\ Settled' <=> Settled
      /\ \A job : Fits(job)' <=> Fits(job)
  BY DEF Dequeue, Chain, Finish, Settled, Fits, Cancelled, Rejected, row
<1>1. CASE Dequeue(w)
  <2>1. PICK job \in jobs :
           wk' = [wk EXCEPT ![w].pc = "start", ![w].job = job]
    BY <1>1 DEF Dequeue
  <2>2. wk[w] \in Slot /\ wk[w].pc = "idle" /\ jobs' = jobs
    BY <1>0, <1>1 DEF Dequeue, SlotsOK
  <2>3. wk'[w].pc = "start" /\ wk'[w].job = job
    BY <1>0, <2>1, <2>2 DEF SlotsOK, Slot
  <2>4. jobs = {job} /\ Fits(job)
    BY <2>1, <2>2 DEF OnlyJob
  <2>5. QED
    BY <1>a, <2>2, <2>3, <2>4 DEF OnlyJob
<1>2. CASE Chain(w)
  <2>1. wk'[w].pc = "finish" /\ wk'[w].job = wk[w].job /\ wk[w].pc = "chain"
    BY <1>0, <1>2, Goes DEF Chain, WorkerPC
  <2>2. /\ jobs = {wk[w].job} /\ wk[w].view # wk[w].job
        /\ Fits(wk[w].view)
        /\ wk[w].view \in TaskStatus
    BY <1>0, <2>1 DEF OnlyJob, SlotsOK, HasView
  <2>3. CASE wk[w].view \in TerminalStates
    <3>1. Settled
      BY <2>2, <2>3 DEF Fits, Settled
    <3>2. jobs' = jobs
      BY <1>2, <2>3 DEF Chain
    <3>3. QED
      BY <1>a, <2>1, <2>2, <3>1, <3>2 DEF OnlyJob
  <2>4. CASE wk[w].view \notin TerminalStates
    <3>1. jobs' = {wk[w].job, wk[w].view}
      BY <1>2, <2>2, <2>4 DEF Chain, Enqueue
    <3>2. QED
      BY <1>a, <2>1, <2>2, <3>1 DEF OnlyJob
  <2>5. QED
    BY <2>3, <2>4
<1>3. CASE Finish(w)
  <2>1. wk'[w].pc = "idle" /\ wk[w].pc = "finish" /\ jobs' = jobs \ {wk[w].job}
    BY <1>0, <1>3 DEF Finish, IdleSlot, SlotsOK
  <2>2. CASE jobs = {wk[w].job} /\ Settled
    BY <1>a, <2>1, <2>2 DEF OnlyJob
  <2>3. CASE \E next \in TaskStatus \ {wk[w].job} :
                jobs = {wk[w].job, next} /\ Fits(next)
    <3>1. PICK next \in TaskStatus \ {wk[w].job} :
             jobs = {wk[w].job, next} /\ Fits(next)
      BY <2>3
    <3>2. jobs' = {next}
      BY <2>1, <3>1
    <3>3. QED
      BY <1>a, <2>1, <3>1, <3>2 DEF OnlyJob
  <2>4. QED
    BY <2>1, <2>2, <2>3 DEF OnlyJob
<1>4. QED
  BY <1>1, <1>2, <1>3

(* The human: whatever the job finds afterwards, it is still the only one. *)
LEMMA OnlyJobByHuman ==
    ASSUME TypeOK, Human, NEW w \in Workers, OnlyJob(w)
    PROVE  OnlyJob(w)'
<1>1. wk' = wk /\ jobs' = jobs
  BY DEF Human, CancelTask, ApproveTask, RejectTask
<1>2. \/ Cancelled'
      \/ status = "AWAITING_APPROVAL" /\ status' = "COMPLETED"
      \/ status = "AWAITING_APPROVAL" /\ Rejected'
  BY DEF Human, CancelTask, ApproveTask, RejectTask, TransitionTask, Cancelled,
         Rejected
<1>3. Settled'
  BY <1>2 DEF Settled, TerminalStates
<1>4. \A job : Fits(job) => Fits(job)'
  <2>1. SUFFICES ASSUME NEW job, Fits(job)
                 PROVE  Fits(job)'
    OBVIOUS
  <2>2. CASE Cancelled' \/ status' = "COMPLETED"
    BY <2>2 DEF Fits, TerminalStates
  <2>3. CASE status = "AWAITING_APPROVAL" /\ Rejected'
    <3>1. job = "AWAITING_APPROVAL"
      BY <2>1, <2>3 DEF Fits, TerminalStates, Cancelled, Rejected
    <3>2. QED
      BY <2>3, <3>1 DEF Fits
  <2>4. QED
    BY <1>2, <2>2, <2>3
<1>5. status \in AgentStatus => Cancelled'
  BY <1>2 DEF AgentStatus
<1>6. Cancelled => FALSE
  BY DEF Human, CancelTask, ApproveTask, RejectTask, Cancelled
<1>7. QED
  BY <1>1, <1>3, <1>4, <1>5, <1>6 DEF OnlyJob

LEMMA ServedNext ==
    ASSUME OneSteadySlot, TypeOK, Served, [Next]_vars
    PROVE  Served'
<1>0. SUFFICES ASSUME attempts' = 0
               PROVE  FirstJob' /\ \A w \in Workers : OnlyJob(w)'
  BY SweepsStay DEF Served
<1>a. /\ attempts = 0
      /\ api' = "committed" => api = "committed"
      /\ FirstJob
      /\ \A w \in Workers : OnlyJob(w)
      /\ boot = NoStatus /\ cron # "enqueue"
  BY <1>0, SweepsStay DEF Served
<1>b. PICK w : Workers = {w}
  BY DEF OneSteadySlot
<1>c. SUFFICES FirstJob' /\ OnlyJob(w)'
  BY <1>b
<1>1. CASE WorkerStep(w) \/ AgentCommit(w) \/ WorkerFault(w)
  <2>1. ~LockTimeout(w) /\ ~DatabaseError(w) /\ ~Crash(w)
    BY <1>b DEF LockTimeout, DatabaseError, Crash, Fault, OneSteadySlot,
                TypeOK, SlotsOK
  <2>2. OnlyJob(w)'
    BY <1>1, <1>a, <1>b, <2>1, OnlyJobWaits, OnlyJobWrites, OnlyJobQueued
       DEF WorkerStep, JobStep, WorkerFault
  <2>3. wk[w].pc # "idle" \/ jobs # {}
    BY <1>1 DEF WorkerStep, Dequeue, JobStep, LoadForAgent, AdvanceOnce,
                NothingToDo, AgentReturn, ApplySkips, CasTransition,
                ReplanToImplementing, Chain, Finish, MarkRead, MarkWrite,
                AgentCommit, WorkerFault, Deadline, LockTimeout, DatabaseError,
                Crash
  <2>4. api' # "committed"
    BY <1>a, <1>b, <2>3 DEF FirstJob
  <2>5. QED
    BY <2>2, <2>4 DEF FirstJob
<1>2. CASE StartupSweep
  BY <1>2, <1>a DEF StartupSweep, StartupSweepRead, StartupSweepEnqueue, Fault,
                    OneSteadySlot
<1>3. CASE CronStep \/ CronAbort
  <2>1. ~CronEscalate /\ ~CronCount /\ ~CronEnqueue
    <3>1. MaxAttempts \in Nat /\ MaxAttempts # 0
      BY ConstantsAssumption DEF OneSteadySlot
    <3>2. ~(attempts + 1 > MaxAttempts)
      BY <1>a, <3>1
    <3>3. ~CronCount
      BY <1>0, <1>a DEF CronCount
    <3>4. QED
      BY <1>a, <3>2, <3>3 DEF CronEscalate, CronEnqueue
  <2>2. UNCHANGED <<status, last, jobs, wk, api>>
    BY <1>3, <2>1 DEF CronStep, CronRead, CronAbort, row
  <2>3. QED
    BY <1>a, <1>b, <2>2 DEF OnlyJob, FirstJob, Fits, Settled, Cancelled, Rejected
<1>4. CASE CreateEnqueue
  <2>1. /\ api' = "answered" /\ wk' = wk /\ api = "committed"
        /\ UNCHANGED <<status, last>>
    BY <1>4 DEF CreateEnqueue, row
  <2>2. jobs = {} /\ wk[w].pc = "idle" /\ (status = "CREATED" \/ Cancelled)
    BY <1>a, <1>b, <2>1 DEF FirstJob
  <2>3. jobs' = {"CREATED"} \/ jobs' = {}
    BY <1>4, <2>2 DEF CreateEnqueue, Enqueue
  <2>4. Settled' /\ Fits("CREATED")' /\ "CREATED" \in TaskStatus
    BY <2>1, <2>2 DEF Settled, Fits, Cancelled, TaskStatus
  <2>5. QED
    BY <2>1, <2>2, <2>3, <2>4 DEF OnlyJob, FirstJob
<1>5. CASE Human
  <2>1. OnlyJob(w)'
    BY <1>5, <1>a, <1>b, OnlyJobByHuman
  <2>2. /\ UNCHANGED <<jobs, wk, api>>
        /\ status = "CREATED" => Cancelled'
        /\ ~Cancelled
    BY <1>5 DEF Human, CancelTask, ApproveTask, RejectTask, TransitionTask,
                Cancelled
  <2>3. FirstJob'
    BY <1>a, <2>2 DEF FirstJob
  <2>4. QED
    BY <2>1, <2>3
<1>6. CASE UNCHANGED vars
  BY <1>6, <1>a, <1>b DEF vars, row, OnlyJob, FirstJob, Fits, Settled,
                          Cancelled, Rejected
<1>7. QED
  BY <1>1, <1>2, <1>3, <1>4, <1>5, <1>6, <1>b DEF Next

(* With one steady slot a task that somebody still has to move has a job   *)
(* that will move it: the self-chain survives the inner deadline's blind   *)
(* overwrite and every decision of a human, at any point of the job.       *)
THEOREM NotStranded ==
    ASSUME OneSteadySlot
    PROVE  Spec => []NoStrandedTask
<1>1. TypeOK /\ Served /\ [Next]_vars => Served'
  BY ServedNext
<1>2. TypeOK /\ Served => NoStrandedTask
  BY ServedMeansNotStranded
<1>3. QED
  BY <1>1, <1>2, TypeInit, TypeNext, ServedInit, PTL DEF Spec

-----------------------------------------------------------------------------
(* The task nears its end, for a single steady slot.                       *)

(* As above, and VERIFICATION finds what was reviewed.                     *)
OneSteadyReview == OneSteadySlot /\ "stale_review" \notin Faults

(* The account of replans is overdrawn by at most one, by the recovery     *)
(* that then escalates or is cancelled, and never under an agent.          *)
Overdrawn == status \in {"REPLANNING", "ESCALATED"} \/ Cancelled
Paid(w) ==
    wk[w].pc \in {"agent", "expired", "marking"} => replans <= MaxReplans
Account ==
    /\ replans <= MaxReplans + 1
    /\ Overdrawn \/ replans <= MaxReplans
    /\ \A w \in Workers : Paid(w)
EndInv == attempts = 0 => Account

LEMMA EndInit == Init => EndInv
<1>1. MaxReplans \in Nat
  BY ConstantsAssumption
<1>2. QED
  BY <1>1 DEF Init, EndInv, Account, Paid

(* The stale-CREATED sweep takes the task up or leaves it alone.           *)
LEMMA CronStays ==
    ASSUME OneSteadySlot, TypeOK, Served, attempts' = 0,
           CronStep \/ CronAbort
    PROVE  /\ CronRead \/ CronAbort
           /\ UNCHANGED <<row, lock, jobs, wk, api>>
<1>1. attempts = 0 /\ ~CronCount
  <2>1. attempts \in Nat
    BY ConstantsAssumption DEF TypeOK
  <2>2. QED
    BY <2>1 DEF CronStep, CronRead, CronEscalate, CronCount, CronEnqueue,
                CronAbort, row
<1>2. ~CronEnqueue
  BY <1>1 DEF CronEnqueue, Served
<1>3. ~CronEscalate
  <2>1. MaxAttempts \in Nat /\ MaxAttempts # 0
    BY ConstantsAssumption DEF OneSteadySlot
  <2>2. ~(attempts + 1 > MaxAttempts)
    BY <1>1, <2>1
  <2>3. QED
    BY <2>2 DEF CronEscalate
<1>4. QED
  BY <1>1, <1>2, <1>3 DEF CronStep, CronRead, CronAbort

(* Steps of a slot that leave the row alone, and what they make of it.     *)
LEMMA WaitsPay ==
    ASSUME OneSteadySlot, TypeOK, Account, NEW w \in Workers,
           UNCHANGED <<status, replans, last>>,
           \/ wk'[w].pc \notin {"agent", "expired", "marking"}
           \/ wk[w].pc \in {"agent", "expired", "marking"}
           \/ status \in AgentStatus
    PROVE  Account'
<1>1. Overdrawn' <=> Overdrawn
  BY DEF Overdrawn, Cancelled
<1>2. status \in AgentStatus => ~Overdrawn
  BY DEF Overdrawn, Cancelled, AgentStatus
<1>3. Paid(w)'
  BY <1>2 DEF Account, Paid
<1>4. QED
  BY <1>1, <1>3 DEF Account, OneSteadySlot

LEMMA AccountDriver ==
    ASSUME OneSteadySlot, TypeOK, Account, NEW w \in Workers, AdvanceOnce(w)
    PROVE  Account'
<1>1. PICK t \in NextStatus(status, replans, MaxReplans, last.reason) :
         TransitionTask(status, t, "worker", 0) /\ Goto(w, "chain", t)
  BY DEF AdvanceOnce
<1>2. status \in TaskStatus \ (AgentStatus \cup {"AWAITING_APPROVAL"})
  BY DEF AdvanceOnce, TypeOK
<1>3. replans \in Nat /\ MaxReplans \in Nat
  BY ConstantsAssumption DEF TypeOK
<1>4. ~Cancelled /\ status \notin TerminalStates
  BY <1>1, <1>2, DriverMovesOn DEF Cancelled
<1>5. /\ replans' <= MaxReplans + 1
      /\ Overdrawn' \/ replans' <= MaxReplans
  <2>1. CASE status \in {"CREATED", "FAILED", "RECOVERING"}
    <3>1. replans <= MaxReplans
      BY <1>4, <2>1 DEF Account, Overdrawn
    <3>2. QED
      BY <1>1, <1>3, <3>1 DEF TransitionTask, Overdrawn
  <2>2. CASE status = "REPLANNING"
    <3>1. t = IF replans >= MaxReplans THEN "ESCALATED" ELSE "RESEARCHING"
      BY <1>1, <2>2 DEF NextStatus, TerminalStates
    <3>2. QED
      BY <1>1, <1>3, <2>2, <3>1 DEF TransitionTask, Overdrawn, Account
  <2>3. QED
    BY <1>2, <1>4, <2>1, <2>2 DEF TaskStatus
<1>6. wk'[w].pc = "chain"
  BY <1>1, Goes DEF TypeOK, WorkerPC
<1>7. Paid(w)'
  BY <1>6 DEF Paid
<1>8. QED
  BY <1>5, <1>7 DEF Account, OneSteadySlot

LEMMA AccountVerdict ==
    ASSUME OneSteadySlot, TypeOK, Account, NEW w \in Workers,
           CasTransition(w) \/ ReplanToImplementing(w)
    PROVE  Account'
<1>1. replans \in Nat /\ MaxReplans \in Nat
  BY ConstantsAssumption DEF TypeOK
<1>2. CASE CasTransition(w)
  <2>1. PICK t \in TaskStatus :
           /\ <<status, t>> \in Verdicts /\ ~IsReplan(status, t)
           /\ TransitionTask(status, t, "worker", 0) /\ Goto(w, "chain", t)
    BY <1>2 DEF CasTransition
  <2>2. status \in AgentStatus /\ t # "REPLANNING"
    BY <2>1, VerdictMovesOn, VerdictTargets
  <2>3. replans <= MaxReplans
    BY <2>2 DEF Account, Overdrawn, Cancelled, AgentStatus
  <2>4. replans' = replans
    BY <1>1, <2>1, <2>2 DEF TransitionTask
  <2>5. wk'[w].pc = "chain"
    BY <2>1, Goes DEF TypeOK, WorkerPC
  <2>6. QED
    BY <1>1, <2>3, <2>4, <2>5 DEF Account, Paid, OneSteadySlot
<1>3. CASE ReplanToImplementing(w)
  <2>1. status \in AgentStatus
    BY <1>3 DEF ReplanToImplementing, IsReplan, AgentStatus
  <2>2. replans <= MaxReplans
    BY <2>1 DEF Account, Overdrawn, Cancelled, AgentStatus
  <2>3. PICK t \in {"ESCALATED", "IMPLEMENTING"}, charged \in {0, 1} :
           /\ charged = 1 => replans < MaxReplans
           /\ TransitionTask(status, t, "worker", charged)
           /\ Goto(w, "chain", t)
    BY <1>3 DEF ReplanToImplementing
  <2>4. replans' = replans + charged
    BY <1>1, <2>3 DEF TransitionTask
  <2>5. replans' <= MaxReplans /\ replans' <= MaxReplans + 1
    BY <1>1, <2>2, <2>3, <2>4
  <2>6. wk'[w].pc = "chain"
    BY <2>3, Goes DEF TypeOK, WorkerPC
  <2>7. QED
    BY <2>5, <2>6 DEF Account, Paid, OneSteadySlot
<1>4. QED
  BY <1>2, <1>3

LEMMA AccountMark ==
    ASSUME OneSteadySlot, TypeOK, Account, NEW w \in Workers, MarkWrite(w)
    PROVE  Account'
<1>1. replans \in Nat /\ MaxReplans \in Nat
  BY ConstantsAssumption DEF TypeOK
<1>2. replans <= MaxReplans /\ replans' = replans
  BY DEF MarkWrite, BlindTransition, Account, Paid
<1>3. wk'[w].pc = "chain"
  BY Goes DEF MarkWrite, TypeOK, WorkerPC
<1>4. QED
  BY <1>1, <1>2, <1>3 DEF Account, Paid, OneSteadySlot

LEMMA AccountHuman ==
    ASSUME TypeOK, Account, Human
    PROVE  Account'
<1>1. /\ replans' = replans /\ wk' = wk
      /\ Overdrawn => Cancelled'
  <2>1. replans \in Nat
    BY DEF TypeOK
  <2>2. QED
    BY <2>1 DEF Human, CancelTask, ApproveTask, RejectTask, TransitionTask,
              Cancelled, Overdrawn, TerminalStates
<1>2. QED
  BY <1>1 DEF Account, Overdrawn, Paid

LEMMA EndNext ==
    ASSUME OneSteadySlot, TypeOK, Served, EndInv, [Next]_vars
    PROVE  EndInv'
<1> SUFFICES ASSUME attempts' = 0
             PROVE  Account'
  BY DEF EndInv
<1>1. attempts = 0 /\ Account
  BY SweepsStay DEF EndInv
<1>2. PICK w : Workers = {w}
  BY DEF OneSteadySlot
<1>3. SlotsOK /\ OnlyJob(w)
  BY <1>1, <1>2 DEF TypeOK, Served
<1>4. CASE AdvanceOnce(w)
  BY <1>1, <1>2, <1>4, AccountDriver
<1>5. CASE CasTransition(w) \/ ReplanToImplementing(w)
  BY <1>1, <1>2, <1>5, AccountVerdict
<1>6. CASE MarkWrite(w)
  BY <1>1, <1>2, <1>6, AccountMark
<1>7. CASE LoadForAgent(w) \/ AgentReturn(w) \/ Deadline(w) \/ MarkRead(w)
  <2>1. UNCHANGED <<status, replans, last>>
    BY <1>7 DEF LoadForAgent, AgentReturn, Deadline, MarkRead, row
  <2>2. \/ wk[w].pc \in {"agent", "expired"}
        \/ status \in AgentStatus
    BY <1>7 DEF LoadForAgent, AgentReturn, Deadline, MarkRead
  <2>3. QED
    BY <1>1, <1>2, <2>1, <2>2, WaitsPay
<1>8. CASE NothingToDo(w) \/ ApplySkips(w) \/ Chain(w) \/ LockTimeout(w)
           \/ DatabaseError(w)
  <2>1. UNCHANGED <<status, replans, last>>
    BY <1>8 DEF NothingToDo, ApplySkips, Chain, LockTimeout, DatabaseError, row
  <2>2. wk'[w].pc \in {"chain", "finish"}
    BY <1>2, <1>3, <1>8, Goes
       DEF NothingToDo, ApplySkips, Chain, LockTimeout, DatabaseError, WorkerPC
  <2>3. QED
    BY <1>1, <1>2, <2>1, <2>2, WaitsPay
<1>9. CASE Dequeue(w) \/ Finish(w) \/ Crash(w)
  <2>1. UNCHANGED <<status, replans, last>>
    BY <1>9 DEF Dequeue, Finish, Crash, row
  <2>2. wk'[w].pc \in {"start", "idle"}
    BY <1>2, <1>3, <1>9 DEF Dequeue, Finish, Crash, IdleSlot, SlotsOK, Slot
  <2>3. QED
    BY <1>1, <1>2, <2>1, <2>2, WaitsPay
<1>10. CASE Human
  BY <1>1, <1>10, AccountHuman
<1>11. CASE \/ StartupSweep \/ CronStep \/ CronAbort \/ CreateEnqueue
            \/ AgentCommit(w) \/ UNCHANGED vars
  <2>1. UNCHANGED <<status, replans, last, wk>>
    BY <1>11, CronStays
       DEF StartupSweep, StartupSweepRead, StartupSweepEnqueue, CreateEnqueue,
           AgentCommit, vars, row
  <2>2. QED
    BY <1>1, <2>1 DEF Account, Overdrawn, Cancelled, Paid
<1>12. QED
  BY <1>2, <1>4, <1>5, <1>6, <1>7, <1>8, <1>9, <1>10, <1>11
     DEF Next, WorkerStep, JobStep, WorkerFault

(* The accounts are not overdrawn, and what is left of the way and of the  *)
(* turn is a number, written without its conditional.                      *)
MarksIt(w) == wk[w].pc \in {"expired", "marking"}
Measured(w) ==
    /\ faults \in Nat /\ replans \in Nat
    /\ FaultsLeft \in Nat /\ ReplansLeft \in Nat /\ RequestLeft \in Nat
    /\ Way[status] \in Nat
    /\ WayLeft(w) \in Nat
    /\ ~Cancelled => WayLeft(w) = Way[status]
    /\ Cancelled => WayLeft(w) = IF MarksIt(w) THEN 3 ELSE 0
    /\ TurnLeft(w) \in Nat
    /\ StepsLeft(w) \in 0 .. 9
    /\ Refused(w) => TurnLeft(w) = StepsLeft(w) + 9
    /\ ~Refused(w) => TurnLeft(w) = StepsLeft(w)

LEMMA StateMeasured ==
    TypeOK /\ Account => \A w \in Workers : Measured(w)
<1> SUFFICES ASSUME TypeOK, Account, NEW w \in Workers
             PROVE  Measured(w)
  OBVIOUS
<1>1. /\ replans \in Nat /\ MaxReplans \in Nat /\ MaxFaults \in Nat
      /\ faults \in 0 .. MaxFaults /\ replans <= MaxReplans + 1
  BY ConstantsAssumption DEF TypeOK, Account
<1>2. FaultsLeft \in Nat /\ ReplansLeft \in Nat
  BY <1>1 DEF FaultsLeft, ReplansLeft
<1>3. Way[status] \in Nat /\ RequestLeft \in Nat
  BY DEF Way, TypeOK, TaskStatus, AgentStatus, TerminalStates, RequestLeft
<1>4. StepsLeft(w) \in 0 .. 9
  <2>1. wk[w].pc \in WorkerPC
    BY DEF TypeOK, SlotsOK, Slot
  <2>2. QED
    BY <2>1 DEF StepsLeft, WorkerPC
<1>5. /\ ~Cancelled => WayLeft(w) = Way[status]
      /\ Cancelled => WayLeft(w) = IF MarksIt(w) THEN 3 ELSE 0
  BY DEF WayLeft, MarksIt
<1>6. /\ Refused(w) => TurnLeft(w) = StepsLeft(w) + 9
      /\ ~Refused(w) => TurnLeft(w) = StepsLeft(w)
  BY <1>4 DEF TurnLeft
<1>7. WayLeft(w) \in Nat /\ TurnLeft(w) \in Nat
  BY <1>3, <1>4, <1>5, <1>6
<1>8. QED
  BY <1>1, <1>2, <1>3, <1>4, <1>5, <1>6, <1>7 DEF Measured

LEMMA NextMeasured ==
    TypeOK' /\ Account' => (\A w \in Workers : Measured(w))'
  BY StateMeasured, PTL

LEMMA FirstLowers ==
    ASSUME NEW w \in Workers, Measured(w), Measured(w)',
           \/ FaultsLeft' < FaultsLeft
           \/ /\ FaultsLeft' = FaultsLeft
              /\ \/ ReplansLeft' < ReplansLeft
                 \/ /\ ReplansLeft' = ReplansLeft
                    /\ \/ RequestLeft' < RequestLeft
                       \/ /\ RequestLeft' = RequestLeft
                          /\ \/ WayLeft(w)' < WayLeft(w)
                             \/ /\ WayLeft(w)' = WayLeft(w)
                                /\ TurnLeft(w)' < TurnLeft(w)
    PROVE  Below(5, ToDo(w)', ToDo(w))
<1>1. /\ FaultsLeft \in Nat /\ ReplansLeft \in Nat /\ RequestLeft \in Nat
      /\ WayLeft(w) \in Nat /\ TurnLeft(w) \in Nat
      /\ FaultsLeft' \in Nat /\ ReplansLeft' \in Nat /\ RequestLeft' \in Nat
      /\ WayLeft(w)' \in Nat /\ TurnLeft(w)' \in Nat
  BY DEF Measured
<1>2. \/ FaultsLeft' < FaultsLeft
      \/ FaultsLeft' = FaultsLeft /\ ReplansLeft' < ReplansLeft
      \/ /\ FaultsLeft' = FaultsLeft /\ ReplansLeft' = ReplansLeft
         /\ RequestLeft' < RequestLeft
      \/ /\ FaultsLeft' = FaultsLeft /\ ReplansLeft' = ReplansLeft
         /\ RequestLeft' = RequestLeft /\ WayLeft(w)' < WayLeft(w)
      \/ /\ FaultsLeft' = FaultsLeft /\ ReplansLeft' = ReplansLeft
         /\ RequestLeft' = RequestLeft /\ WayLeft(w)' = WayLeft(w)
         /\ TurnLeft(w)' < TurnLeft(w)
  OBVIOUS
<1>3. ToDo(w) \in Ranks(5) /\ ToDo(w)' \in Ranks(5)
  BY <1>1 DEF ToDo, Ranks
<1>4. PICK i \in 1 .. 5 : /\ \A j \in 1 .. i - 1 : ToDo(w)'[j] = ToDo(w)[j]
                         /\ ToDo(w)'[i] < ToDo(w)[i]
  <2>1. /\ ToDo(w)[1] = FaultsLeft /\ ToDo(w)[2] = ReplansLeft
        /\ ToDo(w)[3] = RequestLeft /\ ToDo(w)[4] = WayLeft(w)
        /\ ToDo(w)[5] = TurnLeft(w)
    BY DEF ToDo
  <2>2. /\ ToDo(w)'[1] = FaultsLeft' /\ ToDo(w)'[2] = ReplansLeft'
        /\ ToDo(w)'[3] = RequestLeft' /\ ToDo(w)'[4] = WayLeft(w)'
        /\ ToDo(w)'[5] = TurnLeft(w)'
    BY DEF ToDo
  <2>3. QED
    BY <1>2, <2>1, <2>2
<1>5. QED
  BY <1>3, <1>4 DEF Below

(* What is lowered by a fault, a replan, the create request, a move of the *)
(* row, a step of the job.                                                 *)
LEMMA FaultLowers ==
    ASSUME NEW w \in Workers, Measured(w), Measured(w)', NEW kind, Fault(kind)
    PROVE  Below(5, ToDo(w)', ToDo(w))
<1>1. FaultsLeft' < FaultsLeft
  <2>1. faults' = faults + 1 /\ faults \in Nat /\ MaxFaults \in Nat
    BY ConstantsAssumption DEF Fault, Measured
  <2>2. QED
    BY <2>1 DEF FaultsLeft
<1>2. QED
  BY <1>1, FirstLowers DEF FaultsLeft, ReplansLeft

LEMMA ReplanLowers ==
    ASSUME NEW w \in Workers, Measured(w), Measured(w)',
           faults' = faults, replans' = replans + 1
    PROVE  Below(5, ToDo(w)', ToDo(w))
<1>1. ReplansLeft' < ReplansLeft
  <2>1. MaxReplans \in Nat /\ replans \in Nat
    BY ConstantsAssumption DEF Measured
  <2>2. QED
    BY <2>1 DEF ReplansLeft
<1>2. QED
  BY <1>1, FirstLowers DEF FaultsLeft, ReplansLeft

LEMMA ApiLowers ==
    ASSUME NEW w \in Workers, Measured(w), Measured(w)',
           UNCHANGED <<faults, replans>>, api = "committed", api' = "answered"
    PROVE  Below(5, ToDo(w)', ToDo(w))
<1>1. RequestLeft = 1 /\ RequestLeft' = 0
  BY DEF RequestLeft
<1>2. QED
  BY <1>1, FirstLowers DEF FaultsLeft, ReplansLeft

LEMMA WayLowers ==
    ASSUME NEW w \in Workers, Measured(w), Measured(w)',
           UNCHANGED <<faults, replans, api>>, WayLeft(w)' < WayLeft(w)
    PROVE  Below(5, ToDo(w)', ToDo(w))
<1>1. RequestLeft' = RequestLeft
  BY DEF RequestLeft
<1>2. QED
  BY <1>1, FirstLowers DEF FaultsLeft, ReplansLeft

LEMMA TurnLowers ==
    ASSUME NEW w \in Workers, Measured(w), Measured(w)',
           UNCHANGED <<faults, replans, api>>, WayLeft(w)' = WayLeft(w),
           TurnLeft(w)' < TurnLeft(w)
    PROVE  Below(5, ToDo(w)', ToDo(w))
<1>1. RequestLeft' = RequestLeft
  BY DEF RequestLeft
<1>2. QED
  BY <1>1, FirstLowers DEF FaultsLeft, ReplansLeft

(* A step of the job that leaves the row alone.                            *)
LEMMA StepLowers ==
    ASSUME NEW w \in Workers, Measured(w), Measured(w)',
           UNCHANGED <<status, replans, last, faults, api>>,
           MarksIt(w)' => MarksIt(w),
           Refused(w)' => Refused(w),
           StepsLeft(w)' < StepsLeft(w)
    PROVE  Below(5, ToDo(w)', ToDo(w))
<1>1. Cancelled' <=> Cancelled
  BY DEF Cancelled
<1>2. WayLeft(w)' = WayLeft(w) \/ WayLeft(w)' < WayLeft(w)
  BY <1>1 DEF Measured
<1>3. TurnLeft(w)' < TurnLeft(w)
  BY DEF Measured
<1>4. QED
  BY <1>2, <1>3, WayLowers, TurnLowers

LEMMA QueueLowers ==
    ASSUME TypeOK, NEW w \in Workers, Workers = {w}, OnlyJob(w),
           Measured(w), Measured(w)', Dequeue(w) \/ Chain(w) \/ Finish(w)
    PROVE  Below(5, ToDo(w)', ToDo(w))
<1>0. SlotsOK
  BY DEF TypeOK
<1>a. UNCHANGED <<status, replans, last, faults, api>>
  BY DEF Dequeue, Chain, Finish, row
<1>1. CASE Dequeue(w)
  <2>1. PICK job \in jobs :
           wk' = [wk EXCEPT ![w].pc = "start", ![w].job = job]
    BY <1>1 DEF Dequeue
  <2>2. wk[w].pc = "idle" /\ jobs # {}
    BY <1>1 DEF Dequeue
  <2>3. wk'[w].pc = "start"
    BY <1>0, <2>1 DEF SlotsOK, Slot
  <2>4. StepsLeft(w) = 7 /\ StepsLeft(w)' = 6
    BY <2>2, <2>3 DEF StepsLeft
  <2>5. ~MarksIt(w)' /\ ~Refused(w)'
    BY <2>3 DEF MarksIt, Refused
  <2>6. QED
    BY <1>a, <2>4, <2>5, StepLowers
<1>2. CASE Chain(w)
  <2>1. wk'[w].pc = "finish" /\ wk[w].pc = "chain"
    BY <1>0, <1>2, Goes DEF Chain, WorkerPC
  <2>2. StepsLeft(w) = 9 /\ StepsLeft(w)' \in {1, 8}
    BY <2>1 DEF StepsLeft
  <2>3. ~MarksIt(w)' /\ ~Refused(w)'
    BY <2>1 DEF MarksIt, Refused
  <2>4. QED
    BY <1>a, <2>2, <2>3, StepLowers
<1>3. CASE Finish(w)
  <2>1. wk'[w].pc = "idle" /\ wk[w].pc = "finish" /\ jobs' = jobs \ {wk[w].job}
    BY <1>0, <1>3 DEF Finish, IdleSlot, SlotsOK
  <2>2. StepsLeft(w)' < StepsLeft(w)
    BY <2>1 DEF StepsLeft, Chained
  <2>3. ~MarksIt(w)' /\ ~Refused(w)'
    BY <2>1 DEF MarksIt, Refused
  <2>4. QED
    BY <1>a, <2>2, <2>3, StepLowers
<1>4. QED
  BY <1>1, <1>2, <1>3

LEMMA WaitLowers ==
    ASSUME TypeOK, NEW w \in Workers, Workers = {w}, OnlyJob(w),
           Measured(w), Measured(w)',
           \/ LoadForAgent(w) \/ NothingToDo(w) \/ AgentCommit(w)
           \/ AgentReturn(w) \/ ApplySkips(w) \/ MarkRead(w)
    PROVE  Below(5, ToDo(w)', ToDo(w))
<1>0. SlotsOK
  BY DEF TypeOK
<1>a. UNCHANGED <<status, replans, last, faults, api, jobs>>
  BY DEF LoadForAgent, NothingToDo, AgentCommit, AgentReturn, ApplySkips,
         MarkRead, row
<1>1. CASE LoadForAgent(w)
  <2>1. wk'[w].pc = "agent" /\ wk'[w].view = status /\ wk[w].pc = "start"
    BY <1>0, <1>1, Goes DEF LoadForAgent, WorkerPC
  <2>2. StepsLeft(w) = 6 /\ StepsLeft(w)' \in {4, 5}
    BY <2>1 DEF StepsLeft
  <2>3. ~MarksIt(w)' /\ ~Refused(w)'
    BY <1>a, <2>1 DEF MarksIt, Refused
  <2>4. QED
    BY <1>a, <2>2, <2>3, StepLowers
<1>2. CASE NothingToDo(w)
  <2>1. /\ wk'[w].pc = "finish" /\ wk'[w].job = wk[w].job
        /\ wk[w].pc = "start"
    BY <1>0, <1>2, Goes DEF NothingToDo, WorkerPC
  <2>2. ~Chained(w)'
    BY <1>a, <2>1 DEF OnlyJob, Chained
  <2>3. StepsLeft(w) = 6 /\ StepsLeft(w)' = 1
    BY <2>1, <2>2 DEF StepsLeft
  <2>4. ~MarksIt(w)' /\ ~Refused(w)'
    BY <2>1 DEF MarksIt, Refused
  <2>5. QED
    BY <1>a, <2>3, <2>4, StepLowers
<1>3. CASE AgentCommit(w)
  <2>1. wk' = wk /\ wk[w].pc = "agent" /\ lock = w /\ lock' # w
    BY <1>3, ConstantsAssumption DEF AgentCommit
  <2>2. StepsLeft(w) = 5 /\ StepsLeft(w)' = 4
    BY <2>1 DEF StepsLeft
  <2>3. (MarksIt(w)' <=> MarksIt(w)) /\ (Refused(w)' <=> Refused(w))
    BY <1>a, <2>1 DEF MarksIt, Refused
  <2>4. QED
    BY <1>a, <2>2, <2>3, StepLowers
<1>4. CASE AgentReturn(w)
  <2>1. /\ wk'[w].pc = "apply" /\ wk'[w].view = wk[w].view
        /\ wk[w].pc = "agent"
    BY <1>0, <1>4, Goes DEF AgentReturn, WorkerPC
  <2>2. StepsLeft(w) \in {4, 5} /\ StepsLeft(w)' = 3
    BY <2>1 DEF StepsLeft
  <2>3. ~MarksIt(w)' /\ (Refused(w)' <=> Refused(w))
    BY <1>a, <2>1 DEF MarksIt, Refused
  <2>4. QED
    BY <1>a, <2>2, <2>3, StepLowers
<1>5. CASE ApplySkips(w)
  <2>1. /\ wk'[w].pc = "chain" /\ wk[w].pc = "apply"
        /\ wk[w].view # status
    BY <1>0, <1>5, Goes DEF ApplySkips, WorkerPC
  <2>2. StepsLeft(w) = 3 /\ StepsLeft(w)' = 9
    BY <2>1 DEF StepsLeft
  <2>3. ~MarksIt(w)' /\ ~MarksIt(w) /\ ~Refused(w)' /\ Refused(w)
    BY <2>1 DEF MarksIt, Refused
  <2>4. Cancelled' <=> Cancelled
    BY <1>a DEF Cancelled
  <2>5. WayLeft(w)' = WayLeft(w) /\ TurnLeft(w)' < TurnLeft(w)
    BY <1>a, <2>2, <2>3, <2>4 DEF Measured
  <2>6. QED
    BY <1>a, <2>5, TurnLowers
<1>6. CASE MarkRead(w)
  <2>1. wk[w].pc = "expired" /\ StepsLeft(w) = 3
    BY <1>6 DEF MarkRead, StepsLeft
  <2>2. /\ wk'[w].pc \in {"finish", "marking"}
        /\ wk'[w].job = wk[w].job
    BY <1>0, <1>6, Goes DEF MarkRead, WorkerPC
  <2>3. wk'[w].pc = "finish" => ~Chained(w)'
    BY <1>a, <2>1, <2>2 DEF OnlyJob, Chained
  <2>4. StepsLeft(w)' \in {1, 2}
    BY <2>2, <2>3 DEF StepsLeft
  <2>5. MarksIt(w) /\ ~Refused(w)'
    BY <2>1, <2>2 DEF MarksIt, Refused
  <2>6. QED
    BY <1>a, <2>1, <2>4, <2>5, StepLowers
<1>7. QED
  BY <1>1, <1>2, <1>3, <1>4, <1>5, <1>6

(* The row moves.                                                          *)
LEMMA DriverLowers ==
    ASSUME TypeOK, NEW w \in Workers, Measured(w), Measured(w)',
           AdvanceOnce(w)
    PROVE  Below(5, ToDo(w)', ToDo(w))
<1>1. PICK t \in NextStatus(status, replans, MaxReplans, last.reason) :
         TransitionTask(status, t, "worker", 0)
  BY DEF AdvanceOnce
<1>2. status \in TaskStatus \ (AgentStatus \cup {"AWAITING_APPROVAL"})
  BY DEF AdvanceOnce, TypeOK
<1>3. /\ status' = t /\ last'.reason = "worker"
      /\ UNCHANGED <<faults, api>>
  BY <1>1 DEF AdvanceOnce, TransitionTask
<1>4. ~Cancelled /\ ~Cancelled' /\ status \notin TerminalStates
  BY <1>1, <1>2, <1>3, DriverMovesOn DEF Cancelled
<1>5. CASE status = "RECOVERING"
  <2>1. t = "REPLANNING"
    BY <1>1, <1>5 DEF NextStatus, TerminalStates
  <2>2. replans' = replans + 1
    BY <1>1, <2>1 DEF TransitionTask, Measured
  <2>3. QED
    BY <1>3, <2>2, ReplanLowers
<1>6. CASE status \in {"CREATED", "FAILED", "REPLANNING"}
  <2>1. \/ status = "CREATED" /\ t = "PLANNING"
        \/ status = "FAILED" /\ t = "RECOVERING"
        \/ status = "REPLANNING" /\ t \in {"RESEARCHING", "ESCALATED"}
    <3>1. CASE status = "CREATED"
      BY <1>1, <3>1 DEF NextStatus, AutoPipeline, TerminalStates
    <3>2. CASE status # "CREATED"
      BY <1>1, <1>4, <1>6, <3>2 DEF NextStatus, TerminalStates, Cancelled
    <3>3. QED
      BY <3>1, <3>2
  <2>2. replans' = replans
    BY <1>1, <2>1 DEF TransitionTask, Measured
  <2>3. Way[t] < Way[status]
    BY <2>1 DEF Way
  <2>4. WayLeft(w)' < WayLeft(w)
    BY <1>3, <1>4, <2>3 DEF Measured
  <2>5. QED
    BY <1>3, <2>2, <2>4, WayLowers
<1>7. QED
  BY <1>2, <1>4, <1>5, <1>6 DEF TaskStatus

(* A verdict that is neither a replan nor a stale review goes down the way *)
LEMMA VerdictsGoDown ==
    ASSUME NEW s, NEW t, <<s, t>> \in Verdicts, ~IsReplan(s, t),
           <<s, t>> # <<"VERIFICATION", "TESTING">>
    PROVE  Way[t] < Way[s]
  BY DEF Way, IsReplan, Verdicts, PlanningVerdicts,
         ResearchingVerdicts, ImplementingVerdicts, TestingVerdicts,
         DebuggingVerdicts, ReviewingVerdicts, SecurityVerdicts,
         VerificationVerdicts, PRCreationVerdicts

LEMMA VerdictLowers ==
    ASSUME "stale_review" \notin Faults, TypeOK, NEW w \in Workers,
           Measured(w), Measured(w)', CasTransition(w)
    PROVE  Below(5, ToDo(w)', ToDo(w))
<1>1. PICK t \in TaskStatus :
         /\ <<status, t>> \in Verdicts /\ ~IsReplan(status, t)
         /\ <<status, t>> # <<"VERIFICATION", "TESTING">>
         /\ TransitionTask(status, t, "worker", 0)
  BY DEF CasTransition
<1>2. status \in AgentStatus /\ t # "REPLANNING"
  BY <1>1, VerdictMovesOn, VerdictTargets
<1>3. /\ status' = t /\ last'.reason = "worker" /\ replans' = replans
      /\ UNCHANGED <<faults, api>>
  BY <1>1, <1>2 DEF CasTransition, TransitionTask, Measured
<1>4. ~Cancelled /\ ~Cancelled'
  BY <1>2, <1>3 DEF Cancelled, AgentStatus
<1>5. Way[t] < Way[status]
  BY <1>1, VerdictsGoDown
<1>6. WayLeft(w)' < WayLeft(w)
  BY <1>3, <1>4, <1>5 DEF Measured
<1>7. QED
  BY <1>3, <1>6, WayLowers

LEMMA ReplanStepLowers ==
    ASSUME TypeOK, NEW w \in Workers, Measured(w), Measured(w)',
           ReplanToImplementing(w)
    PROVE  Below(5, ToDo(w)', ToDo(w))
<1>1. /\ IsReplan(status, "IMPLEMENTING")
      /\ UNCHANGED <<faults, api>>
      /\ replans \in Nat
  BY DEF ReplanToImplementing, Measured
<1>2. CASE TransitionTask(status, "IMPLEMENTING", "worker", 1)
  <2>1. replans' = replans + 1
    BY <1>1, <1>2 DEF TransitionTask
  <2>2. QED
    BY <1>1, <2>1, ReplanLowers
<1>3. CASE TransitionTask(status, "ESCALATED", "worker", 0)
  <2>1. replans' = replans /\ status' = "ESCALATED"
    BY <1>1, <1>3 DEF TransitionTask
  <2>2. ~Cancelled /\ ~Cancelled' /\ Way[status]' < Way[status]
    BY <1>1, <2>1 DEF Cancelled, IsReplan, Way
  <2>3. WayLeft(w)' < WayLeft(w)
    BY <2>2 DEF Measured
  <2>4. QED
    BY <1>1, <2>1, <2>3, WayLowers
<1>4. QED
  BY <1>2, <1>3 DEF ReplanToImplementing

LEMMA MarkLowers ==
    ASSUME TypeOK, NEW w \in Workers, OnlyJob(w), Measured(w), Measured(w)',
           MarkWrite(w)
    PROVE  Below(5, ToDo(w)', ToDo(w))
<1>1. /\ wk[w].pc = "marking" /\ status' = "FAILED"
      /\ UNCHANGED <<replans, faults, api>>
  BY DEF MarkWrite, BlindTransition
<1>2. status \in AgentStatus \/ Cancelled
  BY <1>1 DEF OnlyJob
<1>3. wk'[w].pc = "chain"
  BY Goes DEF MarkWrite, TypeOK, WorkerPC
<1>4. WayLeft(w) >= 3
  <2>1. status \in AgentStatus => ~Cancelled /\ Way[status] >= 4
    BY DEF AgentStatus, Cancelled, Way
  <2>2. QED
    BY <1>1, <1>2, <2>1 DEF Measured, MarksIt
<1>5. WayLeft(w)' <= 2
  <2>1. Way[status]' = 2 /\ ~MarksIt(w)'
    BY <1>1, <1>3 DEF Way, MarksIt
  <2>2. QED
    BY <2>1 DEF Measured
<1>6. WayLeft(w)' < WayLeft(w)
  BY <1>4, <1>5 DEF Measured
<1>7. QED
  BY <1>1, <1>6, WayLowers

LEMMA HumanLowers ==
    ASSUME TypeOK, NEW w \in Workers, OnlyJob(w), Measured(w), Measured(w)',
           Human
    PROVE  Below(5, ToDo(w)', ToDo(w))
<1>1. /\ UNCHANGED <<faults, api, wk>> /\ replans' = replans
      /\ status \in TaskStatus \ (TerminalStates \cup {"FAILED"})
  BY DEF Human, CancelTask, ApproveTask, RejectTask, TransitionTask, Measured,
         TypeOK, TerminalStates
<1>2. ~Cancelled
  BY <1>1 DEF Cancelled
<1>3. CASE CancelTask
  <2>1. Cancelled'
    BY <1>3 DEF CancelTask, TransitionTask, Cancelled
  <2>2. CASE MarksIt(w)
    <3>1. status \in AgentStatus
      BY <1>2, <2>2 DEF OnlyJob, MarksIt
    <3>2. Way[status] >= 4
      BY <3>1 DEF AgentStatus, Way
    <3>3. MarksIt(w)'
      BY <1>1, <2>2 DEF MarksIt
    <3>4. WayLeft(w)' < WayLeft(w)
      BY <1>2, <2>1, <3>2, <3>3 DEF Measured
    <3>5. QED
      BY <1>1, <3>4, WayLowers
  <2>3. CASE ~MarksIt(w)
    <3>1. Way[status] >= 1
      BY <1>1 DEF TaskStatus, AgentStatus, TerminalStates, Way
    <3>2. ~MarksIt(w)'
      BY <1>1, <2>3 DEF MarksIt
    <3>3. WayLeft(w)' < WayLeft(w)
      BY <1>2, <2>1, <3>1, <3>2 DEF Measured
    <3>4. QED
      BY <1>1, <3>3, WayLowers
  <2>4. QED
    BY <2>2, <2>3
<1>4. CASE ApproveTask \/ RejectTask
  <2>1. /\ status = "AWAITING_APPROVAL" /\ ~Cancelled'
        /\ status' \in {"COMPLETED", "FAILED"}
    BY <1>4 DEF ApproveTask, RejectTask, TransitionTask, Cancelled
  <2>2. Way[status]' < Way[status]
    BY <2>1 DEF Way
  <2>3. WayLeft(w)' < WayLeft(w)
    BY <1>2, <2>1, <2>2 DEF Measured
  <2>4. QED
    BY <1>1, <2>3, WayLowers
<1>5. QED
  BY <1>3, <1>4 DEF Human

LEMMA StepNears ==
    ASSUME OneSteadyReview, TypeOK, TypeOK', Served, EndInv, EndInv', Next,
           attempts' = 0, NEW w \in Workers
    PROVE  \/ Below(5, ToDo(w)', ToDo(w))
           \/ (CronRead \/ CronAbort) /\ ToDo(w)' = ToDo(w)
<1>1. OneSteadySlot /\ Workers = {w}
  BY DEF OneSteadyReview, OneSteadySlot
<1>2. attempts = 0 /\ OnlyJob(w) /\ boot = NoStatus
  BY <1>1, SweepsStay DEF Served
<1>3. Measured(w) /\ Measured(w)'
  BY <1>2, StateMeasured, NextMeasured DEF EndInv
<1>4. CASE WorkerStep(w) \/ AgentCommit(w)
  BY <1>1, <1>2, <1>3, <1>4, QueueLowers, WaitLowers, DriverLowers,
     VerdictLowers, ReplanStepLowers, MarkLowers
     DEF WorkerStep, JobStep, OneSteadyReview
<1>5. CASE WorkerFault(w)
  <2>1. ~LockTimeout(w)
    BY <1>1 DEF LockTimeout, TypeOK, SlotsOK
  <2>2. QED
    BY <1>3, <1>5, <2>1, FaultLowers
       DEF WorkerFault, Deadline, DatabaseError, Crash
<1>6. CASE StartupSweep
  BY <1>2, <1>3, <1>6, FaultLowers
     DEF StartupSweep, StartupSweepRead, StartupSweepEnqueue
<1>7. CASE CronStep \/ CronAbort
  <2>1. /\ CronRead \/ CronAbort
        /\ UNCHANGED <<row, lock, jobs, wk, api>>
    BY <1>1, <1>7, CronStays
  <2>2. CASE faults' = faults
    <3>1. UNCHANGED <<status, replans, last>>
      BY <2>1 DEF row
    <3>2. /\ FaultsLeft' = FaultsLeft /\ ReplansLeft' = ReplansLeft
          /\ RequestLeft' = RequestLeft
      BY <2>1, <2>2, <3>1 DEF FaultsLeft, ReplansLeft, RequestLeft
    <3>3. WayLeft(w)' = WayLeft(w)
      BY <2>1, <3>1 DEF WayLeft, Cancelled
    <3>4. StepsLeft(w)' = StepsLeft(w) /\ (Refused(w)' <=> Refused(w))
      BY <2>1, <3>1 DEF StepsLeft, Chained, Refused
    <3>5. TurnLeft(w)' = TurnLeft(w)
      BY <3>4 DEF TurnLeft
    <3>6. QED
      BY <2>1, <3>2, <3>3, <3>5 DEF ToDo
  <2>3. CASE Fault("cron_dies")
    BY <1>3, <2>3, FaultLowers
  <2>4. QED
    BY <2>1, <2>2, <2>3 DEF CronRead, CronAbort
<1>8. CASE CreateEnqueue
  <2>1. /\ api = "committed" /\ api' = "answered" /\ replans' = replans
        /\ faults' = faults \/ Fault("lost")
    BY <1>8 DEF CreateEnqueue, row
  <2>2. QED
    BY <1>3, <2>1, FaultLowers, ApiLowers
<1>9. CASE Human
  BY <1>2, <1>3, <1>9, HumanLowers
<1>10. QED
  BY <1>1, <1>4, <1>5, <1>6, <1>7, <1>8, <1>9 DEF Next

(* With one steady slot a task cannot go round for ever, whatever the      *)
(* agents and humans decide, wherever the deadline fires: as long as the   *)
(* stale-CREATED sweep has not taken it up, every step but that sweep's    *)
(* passes lowers the rank of the task, a tuple of numbers.  It is what     *)
(* ComesToRest, with its fairness, rests on (advance_task.py,              *)
(* advance_task; task_lifecycle.py, next_status and                        *)
(* _replan_to_implementing).                                               *)
THEOREM EndIsNear ==
    ASSUME OneSteadyReview
    PROVE  Spec => NearsItsEnd
<1>1. OneSteadySlot
  BY DEF OneSteadyReview
<1>2. TypeOK /\ Served /\ [Next]_vars => Served'
  BY <1>1, ServedNext
<1>3. TypeOK /\ Served /\ EndInv /\ [Next]_vars => EndInv'
  BY <1>1, EndNext
<1>4. Spec => [](TypeOK /\ Served /\ EndInv)
  BY <1>2, <1>3, TypeInit, TypeNext, ServedInit, EndInit, PTL DEF Spec
<1>5. /\ TypeOK /\ TypeOK' /\ Served /\ EndInv /\ EndInv' /\ [Next]_vars
         => [\A w \in Workers : attempts' = 0 =>
                \/ Below(5, ToDo(w)', ToDo(w))
                \/ (CronRead \/ CronAbort) /\ ToDo(w)' = ToDo(w)]_vars
  BY StepNears
<1>6. QED
  BY <1>4, <1>5, PTL DEF Spec, NearsItsEnd
=============================================================================
