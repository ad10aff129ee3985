-------------------------- MODULE ReviewGateProofs --------------------------
(***************************************************************************)
(* What holds of ReviewGate for any budget, any bound on the commits and   *)
(* any choice and number of faults: the types and the refinement for any   *)
(* set of slots, and for a single one the gates themselves, the reviewed   *)
(* head of the branch and the end every job comes nearer to (two slots     *)
(* break the gates, see the run late_commit_unreviewed).                   *)
(***************************************************************************)
EXTENDS ReviewGate, TaskStatesProofs, RanksProofs, TLAPS

-----------------------------------------------------------------------------
(* Type correctness.                                                       *)

(* A slot may become anything its own conditions allow.                    *)
SlotOK(slot) ==
    /\ slot \in Slot
    /\ slot.pc # "idle" => slot.at \in AgentStatus
    /\ slot.at = "VERIFICATION" => slot.pc = "apply"
    /\ slot.pc = "made" => slot.at = "IMPLEMENTING"
    /\ slot.pc \in {"rerun", "classify"} => slot.at = "DEBUGGING"
    /\ slot.pc = "pushed" => slot.at = "PR_CREATION"
    /\ slot.pc = "apply" => <<slot.at, slot.choice>> \in Verdicts

LEMMA SlotBecomes ==
    ASSUME SlotsOK, NEW w \in Workers, NEW slot, SlotOK(slot),
           wk' = [wk EXCEPT ![w] = slot]
    PROVE  SlotsOK'
  BY DEF SlotsOK, SlotOK

LEMMA SlotIsOK ==
    ASSUME SlotsOK, NEW w \in Workers
    PROVE  SlotOK(wk[w])
  BY DEF SlotsOK, SlotOK

LEMMA IdleIsOK == SlotOK(IdleSlot)
  BY GateAssumption DEF SlotOK, IdleSlot, Slot, Commits, NoStatus

(* A decision the state's verdicts allow keeps the slots in order.         *)
LEMMA DecideIsOK ==
    ASSUME SlotsOK, NEW w \in Workers, NEW target, Decide(w, target),
           wk[w].pc # "idle", <<wk[w].at, target>> \in Verdicts
    PROVE  SlotsOK'
<1> DEFINE slot == [wk[w] EXCEPT !.pc = "apply", !.choice = target]
<1>1. SlotOK(wk[w])
  BY SlotIsOK
<1>2. target \in TaskStatus
  BY VerdictIsLegal
<1>3. SlotOK(slot)
  BY <1>1, <1>2 DEF SlotOK, Slot
<1>4. wk' = [wk EXCEPT ![w] = slot]
  BY DEF Decide, SlotsOK, Slot
<1>5. QED
  BY <1>3, <1>4, SlotBecomes

(* Every state's handler may decide on FAILED.                             *)
LEMMA FailedIsVerdict ==
    ASSUME NEW s \in AgentStatus
    PROVE  <<s, "FAILED">> \in Verdicts
  BY DEF AgentStatus, Verdicts, PlanningVerdicts,
         ResearchingVerdicts, ImplementingVerdicts, TestingVerdicts,
         DebuggingVerdicts, ReviewingVerdicts, SecurityVerdicts,
         VerificationVerdicts, PRCreationVerdicts

(* What the driver does with the states it moves without an agent.         *)
LEMMA DriverTargets ==
    ASSUME NEW s \in {"CREATED", "FAILED", "RECOVERING", "REPLANNING"},
           NEW r, NEW m, NEW reason, NEW t \in NextStatus(s, r, m, reason)
    PROVE  /\ t \in {"PLANNING", "RECOVERING", "REPLANNING", "RESEARCHING",
                     "ESCALATED"}
           /\ t \in TaskStatus
<1>1. CASE s = "CREATED"
  <2>1. PICK i \in 1 .. 10 : AutoPipeline[i] = s /\ t = AutoPipeline[i + 1]
    BY <1>1 DEF NextStatus, AutoPipeline, TerminalStates
  <2>2. QED
    BY <1>1, <2>1 DEF AutoPipeline, TaskStatus, AgentStatus
<1>2. CASE s # "CREATED"
  BY <1>2 DEF NextStatus, TerminalStates, TaskStatus, AgentStatus
<1>3. QED
  BY <1>1, <1>2

(* transition_task keeps the row and its history typed.                    *)
LEMMA RowTyped ==
    ASSUME TypeOK, NEW t \in TaskStatus, NEW charged \in {0, 1},
           TransitionTask(t, charged)
    PROVE  /\ status' \in TaskStatus
           /\ replans' \in Nat
           /\ developed' \in Nat
           /\ asked' \in ReplanSources \cup {NoStatus}
  BY DEF TypeOK, TransitionTask, IsReplan, ReplanSources

LEMMA TypeInit == Init => TypeOK
<1> SUFFICES ASSUME Init
             PROVE  TypeOK
  OBVIOUS
<1>1. SlotsOK
  BY IdleIsOK DEF Init, SlotsOK, SlotOK, IdleSlot
<1>2. dirty \in BOOLEAN
  BY Zenon DEF Init
<1>3. 0 \in Commits /\ 0 \in 0 .. MaxFaults
  BY GateAssumption DEF Commits
<1>4. /\ status \in TaskStatus
      /\ summary \in [exists : BOOLEAN, commit : Commits]
      /\ run \in [exists : BOOLEAN, result : Results, commit : Commits]
  BY <1>3 DEF Init, TaskStatus, Results
<1>5. /\ replans \in Nat /\ developed \in Nat
      /\ head \in Commits /\ pushed \in Commits
      /\ faults \in 0 .. MaxFaults
  BY <1>3 DEF Init
<1>6. /\ approved \subseteq Commits
      /\ scanned \subseteq Commits
      /\ guidance \subseteq ReplanSources \X ReplanSources
      /\ asked \in ReplanSources \cup {NoStatus}
  BY DEF Init
<1>7. QED
  BY <1>1, <1>2, <1>4, <1>5, <1>6, Zenon DEF TypeOK

(* A slot goes on to a step of the agent it runs.                          *)
LEMMA GoesOn ==
    ASSUME SlotsOK, NEW w \in Workers,
           NEW pc \in {"work", "made", "rerun", "classify", "pushed"},
           NEW sha \in Commits,
           wk' = [wk EXCEPT ![w] = [wk[w] EXCEPT !.pc = pc, !.sha = sha]],
           wk[w].pc \notin {"idle", "apply"},
           pc = "made" => wk[w].at = "IMPLEMENTING",
           pc \in {"rerun", "classify"} => wk[w].at = "DEBUGGING",
           pc = "pushed" => wk[w].at = "PR_CREATION"
    PROVE  SlotsOK'
<1> DEFINE slot == [wk[w] EXCEPT !.pc = pc, !.sha = sha]
<1>1. SlotOK(wk[w])
  BY SlotIsOK
<1>2. SlotOK(slot)
  BY <1>1 DEF SlotOK, Slot
<1>3. QED
  BY <1>2, SlotBecomes

(* The same when only the pc changes.                                      *)
LEMMA StepsTo ==
    ASSUME SlotsOK, NEW w \in Workers,
           NEW pc \in {"work", "made", "rerun", "classify", "pushed"},
           wk' = [wk EXCEPT ![w].pc = pc],
           wk[w].pc \notin {"idle", "apply"},
           pc = "made" => wk[w].at = "IMPLEMENTING",
           pc \in {"rerun", "classify"} => wk[w].at = "DEBUGGING",
           pc = "pushed" => wk[w].at = "PR_CREATION"
    PROVE  SlotsOK'
<1> DEFINE slot == [wk[w] EXCEPT !.pc = pc]
<1>1. SlotOK(wk[w])
  BY SlotIsOK
<1>2. SlotOK(slot)
  BY <1>1 DEF SlotOK, Slot
<1>3. wk' = [wk EXCEPT ![w] = slot]
  BY DEF SlotsOK, Slot
<1>4. QED
  BY <1>2, <1>3, SlotBecomes

LEMMA FaultTyped ==
    ASSUME TypeOK, NEW kind, Fault(kind)
    PROVE  faults' \in 0 .. MaxFaults
  BY GateAssumption DEF TypeOK, Fault

LEMMA GuidanceTyped ==
    ASSUME TypeOK, NEW source \in ReplanSources,
           AskForChanges(source) \/ AskForNothing(source)
    PROVE  guidance' \subseteq ReplanSources \X ReplanSources
  BY DEF TypeOK, AskForChanges, AskForNothing, Without, Asking

(* The driver, the handler without an agent, and the row it moves.         *)
LEMMA DriverTyped ==
    ASSUME TypeOK, NEW w \in Workers, AdvanceOnce(w) \/ Verify(w) \/ Apply(w)
    PROVE  TypeOK'
<1>1. CASE AdvanceOnce(w)
  <2>1. PICK t \in TaskStatus : TransitionTask(t, 0)
    BY <1>1, DriverTargets DEF AdvanceOnce
  <2>2. QED
    BY <1>1, <2>1, RowTyped
       DEF AdvanceOnce, TypeOK, SlotsOK, tree, rows
<1>2. CASE Verify(w)
  <2>1. PICK t \in {"FAILED", "PR_CREATION", "TESTING"} : DecideAtOnce(w, t)
    BY <1>2 DEF Verify
  <2> DEFINE slot == [pc |-> "apply", at |-> "VERIFICATION", sha |-> 0,
                      choice |-> t]
  <2>2. <<"VERIFICATION", t>> \in Verdicts
    BY DEF Verdicts, VerificationVerdicts
  <2>3. slot \in Slot
    BY GateAssumption DEF Slot, Commits, TaskStatus, AgentStatus
  <2>4. SlotOK(slot)
    BY <2>2, <2>3 DEF SlotOK, AgentStatus
  <2>5. SlotsOK'
    BY <2>1, <2>4, SlotBecomes DEF DecideAtOnce, TypeOK
  <2>6. QED
    BY <1>2, <2>5 DEF Verify, TypeOK, tree, rows
<1>3. CASE Apply(w)
  <2>1. SlotsOK'
    BY <1>3, IdleIsOK, SlotBecomes DEF Apply, TypeOK
  <2>2. wk[w].choice \in TaskStatus
    BY <1>3, VerdictIsLegal DEF Apply, TypeOK, SlotsOK
  <2>3. {"IMPLEMENTING", "ESCALATED"} \subseteq TaskStatus
    BY DEF TaskStatus, AgentStatus, TerminalStates
  <2>4. \/ UNCHANGED <<status, replans, developed, asked>>
        \/ \E t \in TaskStatus, charged \in {0, 1} : TransitionTask(t, charged)
    BY <1>3, <2>2, <2>3 DEF Apply
  <2>5. /\ status' \in TaskStatus
        /\ replans' \in Nat
        /\ developed' \in Nat
        /\ asked' \in ReplanSources \cup {NoStatus}
    BY <2>4, RowTyped DEF TypeOK
  <2>6. QED
    BY <1>3, <2>1, <2>5 DEF Apply, TypeOK, tree, rows
<1>4. QED
  BY <1>1, <1>2, <1>3

(* A handler starts; an agent gives up or dies; the first two agents.      *)
LEMMA TurnTyped ==
    ASSUME TypeOK, NEW w \in Workers,
           Load(w) \/ AgentFails(w) \/ Crash(w) \/ PlanOrResearch(w)
    PROVE  TypeOK'
<1>1. CASE Load(w)
  <2> DEFINE slot ==
         [pc |-> IF HasEvidence(status) THEN "work" ELSE "apply",
          at |-> status,
          sha |-> IF status \in {"REVIEWING", "SECURITY_REVIEW"}
                  THEN summary.commit ELSE 0,
          choice |-> IF HasEvidence(status) THEN NoStatus ELSE "FAILED"]
  <2>1. <<status, "FAILED">> \in Verdicts
    BY <1>1, FailedIsVerdict DEF Load
  <2>2. slot.sha \in Commits
    BY GateAssumption DEF TypeOK, Commits
  <2>3. slot.choice \in TaskStatus \cup {NoStatus}
    BY DEF TaskStatus
  <2>4. slot \in Slot
    BY <1>1, <2>2, <2>3 DEF Load, Slot
  <2>5. SlotOK(slot)
    BY <1>1, <2>1, <2>4 DEF Load, SlotOK
  <2>6. SlotsOK'
    BY <1>1, <2>5, SlotBecomes DEF Load, TypeOK
  <2>7. QED
    BY <1>1, <2>6 DEF Load, TypeOK, tree, rows
<1>2. CASE AgentFails(w)
  <2>1. wk[w].pc # "idle" /\ <<wk[w].at, "FAILED">> \in Verdicts
    BY <1>2, FailedIsVerdict DEF AgentFails, TypeOK, SlotsOK
  <2>2. SlotsOK'
    BY <1>2, <2>1, DecideIsOK DEF AgentFails, TypeOK
  <2>3. QED
    BY <1>2, <2>2 DEF AgentFails, TypeOK, tree, rows
<1>3. CASE Crash(w)
  <2>1. SlotsOK'
    BY <1>3, IdleIsOK, SlotBecomes DEF Crash, TypeOK
  <2>2. QED
    BY <1>3, <2>1, FaultTyped DEF Crash, TypeOK, tree, rows
<1>4. CASE PlanOrResearch(w)
  <2>1. PICK t : Decide(w, t) /\ <<wk[w].at, t>> \in Verdicts
    BY <1>4 DEF PlanOrResearch, Working, Verdicts, PlanningVerdicts,
                ResearchingVerdicts
  <2>2. SlotsOK'
    BY <1>4, <2>1, DecideIsOK DEF PlanOrResearch, Working, TypeOK
  <2>3. QED
    BY <1>4, <2>2 DEF PlanOrResearch, TypeOK, tree, rows
<1>5. QED
  BY <1>1, <1>2, <1>3, <1>4

(* The developer.                                                          *)
LEMMA DeveloperTyped ==
    ASSUME TypeOK, NEW w \in Workers,
           \/ WriteFile(w) \/ Commit(w) \/ DeveloperPush(w) \/ ReadSha(w)
           \/ LoseAck(w) \/ FailNoCommit(w) \/ Synthesize(w)
    PROVE  TypeOK'
<1>0. SlotOK(wk[w])
  BY SlotIsOK DEF TypeOK
<1>1. CASE WriteFile(w)
  BY <1>1 DEF WriteFile, TypeOK, SlotsOK, rows
<1>2. CASE Commit(w)
  <2>1. wk' = [wk EXCEPT ![w] = [wk[w] EXCEPT !.pc = "made",
                                              !.sha = wk[w].sha]]
    BY <1>0, <1>2 DEF Commit, SlotOK, Slot, TypeOK, SlotsOK
  <2>2. SlotsOK'
    BY <1>0, <1>2, <2>1, GoesOn DEF Commit, Working, SlotOK, Slot, TypeOK
  <2>3. head' \in Commits
    BY <1>2, GateAssumption DEF Commit, TypeOK, Commits
  <2>4. QED
    BY <1>2, <2>2, <2>3 DEF Commit, TypeOK, rows
<1>3. CASE ReadSha(w)
  <2>1. wk' = [wk EXCEPT ![w] = [wk[w] EXCEPT !.pc = "work", !.sha = head]]
    BY <1>0, <1>3 DEF ReadSha, SlotOK, Slot, TypeOK, SlotsOK
  <2>2. SlotsOK'
    BY <1>0, <1>3, <2>1, GoesOn DEF ReadSha, SlotOK, Slot, TypeOK
  <2>3. QED
    BY <1>3, <2>2 DEF ReadSha, TypeOK, tree, rows
<1>4. CASE LoseAck(w)
  <2>1. SlotsOK'
    BY <1>4, StepsTo DEF LoseAck, TypeOK
  <2>2. QED
    BY <1>4, <2>1, FaultTyped DEF LoseAck, TypeOK, tree, rows
<1>5. ASSUME NEW t \in {"TESTING", "FAILED"}, NEW c \in Commits,
             Working(w, "IMPLEMENTING"), Decide(w, t),
             summary' = [exists |-> TRUE, commit |-> c],
             UNCHANGED <<status, replans, tree, run, approved, scanned,
                         guidance, pushed, faults, developed, asked>>
      PROVE  TypeOK'
  <2>1. <<wk[w].at, t>> \in Verdicts
    BY <1>5 DEF Working, Verdicts, ImplementingVerdicts
  <2>2. SlotsOK'
    BY <1>5, <2>1, DecideIsOK DEF Working, TypeOK
  <2>3. QED
    BY <1>5, <2>2 DEF TypeOK, tree
<1>6. CASE FailNoCommit(w)
  BY <1>5, <1>6, GateAssumption DEF FailNoCommit, Commits
<1>7. CASE Synthesize(w)
  BY <1>0, <1>5, <1>7 DEF Synthesize, SlotOK, Slot, tree
<1>8. CASE DeveloperPush(w)
  BY <1>8 DEF DeveloperPush, TypeOK, SlotsOK, tree, rows
<1>9. QED
  BY <1>1, <1>2, <1>3, <1>4, <1>6, <1>7, <1>8

(* Tester and debugger.                                                    *)
LEMMA SuiteTyped ==
    ASSUME TypeOK, NEW w \in Workers,
           \/ RunTests(w) \/ Rerun(w) \/ FindFlaky(w) \/ FindFailing(w)
           \/ Classify(w)
    PROVE  TypeOK'
<1>0. SlotOK(wk[w])
  BY SlotIsOK DEF TypeOK
<1>1. ASSUME NEW result \in Results, NewRun(result)
      PROVE  run' \in [exists : BOOLEAN, result : Results, commit : Commits]
  BY <1>1 DEF NewRun, TypeOK
<1>2. CASE RunTests(w)
  <2>1. PICK t \in {"REVIEWING", "DEBUGGING"} : Decide(w, t)
    BY <1>2 DEF RunTests
  <2>2. <<wk[w].at, t>> \in Verdicts
    BY <1>2 DEF RunTests, Working, Verdicts, TestingVerdicts
  <2>3. SlotsOK'
    BY <1>2, <2>1, <2>2, DecideIsOK DEF RunTests, Working, TypeOK
  <2>4. run' \in [exists : BOOLEAN, result : Results, commit : Commits]
    BY <1>1, <1>2 DEF RunTests
  <2>5. QED
    BY <1>2, <2>3, <2>4 DEF RunTests, TypeOK, tree
<1>3. CASE Rerun(w)
  <2>1. SlotsOK'
    BY <1>3, StepsTo DEF Rerun, Working, TypeOK
  <2>2. run' \in [exists : BOOLEAN, result : Results, commit : Commits]
    BY <1>1, <1>3 DEF Rerun, TypeOK
  <2>3. QED
    BY <1>3, <2>1, <2>2 DEF Rerun, TypeOK, tree
<1>4. CASE FindFailing(w)
  <2>1. SlotsOK'
    BY <1>0, <1>4, StepsTo DEF FindFailing, SlotOK, TypeOK
  <2>2. QED
    BY <1>4, <2>1 DEF FindFailing, TypeOK, tree, rows
<1>5. ASSUME NEW t \in {"REVIEWING", "IMPLEMENTING", "FAILED"}, Decide(w, t),
             wk[w].pc \in {"rerun", "classify"},
             AskForChanges("DEBUGGING") \/ AskForNothing("DEBUGGING"),
             faults' = faults \/ Fault("claims_flaky"),
             UNCHANGED <<status, replans, tree, summary, run, approved, scanned,
                         pushed, developed, asked>>
      PROVE  TypeOK'
  <2>1. <<wk[w].at, t>> \in Verdicts
    BY <1>0, <1>5 DEF SlotOK, Verdicts, DebuggingVerdicts
  <2>2. SlotsOK'
    BY <1>5, <2>1, DecideIsOK DEF TypeOK
  <2>3. guidance' \subseteq ReplanSources \X ReplanSources
    BY <1>5, GuidanceTyped DEF ReplanSources
  <2>4. faults' \in 0 .. MaxFaults
    BY <1>5, FaultTyped DEF TypeOK
  <2>5. QED
    BY <1>5, <2>2, <2>3, <2>4 DEF TypeOK, tree
<1>6. CASE FindFlaky(w)
  BY <1>5, <1>6 DEF FindFlaky
<1>7. CASE Classify(w)
  BY <1>5, <1>7 DEF Classify
<1>8. QED
  BY <1>2, <1>3, <1>4, <1>6, <1>7

(* Reviewer, security agent, GitHub agent.                                 *)
LEMMA GatesTyped ==
    ASSUME TypeOK, NEW w \in Workers,
           Review(w) \/ SecurityScan(w) \/ Push(w) \/ OpenPR(w)
    PROVE  TypeOK'
<1>0. SlotOK(wk[w]) /\ wk[w].sha \in Commits
  BY SlotIsOK DEF SlotOK, Slot, TypeOK
<1>1. CASE Review(w)
  <2>1. PICK t \in {"SECURITY_REVIEW", "IMPLEMENTING"} : Decide(w, t)
    BY <1>1 DEF Review
  <2>2. <<wk[w].at, t>> \in Verdicts
    BY <1>1 DEF Review, Working, Verdicts, ReviewingVerdicts
  <2>3. SlotsOK'
    BY <1>1, <2>1, <2>2, DecideIsOK DEF Review, Working, TypeOK
  <2>4. guidance' \subseteq ReplanSources \X ReplanSources
    BY <1>1, GuidanceTyped DEF Review, ReplanSources
  <2>5. approved' \subseteq Commits
    BY <1>0, <1>1 DEF Review, TypeOK
  <2>6. QED
    BY <1>1, <2>3, <2>4, <2>5 DEF Review, TypeOK, tree
<1>2. CASE SecurityScan(w)
  <2>1. PICK t \in {"VERIFICATION", "IMPLEMENTING"} : Decide(w, t)
    BY <1>2 DEF SecurityScan
  <2>2. <<wk[w].at, t>> \in Verdicts
    BY <1>2 DEF SecurityScan, Working, Verdicts, SecurityVerdicts
  <2>3. SlotsOK'
    BY <1>2, <2>1, <2>2, DecideIsOK DEF SecurityScan, Working, TypeOK
  <2>4. guidance' \subseteq ReplanSources \X ReplanSources
    BY <1>2, GuidanceTyped DEF SecurityScan, ReplanSources
  <2>5. scanned' \subseteq Commits
    BY <1>0, <1>2 DEF SecurityScan, TypeOK
  <2>6. QED
    BY <1>2, <2>3, <2>4, <2>5 DEF SecurityScan, TypeOK, tree
<1>3. CASE Push(w)
  <2>1. SlotsOK'
    BY <1>3, StepsTo DEF Push, Working, TypeOK
  <2>2. QED
    BY <1>3, <2>1 DEF Push, TypeOK, tree, rows
<1>4. CASE OpenPR(w)
  <2>1. <<wk[w].at, "AWAITING_APPROVAL">> \in Verdicts
    BY <1>0, <1>4 DEF OpenPR, SlotOK, Verdicts, PRCreationVerdicts
  <2>2. SlotsOK'
    BY <1>4, <2>1, DecideIsOK DEF OpenPR, TypeOK
  <2>3. QED
    BY <1>4, <2>2 DEF OpenPR, TypeOK, tree, rows
<1>5. QED
  BY <1>1, <1>2, <1>3, <1>4

LEMMA MarkTyped ==
    ASSUME TypeOK, MarkFailed
    PROVE  TypeOK'
<1>1. "FAILED" \in TaskStatus
  BY DEF TaskStatus, AgentStatus
<1>2. /\ status' \in TaskStatus
      /\ replans' \in Nat
      /\ developed' \in Nat
      /\ asked' \in ReplanSources \cup {NoStatus}
  BY <1>1, RowTyped DEF MarkFailed
<1>3. QED
  BY <1>2, FaultTyped DEF MarkFailed, TypeOK, SlotsOK, tree, rows

LEMMA TypeNext == TypeOK /\ [Next]_vars => TypeOK'
<1> SUFFICES ASSUME TypeOK, [Next]_vars
             PROVE  TypeOK'
  OBVIOUS
<1>1. CASE UNCHANGED vars
  BY <1>1 DEF vars, tree, rows, TypeOK, SlotsOK
<1>2. CASE Next
  BY <1>2, DriverTyped, TurnTyped, DeveloperTyped, SuiteTyped, GatesTyped,
     MarkTyped
     DEF Next, AgentChoice, Progress, WorkerFault
<1>3. QED
  BY <1>1, <1>2

(* Every state is well typed, whatever the slots do at the same time, and  *)
(* every pending decision is one its handler may take.                     *)
THEOREM TypeCorrect == Spec => []TypeOK
<1>1. QED
  BY TypeInit, TypeNext, PTL DEF Spec

-----------------------------------------------------------------------------
(* The gates, for a single slot.                                           *)

OneWorker == \A u, v \in Workers : u = v

(* What has to hold of the rows and the branch in status s.                *)
Evidence(s) ==
    /\ s \in HandedOver => summary.commit = head /\ head # 0 /\ ~dirty
    /\ s \in HandedOver \ {"TESTING"} => run.commit = head
    /\ s \in {"SECURITY_REVIEW", "VERIFICATION", "PR_CREATION",
              "AWAITING_APPROVAL"} => head \in approved
    /\ s \in {"VERIFICATION", "PR_CREATION", "AWAITING_APPROVAL"}
          => head \in scanned
    /\ s \in {"PR_CREATION", "AWAITING_APPROVAL"} => run.result = "passed"
    /\ s = "AWAITING_APPROVAL" => pushed = head

(* What the slot's agent knows is still so, and a decision it takes finds  *)
(* the evidence for the status it names.                                   *)
UpToDate(w) ==
    /\ wk[w].pc # "idle" => wk[w].at = status
    /\ wk[w].pc = "apply" => Evidence(wk[w].choice)
    /\ wk[w].pc = "apply" /\ wk[w].at = "VERIFICATION"
          /\ wk[w].choice = "TESTING" => run.result # "passed"
    /\ wk[w].pc = "made" => head # 0 /\ ~dirty /\ wk[w].sha = 0
    /\ Working(w, "IMPLEMENTING") /\ wk[w].sha # 0
          => wk[w].sha = head /\ ~dirty
    /\ Working(w, "REVIEWING") \/ Working(w, "SECURITY_REVIEW")
          => wk[w].sha = head
    /\ wk[w].pc = "pushed" => pushed = head

(* A task that is FAILED under an agent stays so until the agent is done:  *)
(* nothing is asked of what the agent does meanwhile.                      *)
GateInv ==
    /\ Evidence(status)
    /\ status = "FAILED" \/ \A w \in Workers : UpToDate(w)

LEMMA GateInit == Init => GateInv
  BY DEF Init, GateInv, Evidence, UpToDate, HandedOver, IdleSlot, Working

(* Away from the gates a status needs no evidence.                         *)
LEMMA NoEvidenceNeeded ==
    ASSUME NEW s, s \notin HandedOver
    PROVE  Evidence(s)'
  BY DEF Evidence, HandedOver

(* Evidence about what a step leaves alone stays.                          *)
LEMMA EvidenceStays ==
    ASSUME NEW s, Evidence(s), UNCHANGED <<tree, summary, run, pushed>>,
           approved \subseteq approved', scanned \subseteq scanned'
    PROVE  Evidence(s)'
  BY DEF Evidence, tree

(* A single slot stands for all of them.                                   *)
LEMMA GateFromSlot ==
    ASSUME OneWorker, NEW w \in Workers, UpToDate(w)', Evidence(status)'
    PROVE  GateInv'
  BY DEF OneWorker, GateInv

(* A decision whose evidence is there.                                     *)
LEMMA DecideUpToDate ==
    ASSUME TypeOK, NEW w \in Workers, UpToDate(w),
           wk[w].pc \notin {"idle", "apply"},
           NEW target, Decide(w, target), status' = status, Evidence(target)'
    PROVE  UpToDate(w)'
<1>1. /\ wk'[w].pc = "apply"
      /\ wk'[w].choice = target
      /\ wk'[w].at = wk[w].at /\ wk[w].at # "VERIFICATION"
  BY DEF Decide, TypeOK, SlotsOK, Slot
<1>2. QED
  BY <1>1 DEF UpToDate, Working

LEMMA IdleUpToDate ==
    ASSUME TypeOK, NEW w \in Workers, wk' = [wk EXCEPT ![w] = IdleSlot]
    PROVE  UpToDate(w)'
<1>1. wk'[w].pc = "idle"
  BY DEF TypeOK, SlotsOK, IdleSlot
<1>2. QED
  BY <1>1 DEF UpToDate, Working

LEMMA GateDriver ==
    ASSUME OneWorker, TypeOK, GateInv, status # "FAILED", NEW w \in Workers,
           AdvanceOnce(w) \/ Verify(w) \/ Apply(w)
    PROVE  GateInv'
<1> USE DEF GateInv
<1>1. CASE AdvanceOnce(w)
  <2>1. status' \notin HandedOver
    BY <1>1, DriverTargets DEF AdvanceOnce, TransitionTask, HandedOver
  <2>2. UpToDate(w)'
    BY <1>1 DEF AdvanceOnce, UpToDate, Working
  <2>3. QED
    BY <2>1, <2>2, NoEvidenceNeeded, GateFromSlot DEF Evidence
<1>2. CASE Verify(w)
  <2>1. PICK t \in {"FAILED", "PR_CREATION", "TESTING"} :
           /\ DecideAtOnce(w, t)
           /\ t = "PR_CREATION" => run.result = "passed"
           /\ t = "TESTING" => run.result # "passed"
    BY <1>2 DEF Verify, Evidence, HandedOver
  <2>2. /\ wk'[w].pc = "apply" /\ wk'[w].at = "VERIFICATION"
        /\ wk'[w].choice = t
    BY <2>1 DEF DecideAtOnce, TypeOK, SlotsOK
  <2>3. Evidence(status)'
    BY <1>2, EvidenceStays DEF Verify, rows
  <2>4. Evidence(t)'
    BY <1>2, <2>1 DEF Verify, Evidence, HandedOver, tree, rows
  <2>5. UpToDate(w)'
    BY <1>2, <2>1, <2>2, <2>4 DEF Verify, UpToDate, Working, rows
  <2>6. QED
    BY <2>3, <2>5, GateFromSlot
<1>3. CASE Apply(w)
  <2>1. UpToDate(w)'
    BY <1>3, IdleUpToDate DEF Apply
  <2>2. status' \in {"IMPLEMENTING", "ESCALATED"} \/ status' = wk[w].choice
    BY <1>3 DEF Apply, TransitionTask, UpToDate
  <2>3. Evidence(wk[w].choice)
    BY <1>3 DEF Apply, UpToDate
  <2>4. Evidence(status)'
    BY <1>3, <2>2, <2>3 DEF Apply, Evidence, HandedOver, tree, rows
  <2>5. QED
    BY <2>1, <2>4, GateFromSlot
<1>4. QED
  BY <1>1, <1>2, <1>3

LEMMA GateTurn ==
    ASSUME OneWorker, TypeOK, GateInv, status # "FAILED", NEW w \in Workers,
           Load(w) \/ AgentFails(w) \/ Crash(w) \/ PlanOrResearch(w)
    PROVE  GateInv'
<1> USE DEF GateInv
<1>1. CASE Load(w)
  <2>1. /\ wk'[w].at = status
        /\ wk'[w].pc \in {"work", "apply"}
        /\ wk'[w].pc = "apply" => wk'[w].choice = "FAILED"
        /\ status = "IMPLEMENTING" => wk'[w].sha = 0
        /\ status \in {"REVIEWING", "SECURITY_REVIEW"}
              => wk'[w].sha = summary.commit
    BY <1>1 DEF Load, TypeOK, SlotsOK
  <2>2. Evidence(status)'
    BY <1>1 DEF Load, Evidence, tree, rows
  <2>3. UpToDate(w)'
    BY <1>1, <2>1, <2>2
       DEF Load, UpToDate, Working, Evidence, HandedOver, tree
  <2>4. QED
    BY <2>2, <2>3, GateFromSlot
<1>2. ASSUME UNCHANGED <<status, tree, rows, pushed>>
      PROVE  Evidence(status)'
  BY <1>2 DEF Evidence, tree, rows
<1>3. CASE AgentFails(w)
  <2>1. Evidence("FAILED")'
    BY NoEvidenceNeeded DEF HandedOver
  <2>2. UpToDate(w)'
    BY <1>3, <2>1, DecideUpToDate DEF AgentFails
  <2>3. QED
    BY <1>2, <1>3, <2>2, GateFromSlot DEF AgentFails
<1>4. CASE Crash(w)
  BY <1>2, <1>4, IdleUpToDate, GateFromSlot DEF Crash
<1>5. CASE PlanOrResearch(w)
  <2>1. PICK t \in {"RESEARCHING", "IMPLEMENTING"} : Decide(w, t)
    BY <1>5 DEF PlanOrResearch
  <2>2. Evidence(t)'
    BY NoEvidenceNeeded DEF HandedOver
  <2>3. UpToDate(w)'
    BY <1>5, <2>1, <2>2, DecideUpToDate DEF PlanOrResearch, Working
  <2>4. Evidence(status)'
    BY <1>5, EvidenceStays DEF PlanOrResearch, rows
  <2>5. QED
    BY <2>3, <2>4, GateFromSlot
<1>6. QED
  BY <1>1, <1>3, <1>4, <1>5

(* A developer works without evidence: nothing is handed over yet.         *)
LEMMA GateDeveloper ==
    ASSUME OneWorker, TypeOK, GateInv, status # "FAILED", NEW w \in Workers,
           \/ WriteFile(w) \/ Commit(w) \/ DeveloperPush(w) \/ ReadSha(w)
           \/ LoseAck(w) \/ FailNoCommit(w) \/ Synthesize(w)
    PROVE  GateInv'
<1> USE DEF GateInv
<1>1. status = "IMPLEMENTING" /\ wk[w].at = "IMPLEMENTING"
  BY DEF WriteFile, Commit, DeveloperPush, ReadSha, LoseAck,
       FailNoCommit, Synthesize,
         Working, UpToDate, TypeOK, SlotsOK
<1>2. Evidence(status)'
  <2>1. status' = "IMPLEMENTING"
    BY <1>1 DEF WriteFile, Commit, DeveloperPush, ReadSha, LoseAck,
       FailNoCommit, Synthesize
  <2>2. QED
    BY <2>1, NoEvidenceNeeded DEF Evidence, HandedOver
<1>3. CASE WriteFile(w) \/ DeveloperPush(w)
  <2>1. UpToDate(w)'
    BY <1>1, <1>3 DEF WriteFile, DeveloperPush, UpToDate, Working, tree
  <2>2. QED
    BY <1>2, <2>1, GateFromSlot
<1>4. CASE Commit(w)
  <2>1. /\ wk'[w].pc = "made" /\ wk'[w].at = wk[w].at /\ wk'[w].sha = 0
        /\ head' # 0 /\ ~dirty'
    BY <1>4 DEF Commit, TypeOK, SlotsOK, Slot, Commits
  <2>2. UpToDate(w)'
    BY <1>1, <1>4, <2>1 DEF Commit, UpToDate, Working
  <2>3. QED
    BY <1>2, <2>2, GateFromSlot
<1>5. CASE ReadSha(w)
  <2>1. /\ wk'[w].pc = "work" /\ wk'[w].at = wk[w].at /\ wk'[w].sha = head
        /\ head' = head /\ ~dirty'
    BY <1>5 DEF ReadSha, TypeOK, SlotsOK, Slot, UpToDate, tree
  <2>2. UpToDate(w)'
    BY <1>1, <1>5, <2>1 DEF ReadSha, UpToDate, Working
  <2>3. QED
    BY <1>2, <2>2, GateFromSlot
<1>6. CASE LoseAck(w)
  <2>1. /\ wk'[w].pc = "work" /\ wk'[w].at = wk[w].at
        /\ wk'[w].sha = wk[w].sha
    BY <1>6 DEF LoseAck, TypeOK, SlotsOK, Slot
  <2>2. wk[w].sha = 0
    BY <1>6 DEF LoseAck, UpToDate
  <2>3. UpToDate(w)'
    BY <1>1, <1>6, <2>1, <2>2 DEF LoseAck, UpToDate, Working
  <2>4. QED
    BY <1>2, <2>3, GateFromSlot
<1>7. CASE FailNoCommit(w)
  <2>1. Evidence("FAILED")'
    BY NoEvidenceNeeded DEF HandedOver
  <2>2. UpToDate(w)'
    BY <1>7, <2>1, DecideUpToDate DEF FailNoCommit, Working
  <2>3. QED
    BY <1>2, <2>2, GateFromSlot
<1>8. CASE Synthesize(w)
  <2>1. Evidence("TESTING")'
    BY <1>8 DEF Synthesize, Evidence, UpToDate, tree
  <2>2. UpToDate(w)'
    BY <1>8, <2>1, DecideUpToDate DEF Synthesize, Working
  <2>3. QED
    BY <1>2, <2>2, GateFromSlot
<1>9. QED
  BY <1>3, <1>4, <1>5, <1>6, <1>7, <1>8

LEMMA GateSuite ==
    ASSUME OneWorker, TypeOK, GateInv, status # "FAILED", NEW w \in Workers,
           \/ RunTests(w) \/ Rerun(w) \/ FindFlaky(w) \/ FindFailing(w)
           \/ Classify(w)
    PROVE  GateInv'
<1> USE DEF GateInv
<1>1. /\ status = wk[w].at
      /\ UNCHANGED <<status, tree, summary, approved, scanned, pushed>>
  BY DEF RunTests, Rerun, FindFlaky, FindFailing, Classify, Working, UpToDate,
         rows
<1>2. status \in {"TESTING", "DEBUGGING"}
  BY <1>1 DEF RunTests, Rerun, FindFlaky, FindFailing, Classify, Working,
              TypeOK, SlotsOK
<1>3. run'.commit = head \/ run' = run
  BY DEF RunTests, Rerun, FindFlaky, FindFailing, Classify, NewRun, rows
<1>4. Evidence(status)'
  BY <1>1, <1>2, <1>3 DEF Evidence, tree
<1>5. CASE RunTests(w)
  <2>1. PICK t \in {"REVIEWING", "DEBUGGING"} : Decide(w, t)
    BY <1>5 DEF RunTests
  <2>2. run'.commit = head
    BY <1>5 DEF RunTests, NewRun
  <2>3. Evidence(t)'
    BY <1>1, <1>2, <2>2 DEF Evidence, HandedOver, tree
  <2>4. UpToDate(w)'
    BY <1>1, <1>5, <2>1, <2>3, DecideUpToDate DEF RunTests, Working
  <2>5. QED
    BY <1>4, <2>4, GateFromSlot
<1>6. CASE Rerun(w) \/ FindFailing(w)
  <2>1. /\ wk'[w].pc \in {"rerun", "classify"}
        /\ wk'[w].at = wk[w].at
    BY <1>6 DEF Rerun, FindFailing, TypeOK, SlotsOK, Slot
  <2>2. UpToDate(w)'
    BY <1>1, <2>1 DEF UpToDate, Working
  <2>3. QED
    BY <1>4, <2>2, GateFromSlot
<1>7. CASE FindFlaky(w) \/ Classify(w)
  <2>1. PICK t \in {"REVIEWING", "IMPLEMENTING", "FAILED"} : Decide(w, t)
    BY <1>7 DEF FindFlaky, Classify
  <2>2. status = "DEBUGGING" /\ run' = run
    BY <1>1, <1>7 DEF FindFlaky, Classify, TypeOK, SlotsOK
  <2>3. Evidence(t)'
    BY <1>1, <2>2 DEF Evidence, HandedOver, tree
  <2>4. UpToDate(w)'
    BY <1>1, <1>7, <2>1, <2>3, DecideUpToDate DEF FindFlaky, Classify
  <2>5. QED
    BY <1>4, <2>4, GateFromSlot
<1>8. QED
  BY <1>5, <1>6, <1>7

LEMMA GateGates ==
    ASSUME OneWorker, TypeOK, GateInv, status # "FAILED", NEW w \in Workers,
           Review(w) \/ SecurityScan(w) \/ Push(w) \/ OpenPR(w)
    PROVE  GateInv'
<1> USE DEF GateInv
<1>1. /\ status = wk[w].at
      /\ UNCHANGED <<status, tree, summary, run>>
      /\ approved \subseteq approved' /\ scanned \subseteq scanned'
  BY DEF Review, SecurityScan, Push, OpenPR, Working, UpToDate, rows
<1>2. CASE Review(w)
  <2>1. PICK t \in {"SECURITY_REVIEW", "IMPLEMENTING"} :
           /\ Decide(w, t)
           /\ t = "SECURITY_REVIEW" => head \in approved'
    BY <1>2 DEF Review, UpToDate
  <2>2. Evidence(t)'
    BY <1>1, <1>2, <2>1 DEF Review, Working, Evidence, HandedOver, tree
  <2>3. UpToDate(w)'
    BY <1>1, <1>2, <2>1, <2>2, DecideUpToDate DEF Review, Working
  <2>4. Evidence(status)'
    BY <1>1, <1>2, EvidenceStays DEF Review
  <2>5. QED
    BY <2>3, <2>4, GateFromSlot
<1>3. CASE SecurityScan(w)
  <2>1. PICK t \in {"VERIFICATION", "IMPLEMENTING"} :
           /\ Decide(w, t)
           /\ t = "VERIFICATION" => head \in scanned'
    BY <1>3 DEF SecurityScan, UpToDate
  <2>2. Evidence(t)'
    BY <1>1, <1>3, <2>1 DEF SecurityScan, Working, Evidence, HandedOver, tree
  <2>3. UpToDate(w)'
    BY <1>1, <1>3, <2>1, <2>2, DecideUpToDate DEF SecurityScan, Working
  <2>4. Evidence(status)'
    BY <1>1, <1>3, EvidenceStays DEF SecurityScan
  <2>5. QED
    BY <2>3, <2>4, GateFromSlot
<1>4. CASE Push(w)
  <2>1. wk'[w].pc = "pushed" /\ wk'[w].at = wk[w].at
    BY <1>4 DEF Push, TypeOK, SlotsOK, Slot
  <2>2. UpToDate(w)'
    BY <1>1, <1>4, <2>1 DEF Push, UpToDate, Working, tree
  <2>3. Evidence(status)'
    BY <1>1, <1>4 DEF Push, Working, Evidence, rows, tree
  <2>4. QED
    BY <2>2, <2>3, GateFromSlot
<1>5. CASE OpenPR(w)
  <2>1. wk[w].pc = "pushed" /\ status = "PR_CREATION" /\ pushed = head
    BY <1>1, <1>5 DEF OpenPR, UpToDate, TypeOK, SlotsOK
  <2>2. Evidence("AWAITING_APPROVAL")'
    BY <1>5, <2>1 DEF OpenPR, Evidence, HandedOver, rows, tree
  <2>3. UpToDate(w)'
    BY <1>1, <1>5, <2>1, <2>2, DecideUpToDate DEF OpenPR
  <2>4. Evidence(status)'
    BY <1>1, <1>5, EvidenceStays DEF OpenPR
  <2>5. QED
    BY <2>3, <2>4, GateFromSlot
<1>6. QED
  BY <1>2, <1>3, <1>4, <1>5

(* Under a task that is FAILED an agent goes on to a decision that is      *)
(* dropped, and only the driver moves the task.                            *)
LEMMA GateOvertaken ==
    ASSUME OneWorker, TypeOK, status = "FAILED", NEW w \in Workers,
           AgentChoice(w) \/ Progress(w) \/ WorkerFault(w)
    PROVE  GateInv'
<1>1. CASE AdvanceOnce(w)
  <2>1. status' \notin HandedOver
    BY <1>1, DriverTargets DEF AdvanceOnce, TransitionTask, HandedOver
  <2>2. UpToDate(w)'
    BY <1>1 DEF AdvanceOnce, UpToDate, Working
  <2>3. QED
    BY <2>1, <2>2, NoEvidenceNeeded, GateFromSlot DEF Evidence
<1>2. CASE ~AdvanceOnce(w)
  <2>1. Apply(w) => wk[w].at # "FAILED"
    BY DEF Apply, TypeOK, SlotsOK, AgentStatus
  <2>2. status' = "FAILED"
    BY <1>2, <2>1
       DEF AgentChoice, Progress, WorkerFault, WriteFile, Commit, DeveloperPush, Load, Apply,
           Verify, PlanOrResearch, ReadSha, FailNoCommit, Synthesize, RunTests,
           Rerun, FindFlaky, FindFailing, Classify, Review, SecurityScan,
           Push, OpenPR, AgentFails, LoseAck, Crash
  <2>3. QED
    BY <2>2, NoEvidenceNeeded DEF GateInv, Evidence, HandedOver
<1>3. QED
  BY <1>1, <1>2

LEMMA GateMarked ==
    ASSUME MarkFailed
    PROVE  GateInv'
  BY NoEvidenceNeeded
     DEF MarkFailed, TransitionTask, GateInv, Evidence, HandedOver

LEMMA GateNext ==
    ASSUME OneWorker
    PROVE  TypeOK /\ GateInv /\ [Next]_vars => GateInv'
<1> SUFFICES ASSUME TypeOK, GateInv, [Next]_vars
             PROVE  GateInv'
  OBVIOUS
<1>1. CASE UNCHANGED vars
  BY <1>1 DEF vars, tree, rows, GateInv, Evidence, UpToDate, Working
<1>2. CASE Next
  BY <1>2, GateDriver, GateTurn, GateDeveloper, GateSuite, GateGates,
     GateOvertaken, GateMarked
     DEF Next, AgentChoice, Progress, WorkerFault
<1>3. QED
  BY <1>1, <1>2

LEMMA GateHolds ==
    ASSUME OneWorker
    PROVE  Spec => []GateInv
<1>1. QED
  BY GateInit, GateNext, TypeCorrect, PTL DEF Spec

(* With one slot at work, whatever it crashes in or loses, tests, review   *)
(* and scan are about the very commit the developer's summary names, and   *)
(* nothing else is on or beside the branch (developer/agent.py, the        *)
(* handlers of task_lifecycle.py).                                         *)
THEOREM CommitInHand ==
    ASSUME OneWorker
    PROVE  Spec => []OneCommitInHand
<1>1. GateInv => OneCommitInHand
  BY DEF GateInv, Evidence, OneCommitInHand
<1>2. QED
  BY <1>1, GateHolds, PTL

(* With one slot at work, what the human is asked to approve is tested,    *)
(* approved, scanned and pushed (task_lifecycle.py, _run_verification).    *)
THEOREM Released ==
    ASSUME OneWorker
    PROVE  Spec => []ReleaseGate
<1>1. GateInv => ReleaseGate
  BY DEF GateInv, Evidence, ReleaseGate, HandedOver
<1>2. QED
  BY <1>1, GateHolds, PTL

-----------------------------------------------------------------------------
(* The instruction the developer is given, for a single slot.              *)

(* A decision to replan, and a task that was replanned, have the latest    *)
(* instruction from the agent that asked for it.                           *)
InstructionInv ==
    /\ FixAnswersReplan
    /\ \A w \in Workers :
          wk[w].pc = "apply" /\ IsReplan(wk[w].at, wk[w].choice)
             => LatestFixInstruction = {wk[w].at}

(* Who asks last is heard.                                                 *)
LEMMA LastAskedIsLatest ==
    ASSUME NEW source \in ReplanSources, AskForChanges(source)
    PROVE  LatestFixInstruction' = {source}
<1>1. Asking' = Asking' \cup {source}
  BY DEF AskForChanges, Asking
<1>2. \A t \in Asking' : <<source, t>> \in guidance'
  BY DEF AskForChanges, Asking, Without
<1>3. \A s \in Asking' \ {source} : <<s, source>> \notin guidance'
  BY DEF AskForChanges, Without
<1>4. QED
  BY <1>1, <1>2, <1>3 DEF LatestFixInstruction

Pending(w) == wk[w].pc = "apply" /\ IsReplan(wk[w].at, wk[w].choice)

(* An agent that answers renews or withdraws its own instruction; no other *)
(* step touches the instructions or leaves a replan pending.               *)
LEMMA InstructionWriters ==
    ASSUME TypeOK, NEW w \in Workers,
           AgentChoice(w) \/ Progress(w) \/ WorkerFault(w)
    PROVE  \/ guidance' = guidance /\ ~Pending(w)'
           \/ /\ wk[w].pc # "idle" /\ wk[w].at \in ReplanSources
              /\ status' = status
              /\ \/ Decide(w, "IMPLEMENTING") /\ AskForChanges(wk[w].at)
                 \/ ~Pending(w)'
<1> USE DEF TypeOK, SlotsOK, Slot, Pending, IsReplan
<1>1. ASSUME NEW t, Decide(w, t), t # "IMPLEMENTING"
      PROVE  ~Pending(w)'
  BY <1>1 DEF Decide
<1>2. CASE FindFlaky(w) \/ Classify(w)
  <2>1. wk[w].pc # "idle" /\ wk[w].at = "DEBUGGING"
    BY <1>2 DEF FindFlaky, Classify
  <2>2. QED
    BY <1>1, <1>2, <2>1 DEF FindFlaky, Classify, ReplanSources
<1>3. CASE Review(w)
  BY <1>1, <1>3 DEF Review, Working, ReplanSources
<1>4. CASE SecurityScan(w)
  BY <1>1, <1>4 DEF SecurityScan, Working, ReplanSources
<1>5. CASE AgentFails(w) \/ FailNoCommit(w) \/ Synthesize(w) \/ RunTests(w)
           \/ OpenPR(w)
  <2>1. PICK t : Decide(w, t) /\ t # "IMPLEMENTING"
    BY <1>5 DEF AgentFails, FailNoCommit, Synthesize, RunTests, OpenPR
  <2>2. QED
    BY <1>1, <1>5, <2>1
       DEF AgentFails, FailNoCommit, Synthesize, RunTests, OpenPR, rows
<1>6. CASE PlanOrResearch(w)
  BY <1>6 DEF PlanOrResearch, Decide, Working, rows
<1>7. CASE \/ AdvanceOnce(w) \/ WriteFile(w) \/ DeveloperPush(w)
  BY <1>7 DEF AdvanceOnce, WriteFile, DeveloperPush, Working, rows
<1>8. CASE Apply(w) \/ Crash(w)
  BY <1>8 DEF Apply, Crash, IdleSlot, rows
<1>9. CASE Load(w) \/ Verify(w)
  BY <1>9 DEF Load, Verify, DecideAtOnce, rows
<1>10. CASE \/ Commit(w) \/ ReadSha(w) \/ LoseAck(w) \/ Rerun(w)
            \/ FindFailing(w) \/ Push(w)
  BY <1>10 DEF Commit, ReadSha, LoseAck, Rerun, FindFailing, Push, rows
<1>11. QED
  BY <1>2, <1>3, <1>4, <1>5, <1>6, <1>7, <1>8, <1>9, <1>10
     DEF AgentChoice, Progress, WorkerFault

(* A step that enters IMPLEMENTING on a replan applies a pending one.      *)
LEMMA ReplanApplies ==
    ASSUME TypeOK, NEW w \in Workers,
           AgentChoice(w) \/ Progress(w) \/ WorkerFault(w),
           status' = "IMPLEMENTING", asked' # NoStatus
    PROVE  \/ UNCHANGED <<status, asked>>
           \/ Pending(w) /\ status = wk[w].at /\ asked' = wk[w].at
<1>1. CASE AdvanceOnce(w)
  BY <1>1, DriverTargets DEF AdvanceOnce, TransitionTask
<1>2. CASE Apply(w)
  BY <1>2 DEF Apply, TransitionTask, Pending
<1>3. CASE ~(AdvanceOnce(w) \/ Apply(w))
  BY <1>3 DEF AgentChoice, Progress, WorkerFault, WriteFile, Commit,
              DeveloperPush, Load, Verify,
              PlanOrResearch, ReadSha, FailNoCommit, Synthesize, RunTests,
              Rerun, FindFlaky, FindFailing, Classify, Review, SecurityScan,
              Push, OpenPR, AgentFails, LoseAck, Crash
<1>4. QED
  BY <1>1, <1>2, <1>3

LEMMA InstructionNext ==
    ASSUME OneWorker
    PROVE  TypeOK /\ GateInv /\ InstructionInv /\ [Next]_vars
              => InstructionInv'
<1> SUFFICES ASSUME TypeOK, GateInv, InstructionInv, [Next]_vars
             PROVE  InstructionInv'
  OBVIOUS
<1> USE DEF InstructionInv, Pending
<1>1. CASE UNCHANGED vars
  BY <1>1 DEF vars, rows, FixAnswersReplan, LatestFixInstruction, Asking
<1>2. ASSUME NEW w \in Workers,
             AgentChoice(w) \/ Progress(w) \/ WorkerFault(w)
      PROVE  InstructionInv'
  <2>1. CASE guidance' = guidance /\ ~Pending(w)'
    <3>1. LatestFixInstruction' = LatestFixInstruction
      BY <2>1 DEF LatestFixInstruction, Asking
    <3>2. FixAnswersReplan'
      BY <1>2, <3>1, ReplanApplies DEF FixAnswersReplan
    <3>3. QED
      BY <2>1, <3>2 DEF OneWorker
  <2>2. CASE /\ wk[w].pc # "idle" /\ wk[w].at \in ReplanSources
             /\ status' = status
             /\ \/ Decide(w, "IMPLEMENTING") /\ AskForChanges(wk[w].at)
                \/ ~Pending(w)'
    <3>1. status # "IMPLEMENTING"
      BY <2>2 DEF GateInv, UpToDate, ReplanSources, Evidence
    <3>2. FixAnswersReplan'
      BY <2>2, <3>1 DEF FixAnswersReplan
    <3>3. CASE Decide(w, "IMPLEMENTING") /\ AskForChanges(wk[w].at)
      <4>1. wk'[w].at = wk[w].at
        BY <3>3 DEF Decide, TypeOK, SlotsOK, Slot
      <4>2. LatestFixInstruction' = {wk'[w].at}
        BY <2>2, <3>3, <4>1, LastAskedIsLatest
      <4>3. QED
        BY <3>2, <4>2 DEF OneWorker
    <3>4. CASE ~Pending(w)'
      BY <3>2, <3>4 DEF OneWorker
    <3>5. QED
      BY <2>2, <3>3, <3>4
  <2>3. QED
    BY <1>2, <2>1, <2>2, InstructionWriters
<1>3. CASE MarkFailed
  <2>1. status' = "FAILED" /\ UNCHANGED <<guidance, wk>>
    BY <1>3 DEF MarkFailed, TransitionTask, rows
  <2>2. QED
    BY <2>1 DEF FixAnswersReplan, LatestFixInstruction, Asking
<1>4. QED
  BY <1>1, <1>2, <1>3 DEF Next

(* With one slot at work, a developer sent back by the debugger, the       *)
(* reviewer or the security agent is given the instruction of that very    *)
(* agent (task_lifecycle.py, _latest_fix_instruction).                     *)
THEOREM FixIsTheLastAsked ==
    ASSUME OneWorker
    PROVE  Spec => []FixAnswersReplan
<1>1. Init => InstructionInv
  BY DEF Init, InstructionInv, FixAnswersReplan, IdleSlot
<1>2. InstructionInv => FixAnswersReplan
  BY DEF InstructionInv
<1>3. QED
  BY <1>1, <1>2, InstructionNext, GateHolds, TypeCorrect, PTL DEF Spec

-----------------------------------------------------------------------------
(* The gates against the abstract machine, for any slots.                  *)

DriverWrites(t) ==
    /\ status \in {"CREATED", "FAILED", "RECOVERING", "REPLANNING"}
    /\ t \in NextStatus(status, replans, MaxReplans, "worker")
    /\ TransitionTask(t, 0)

VerdictWrites(t) ==
    /\ <<status, t>> \in Verdicts
    /\ ~IsReplan(status, t)
    /\ TransitionTask(t, 0)

FailureWrites ==
    /\ status \notin TerminalStates \cup {"FAILED"}
    /\ TransitionTask("FAILED", 0)

ReplanWrites ==
    /\ status \in ReplanSources
    /\ \/ replans < MaxReplans /\ TransitionTask("IMPLEMENTING", 1)
       \/ TransitionTask("ESCALATED", 0)

(* Who moves the row.                                                      *)
LEMMA RowWriters ==
    ASSUME TypeOK, [Next]_vars
    PROVE  \/ UNCHANGED <<status, replans, developed>>
           \/ \E t \in TaskStatus : DriverWrites(t)
           \/ \E t \in TaskStatus : VerdictWrites(t)
           \/ FailureWrites
           \/ ReplanWrites
<1>1. CASE UNCHANGED vars
  BY <1>1 DEF vars
<1>2. ASSUME NEW w \in Workers, AdvanceOnce(w)
      PROVE  \E t \in TaskStatus : DriverWrites(t)
  BY <1>2, DriverTargets DEF AdvanceOnce, DriverWrites
<1>3. ASSUME NEW w \in Workers, Apply(w)
      PROVE  \/ UNCHANGED <<status, replans, developed>>
             \/ \E t \in TaskStatus : VerdictWrites(t)
             \/ ReplanWrites
  <2>1. <<wk[w].at, wk[w].choice>> \in Verdicts /\ wk[w].choice \in TaskStatus
    BY <1>3, VerdictIsLegal DEF Apply, TypeOK, SlotsOK
  <2>2. CASE status # wk[w].at
    BY <1>3, <2>2 DEF Apply
  <2>3. CASE status = wk[w].at /\ ~IsReplan(status, wk[w].choice)
    BY <1>3, <2>1, <2>3 DEF Apply, VerdictWrites
  <2>4. CASE status = wk[w].at /\ IsReplan(status, wk[w].choice)
    BY <1>3, <2>4 DEF Apply, ReplanWrites, IsReplan, ReplanSources
  <2>5. QED
    BY <2>2, <2>3, <2>4
<1>4. ASSUME NEW w \in Workers,
             AgentChoice(w) \/ Progress(w) \/ WorkerFault(w),
             ~(AdvanceOnce(w) \/ Apply(w))
      PROVE  UNCHANGED <<status, replans, developed>>
  BY <1>4 DEF AgentChoice, Progress, WorkerFault, WriteFile, Commit,
              DeveloperPush, Load, Verify,
              PlanOrResearch, ReadSha, FailNoCommit, Synthesize, RunTests,
              Rerun, FindFlaky, FindFailing, Classify, Review, SecurityScan,
              Push, OpenPR, AgentFails, LoseAck, Crash
<1>5. ASSUME MarkFailed
      PROVE  FailureWrites
  BY <1>5 DEF MarkFailed, FailureWrites
<1>6. QED
  BY <1>1, <1>2, <1>3, <1>4, <1>5 DEF Next

(* A run of the developer is paid for before it starts.                    *)
Ledger ==
    /\ developed <= replans + 1
    /\ status \in {"CREATED", "PLANNING"} => developed = 0
    /\ status \in {"REPLANNING", "RESEARCHING"} => developed <= replans
    /\ status = "RESEARCHING" => developed <= MaxReplans

(* A step leaves the row alone or is a legal move within the budget, and   *)
(* keeps the ledger.                                                       *)
LEMMA StepIsMove ==
    ASSUME TypeOK, Ledger, [Next]_vars
    PROVE  /\ Ledger'
           /\ \/ UNCHANGED <<status, developed>>
              \/ /\ status' \in TaskStatus
                 /\ <<status, status'>> \in LegalTransitions
                 /\ developed' = developed
                       + (IF status' = "IMPLEMENTING" THEN 1 ELSE 0)
                 /\ status' = "IMPLEMENTING" => developed <= MaxReplans
<1> USE GateAssumption
<1>1. replans \in Nat /\ developed \in Nat /\ status \in TaskStatus
  BY DEF TypeOK
<1>2. CASE UNCHANGED <<status, replans, developed>>
  BY <1>2 DEF Ledger
<1>3. ASSUME NEW t \in TaskStatus, DriverWrites(t)
      PROVE  /\ Ledger'
             /\ status' = t /\ <<status, t>> \in LegalTransitions
             /\ t # "IMPLEMENTING" /\ developed' = developed
  <2>1. <<status, t>> \in LegalTransitions
    BY <1>1, <1>3, NextStatusIsLegal DEF DriverWrites
  <2>2. /\ t \in {"PLANNING", "RECOVERING", "REPLANNING", "RESEARCHING",
                  "ESCALATED"}
        /\ t = "PLANNING" => status = "CREATED"
        /\ t = "RESEARCHING" => status = "REPLANNING" /\ replans < MaxReplans
    <3>1. t \in {"PLANNING", "RECOVERING", "REPLANNING", "RESEARCHING",
                 "ESCALATED"}
      BY <1>3, DriverTargets DEF DriverWrites
    <3>2. t = "PLANNING" => status = "CREATED"
      BY <2>1 DEF LegalTransitions, PipelineEdges, FailureEdges
    <3>3. t = "RESEARCHING" => status \in {"REPLANNING", "PLANNING"}
      BY <2>1 DEF LegalTransitions, PipelineEdges, FailureEdges
    <3>4. t = "RESEARCHING" => status = "REPLANNING" /\ replans < MaxReplans
      BY <1>1, <1>3, <3>3 DEF DriverWrites, NextStatus, TerminalStates
    <3>5. QED
      BY <3>1, <3>2, <3>4
  <2>3. QED
    BY <1>1, <1>3, <2>1, <2>2 DEF DriverWrites, TransitionTask, Ledger
<1>4. ASSUME NEW t \in TaskStatus, VerdictWrites(t)
      PROVE  /\ Ledger'
             /\ status' = t /\ <<status, t>> \in LegalTransitions
             /\ developed' = developed + (IF t = "IMPLEMENTING" THEN 1 ELSE 0)
             /\ t = "IMPLEMENTING" => developed <= MaxReplans
  <2>1. /\ t = "IMPLEMENTING" => status = "RESEARCHING"
        /\ t = "RESEARCHING" => status = "PLANNING"
        /\ t \notin {"CREATED", "PLANNING", "REPLANNING"}
        /\ <<status, t>> \in LegalTransitions
    BY <1>4, VerdictTargets, VerdictIsLegal DEF VerdictWrites
  <2>2. QED
    BY <1>1, <1>4, <2>1 DEF VerdictWrites, TransitionTask, Ledger
<1>5. ASSUME ReplanWrites
      PROVE  /\ Ledger'
             /\ status' \in TaskStatus
             /\ <<status, status'>> \in LegalTransitions
             /\ developed' =
                   developed + (IF status' = "IMPLEMENTING" THEN 1 ELSE 0)
             /\ status' = "IMPLEMENTING" => developed <= MaxReplans
  <2>1. /\ {"ESCALATED", "IMPLEMENTING"} \subseteq TaskStatus
        /\ <<status, "ESCALATED">> \in LegalTransitions
        /\ <<status, "IMPLEMENTING">> \in LegalTransitions
    BY <1>5 DEF ReplanWrites, ReplanSources, LegalTransitions, PipelineEdges,
                FailureEdges, TaskStatus, AgentStatus, TerminalStates
  <2>2. QED
    BY <1>1, <1>5, <2>1 DEF ReplanWrites, TransitionTask, Ledger
<1>6. CASE \E t \in TaskStatus : DriverWrites(t)
  <2>1. PICK t \in TaskStatus : DriverWrites(t)
    BY <1>6
  <2>2. /\ Ledger'
        /\ status' = t /\ <<status, t>> \in LegalTransitions
        /\ t # "IMPLEMENTING" /\ developed' = developed
    BY <1>3, <2>1
  <2>3. QED
    BY <1>1, <2>2
<1>7. CASE \E t \in TaskStatus : VerdictWrites(t)
  <2>1. PICK t \in TaskStatus : VerdictWrites(t)
    BY <1>7
  <2>2. QED
    BY <1>4, <2>1
<1>8. CASE ReplanWrites
  BY <1>5, <1>8
<1>9. CASE FailureWrites
  <2>1. "FAILED" \in TaskStatus /\ <<status, "FAILED">> \in LegalTransitions
    BY <1>1, <1>9 DEF FailureWrites, LegalTransitions, FailureEdges,
                      TaskStatus, AgentStatus, TerminalStates
  <2>2. QED
    BY <1>1, <1>9, <2>1 DEF FailureWrites, TransitionTask, Ledger
<1>10. QED
  BY <1>2, <1>6, <1>7, <1>8, <1>9, RowWriters

(* The same table, in the abstract machine.                                *)
LEMMA SameTable ==
    /\ Machine!TaskStatus = TaskStatus
    /\ Machine!LegalTransitions = LegalTransitions
  BY DEF Machine!TaskStatus, TaskStatus, Machine!AgentStatus, AgentStatus,
         Machine!TerminalStates, TerminalStates, Machine!LegalTransitions,
         LegalTransitions, Machine!PipelineEdges, PipelineEdges,
         Machine!FailureEdges, FailureEdges

(* However many slots work on the task at once, and whatever is crashed or *)
(* lost on the way, the gates move its row only along the legal table,     *)
(* never out of a terminal status and never to the developer beyond the    *)
(* budget (task_lifecycle.py, _cas_transition, _replan_to_implementing).   *)
THEOREM Refinement == Spec => ImplementsMachine
<1>1. Init => Ledger /\ Machine!Init
  BY DEF Init, Ledger, Machine!Init
<1>2. TypeOK /\ Ledger /\ [Next]_vars => Ledger'
  BY StepIsMove
<1>3. TypeOK /\ Ledger /\ [Next]_vars => [Machine!Next]_(Machine!vars)
  <2> SUFFICES ASSUME TypeOK, Ledger, [Next]_vars
               PROVE  [Machine!Next]_(Machine!vars)
    OBVIOUS
  <2>1. CASE UNCHANGED <<status, developed>>
    BY <2>1 DEF Machine!vars
  <2>2. CASE /\ status' \in TaskStatus
             /\ <<status, status'>> \in LegalTransitions
             /\ developed' =
                   developed + (IF status' = "IMPLEMENTING" THEN 1 ELSE 0)
             /\ status' = "IMPLEMENTING" => developed <= MaxReplans
    <3>1. developed \in Nat
      BY DEF TypeOK
    <3>2. IF status' = "IMPLEMENTING"
          THEN developed <= MaxReplans /\ developed' = developed + 1
          ELSE developed' = developed
      BY <2>2, <3>1
    <3>3. Machine!Move(status')
      BY <2>2, <3>2, SameTable, Zenon DEF Machine!Move
    <3>4. QED
      BY <2>2, <3>3, SameTable DEF Machine!Next
  <2>3. QED
    BY <2>1, <2>2, StepIsMove
<1>4. QED
  BY <1>1, <1>2, <1>3, TypeCorrect, PTL DEF Spec, ImplementsMachine,
     Machine!Spec

-----------------------------------------------------------------------------
(* The task nears its end, for a single slot.                              *)

(* The account of replans is never overdrawn, except by the recovery that  *)
(* then escalates and by recoveries that a fault has forced; the tester's  *)
(* verdict is that of the latest run; the branch is ahead of its base once *)
(* a commit is made, also when the task has been failed meanwhile.         *)
Account ==
    replans <= MaxReplans + faults
                 + (IF status \in {"REPLANNING", "ESCALATED"} THEN 1 ELSE 0)
SlotKeeps(w) ==
    /\ wk[w].pc = "made" => head # 0
    /\ wk[w].pc = "apply" /\ wk[w].at = "TESTING" /\ wk[w].choice = "REVIEWING"
          => run.result = "passed"
    /\ wk[w].pc # "idle" => wk[w].at = status \/ status = "FAILED"
EndInv ==
    /\ Account
    /\ \A w \in Workers : SlotKeeps(w)

LEMMA EndInit == Init => EndInv
<1>1. ASSUME Init
      PROVE  Account
  <2>1. /\ MaxReplans \in Nat
        /\ replans = 0 /\ faults = 0
        /\ status \notin {"REPLANNING", "ESCALATED"}
    BY <1>1, GateAssumption DEF Init
  <2>2. QED
    BY <2>1 DEF Account
<1>2. ASSUME Init, NEW w \in Workers
      PROVE  SlotKeeps(w)
  BY <1>2 DEF Init, SlotKeeps, IdleSlot
<1>3. QED
  BY <1>1, <1>2 DEF EndInv

LEMMA AccountStays ==
    ASSUME TypeOK, TypeOK', Account, replans' = replans, faults <= faults',
           status' = status
    PROVE  Account'
<1>1. /\ replans \in Nat /\ replans' \in Nat /\ MaxReplans \in Nat
      /\ faults \in Nat /\ faults' \in Nat
  BY GateAssumption DEF TypeOK
<1>2. PICK extra \in {0, 1} :
         extra = IF status \in {"REPLANNING", "ESCALATED"} THEN 1 ELSE 0
  OBVIOUS
<1>3. replans <= MaxReplans + faults + extra
  BY <1>2 DEF Account
<1>4. replans' <= MaxReplans + faults' + extra
  <2>1. extra \in Nat
    BY <1>2
  <2>2. \A a, b, c, d, e \in Nat :
           a <= b + c + e /\ c <= d => a <= b + d + e
    OBVIOUS
  <2>3. QED
    BY <1>1, <1>3, <2>1, <2>2
<1>5. QED
  BY <1>2, <1>4 DEF Account

LEMMA AccountDriver ==
    ASSUME TypeOK, Account, NEW w \in Workers, AdvanceOnce(w)
    PROVE  Account'
<1>1. PICK t \in NextStatus(status, replans, MaxReplans, "worker") :
         TransitionTask(t, 0)
  BY DEF AdvanceOnce
<1>2. t \in {"PLANNING", "RECOVERING", "REPLANNING", "RESEARCHING", "ESCALATED"}
  BY <1>1, DriverTargets DEF AdvanceOnce
<1>3. /\ replans \in Nat /\ faults \in Nat /\ MaxReplans \in Nat
      /\ faults' = faults
  BY GateAssumption DEF AdvanceOnce, TypeOK
<1>4. CASE status = "CREATED"
  <2>1. t \in {"PLANNING"}
    BY <1>1, <1>4 DEF NextStatus, AutoPipeline, TerminalStates
  <2>2. QED
    BY <1>1, <1>3, <1>4, <2>1 DEF TransitionTask, Account
<1>5. CASE status \in {"FAILED", "RECOVERING"}
  <2>1. t \in {"RECOVERING", "REPLANNING"}
    BY <1>1, <1>5 DEF NextStatus, TerminalStates
  <2>2. QED
    BY <1>1, <1>3, <1>5, <2>1 DEF TransitionTask, Account
<1>6. CASE status = "REPLANNING"
  <2>1. t = IF replans >= MaxReplans THEN "ESCALATED" ELSE "RESEARCHING"
    BY <1>1, <1>6 DEF NextStatus, TerminalStates
  <2>2. QED
    BY <1>1, <1>3, <1>6, <2>1 DEF TransitionTask, Account
<1>7. QED
  BY <1>4, <1>5, <1>6 DEF AdvanceOnce

LEMMA AccountApply ==
    ASSUME TypeOK, Account, NEW w \in Workers, Apply(w)
    PROVE  Account'
<1>1. /\ replans \in Nat /\ faults \in Nat /\ MaxReplans \in Nat
      /\ faults' = faults
  BY GateAssumption DEF Apply, TypeOK
<1>2. /\ <<wk[w].at, wk[w].choice>> \in Verdicts
      /\ wk[w].at \in AgentStatus
  BY DEF Apply, TypeOK, SlotsOK
<1>3. wk[w].choice \notin {"REPLANNING", "ESCALATED"}
      /\ wk[w].at \notin {"REPLANNING", "ESCALATED"}
  BY <1>2 DEF Verdicts, AgentStatus, PlanningVerdicts,
       ResearchingVerdicts, ImplementingVerdicts, TestingVerdicts,
       DebuggingVerdicts, ReviewingVerdicts, SecurityVerdicts,
       VerificationVerdicts, PRCreationVerdicts
<1>4. CASE status # wk[w].at
  BY <1>1, <1>4 DEF Apply, Account
<1>5. CASE status = wk[w].at /\ ~IsReplan(status, wk[w].choice)
  BY <1>1, <1>3, <1>5 DEF Apply, TransitionTask, Account
<1>6. CASE status = wk[w].at /\ IsReplan(status, wk[w].choice)
  BY <1>1, <1>3, <1>6 DEF Apply, TransitionTask, Account
<1>7. QED
  BY <1>4, <1>5, <1>6

LEMMA AccountNext ==
    ASSUME TypeOK, TypeOK', Account, Next
    PROVE  Account'
<1>1. ASSUME NEW w \in Workers,
             AgentChoice(w) \/ Progress(w) \/ WorkerFault(w),
             ~(AdvanceOnce(w) \/ Apply(w))
      PROVE  Account'
  <2>1. /\ status' = status /\ replans' = replans
        /\ faults' = faults \/ faults' = faults + 1
    BY <1>1 DEF AgentChoice, Progress, WorkerFault, WriteFile, Commit,
              DeveloperPush, Load, Verify,
              PlanOrResearch, ReadSha, FailNoCommit, Synthesize, RunTests,
              Rerun, FindFlaky, FindFailing, Classify, Review, SecurityScan,
              Push, OpenPR, AgentFails, LoseAck, Crash, Fault
  <2>2. QED
    BY <2>1, AccountStays DEF TypeOK
<1>2. ASSUME MarkFailed
      PROVE  Account'
  BY <1>2, GateAssumption
     DEF MarkFailed, Fault, TransitionTask, TypeOK, Account, TerminalStates
<1>3. QED
  BY <1>1, <1>2, AccountDriver, AccountApply DEF Next, Progress

(* What an agent's step makes of its slot.                                 *)
Becomes(w, pc, sha, choice) ==
    /\ wk'[w].pc = pc /\ wk'[w].at = wk[w].at
    /\ wk'[w].sha = sha /\ wk'[w].choice = choice

LEMMA SlotSteps ==
    ASSUME TypeOK, NEW w \in Workers
    PROVE  /\ Commit(w) =>
                 /\ wk[w].pc = "work" /\ wk[w].sha = 0
                 /\ Becomes(w, "made", wk[w].sha, wk[w].choice)
           /\ ReadSha(w) => Becomes(w, "work", head, wk[w].choice)
           /\ LoseAck(w) => Becomes(w, "work", wk[w].sha, wk[w].choice)
           /\ Rerun(w) => \E pc \in {"rerun", "classify"} :
                 Becomes(w, pc, wk[w].sha, wk[w].choice)
           /\ FindFailing(w) =>
                 Becomes(w, "classify", wk[w].sha, wk[w].choice)
           /\ Push(w) => Becomes(w, "pushed", wk[w].sha, wk[w].choice)
           /\ Crash(w) \/ Apply(w) => wk'[w] = IdleSlot
           /\ \A t : Decide(w, t) => Becomes(w, "apply", wk[w].sha, t)
<1>1. wk \in [Workers -> Slot]
  BY DEF TypeOK, SlotsOK
<1>3. Commit(w) => /\ wk[w].pc = "work" /\ wk[w].sha = 0
                   /\ Becomes(w, "made", wk[w].sha, wk[w].choice)
  BY <1>1 DEF Commit, Working, Becomes, Slot
<1>4. ReadSha(w) => Becomes(w, "work", head, wk[w].choice)
  BY <1>1 DEF ReadSha, Becomes, Slot
<1>5. LoseAck(w) => Becomes(w, "work", wk[w].sha, wk[w].choice)
  BY <1>1 DEF LoseAck, Becomes, Slot
<1>6. Rerun(w) => \E pc \in {"rerun", "classify"} :
                 Becomes(w, pc, wk[w].sha, wk[w].choice)
  BY <1>1 DEF Rerun, Becomes, Slot
<1>7. FindFailing(w) => Becomes(w, "classify", wk[w].sha, wk[w].choice)
  BY <1>1 DEF FindFailing, Becomes, Slot
<1>8. Push(w) => Becomes(w, "pushed", wk[w].sha, wk[w].choice)
  BY <1>1 DEF Push, Becomes, Slot
<1>9. Crash(w) \/ Apply(w) => wk'[w] = IdleSlot
  BY <1>1 DEF Crash, Apply
<1>10. \A t : Decide(w, t) => Becomes(w, "apply", wk[w].sha, t)
  BY <1>1 DEF Decide, Becomes, Slot
<1>11. QED
  BY <1>3, <1>4, <1>5, <1>6, <1>7, <1>8, <1>9, <1>10

LEMMA SlotKeepsNext ==
    ASSUME OneWorker, TypeOK, GateInv, NEW w \in Workers, SlotKeeps(w),
           AgentChoice(w) \/ Progress(w) \/ WorkerFault(w)
    PROVE  SlotKeeps(w)'
<1>0. wk[w] \in Slot /\ SlotOK(wk[w])
  BY SlotIsOK DEF TypeOK, SlotOK
<1>1. CASE AdvanceOnce(w)
  <2>1. wk' = wk /\ wk[w].pc = "idle"
    BY <1>1 DEF AdvanceOnce
  <2>2. QED
    BY <2>1 DEF SlotKeeps
<1>2. CASE Crash(w) \/ Apply(w)
  BY <1>2, SlotSteps DEF SlotKeeps, IdleSlot
<1>3. CASE Load(w) \/ Verify(w)
  <2>1. /\ wk'[w].pc \in {"work", "apply"}
        /\ wk'[w].at = status /\ status' = status
        /\ wk'[w].pc = "apply" => wk'[w].choice # "REVIEWING"
    BY <1>3 DEF Load, Verify, DecideAtOnce, TypeOK, SlotsOK
  <2>2. QED
    BY <2>1 DEF SlotKeeps
<1>4. CASE WriteFile(w) \/ DeveloperPush(w)
  BY <1>4 DEF WriteFile, DeveloperPush, SlotKeeps, tree, rows
<1>5. CASE Commit(w)
  <2>1. /\ wk'[w].pc = "made" /\ wk'[w].at = wk[w].at
        /\ wk[w].pc # "idle" /\ status' = status /\ head' = head + 1
    BY <1>5, SlotSteps DEF Commit, Becomes
  <2>2. head' # 0
    BY <2>1 DEF TypeOK, Commits
  <2>3. QED
    BY <2>1, <2>2 DEF SlotKeeps
<1>6. CASE \/ ReadSha(w) \/ LoseAck(w) \/ Rerun(w) \/ FindFailing(w)
           \/ Push(w)
  <2>1. /\ wk'[w].pc \in {"work", "rerun", "classify", "pushed"}
        /\ wk'[w].at = wk[w].at
    BY <1>6, SlotSteps DEF Becomes
  <2>2. wk[w].pc # "idle" /\ status' = status
    BY <1>6 DEF ReadSha, LoseAck, Rerun, FindFailing, Push, Working
  <2>3. QED
    BY <2>1, <2>2 DEF SlotKeeps
<1>7. ASSUME NEW t, Decide(w, t), wk[w].pc # "idle", status' = status,
             t = "REVIEWING" /\ wk[w].at = "TESTING"
                => run'.result = "passed"
      PROVE  SlotKeeps(w)'
  <2>1. /\ wk'[w].pc = "apply" /\ wk'[w].at = wk[w].at
        /\ wk'[w].choice = t
    BY <1>7, SlotSteps DEF Becomes
  <2>2. QED
    BY <1>7, <2>1 DEF SlotKeeps
<1>8. CASE AgentFails(w)
  BY <1>7, <1>8 DEF AgentFails
<1>9. CASE PlanOrResearch(w)
  BY <1>7, <1>9 DEF PlanOrResearch, Working
<1>10. CASE FailNoCommit(w) \/ Synthesize(w)
  BY <1>7, <1>10 DEF FailNoCommit, Synthesize, Working
<1>11. CASE RunTests(w)
  <2>1. PICK result \in Results :
           /\ run'.result = result
           /\ Decide(w, IF result = "passed" THEN "REVIEWING" ELSE "DEBUGGING")
    BY <1>11 DEF RunTests, NewRun
  <2>2. QED
    BY <1>7, <1>11, <2>1 DEF RunTests, Working
<1>12. CASE FindFlaky(w) \/ Classify(w)
  <2>1. wk[w].at = "DEBUGGING"
    BY <1>0, <1>12 DEF FindFlaky, Classify, SlotOK
  <2>2. QED
    BY <1>7, <1>12, <2>1 DEF FindFlaky, Classify
<1>13. CASE Review(w) \/ SecurityScan(w)
  BY <1>7, <1>13 DEF Review, SecurityScan, Working
<1>14. CASE OpenPR(w)
  BY <1>7, <1>14 DEF OpenPR
<1>15. QED
  BY <1>1, <1>2, <1>3, <1>4, <1>5, <1>6, <1>8, <1>9, <1>10, <1>11, <1>12,
     <1>13, <1>14
     DEF AgentChoice, Progress, WorkerFault

LEMMA EndNext ==
    ASSUME OneWorker
    PROVE  TypeOK /\ TypeOK' /\ GateInv /\ EndInv /\ [Next]_vars => EndInv'
<1> SUFFICES ASSUME TypeOK, TypeOK', GateInv, EndInv, [Next]_vars
             PROVE  EndInv'
  OBVIOUS
<1>1. CASE UNCHANGED vars
  BY <1>1 DEF vars, tree, rows, EndInv, Account, SlotKeeps
<1>2. ASSUME NEW w \in Workers,
             AgentChoice(w) \/ Progress(w) \/ WorkerFault(w),
             NEW v \in Workers
      PROVE  SlotKeeps(v)'
  BY <1>2, SlotKeepsNext DEF OneWorker, EndInv
<1>3. ASSUME MarkFailed, NEW v \in Workers
      PROVE  SlotKeeps(v)'
  BY <1>3 DEF MarkFailed, TransitionTask, EndInv, SlotKeeps, tree, rows
<1>4. CASE Next
  BY <1>2, <1>3, <1>4, AccountNext DEF Next, EndInv
<1>5. QED
  BY <1>1, <1>4

LEMMA EndHolds ==
    ASSUME OneWorker
    PROVE  Spec => []EndInv
<1>1. QED
  BY EndInit, EndNext, TypeCorrect, GateHolds, PTL DEF Spec

(* The accounts are not overdrawn, and what is left of the way and of the  *)
(* turn is a number, written without its conditional.                      *)
Measured ==
    /\ faults \in Nat /\ replans \in Nat
    /\ MaxFaults - faults \in Nat
    /\ MaxReplans + 1 + faults - replans \in Nat
    /\ \A w \in Workers :
          /\ WayLeft(w) \in Nat
          /\ Way[status] \in Nat
          /\ MustReturn(w) => WayLeft(w) = Way[status] + 5
          /\ ~MustReturn(w) => WayLeft(w) = Way[status]
          /\ TurnLeft(w) \in Nat
          /\ StepsLeft(w) \in 1 .. 6
          /\ Refused(w) => TurnLeft(w) = StepsLeft(w) + 6
          /\ ~Refused(w) => TurnLeft(w) = StepsLeft(w)

LEMMA StateMeasured == TypeOK /\ Account => Measured
<1> SUFFICES ASSUME TypeOK, Account
             PROVE  Measured
  OBVIOUS
<1>1. /\ replans \in Nat /\ MaxReplans \in Nat /\ MaxFaults \in Nat
      /\ faults \in 0 .. MaxFaults
  BY GateAssumption DEF TypeOK
<1>2. replans <= MaxReplans + faults + 1
  <2>1. PICK extra \in {0, 1} :
           extra = IF status \in {"REPLANNING", "ESCALATED"} THEN 1 ELSE 0
    OBVIOUS
  <2>2. replans <= MaxReplans + faults + extra
    BY <2>1 DEF Account
  <2>3. QED
    BY <1>1, <2>1, <2>2
<1>3. /\ MaxFaults - faults \in Nat
      /\ MaxReplans + 1 + faults - replans \in Nat
  BY <1>1, <1>2
<1>4. Way[status] \in Nat
  BY DEF Way, TypeOK, TaskStatus, AgentStatus, TerminalStates
<1>5. ASSUME NEW w \in Workers
      PROVE  StepsLeft(w) \in 1 .. 6
  BY DEF StepsLeft, TypeOK, SlotsOK, Slot
<1>6. QED
  BY <1>1, <1>3, <1>4, <1>5 DEF Measured, WayLeft, TurnLeft

LEMMA NextMeasured == TypeOK' /\ Account' => Measured'
  BY StateMeasured, PTL

(* What is lowered by a fault, a replan, a move of the row, an agent.      *)
LEMMA FaultLowers ==
    ASSUME Measured, Measured', NEW w \in Workers, NEW kind, Fault(kind)
    PROVE  Below(4, ToDo(w)', ToDo(w))
<1>1. MaxFaults - faults' < MaxFaults - faults
  <2>1. faults' = faults + 1 /\ faults \in Nat /\ MaxFaults \in Nat
    BY GateAssumption DEF Fault, Measured
  <2>2. QED
    BY <2>1
<1>2. QED
  BY <1>1, Below4 DEF ToDo, Measured

LEMMA ReplanLowers ==
    ASSUME Measured, Measured', NEW w \in Workers,
           faults' = faults, replans' = replans + 1
    PROVE  Below(4, ToDo(w)', ToDo(w))
<1>1. MaxReplans + 1 + faults' - replans' < MaxReplans + 1 + faults - replans
  <2>1. faults \in Nat /\ MaxReplans \in Nat /\ replans \in Nat
    BY GateAssumption DEF Measured
  <2>2. QED
    BY <2>1
<1>2. QED
  BY <1>1, Below4 DEF ToDo, Measured

LEMMA WayLowers ==
    ASSUME Measured, Measured', NEW w \in Workers,
           faults' = faults, replans' = replans,
           WayLeft(w)' < WayLeft(w)
    PROVE  Below(4, ToDo(w)', ToDo(w))
  BY Below4 DEF ToDo, Measured

LEMMA TurnLowers ==
    ASSUME Measured, Measured', NEW w \in Workers,
           faults' = faults, replans' = replans,
           WayLeft(w)' = WayLeft(w), TurnLeft(w)' < TurnLeft(w)
    PROVE  Below(4, ToDo(w)', ToDo(w))
  BY Below4 DEF ToDo, Measured

(* A step of the agent at work.                                            *)
LEMMA StepLowers ==
    ASSUME Measured, Measured', NEW w \in Workers,
           UNCHANGED <<status, faults, replans>>,
           wk[w].pc # "idle", wk'[w].pc # "idle", wk'[w].at = wk[w].at,
           MustReturn(w)' => MustReturn(w),
           StepsLeft(w)' < StepsLeft(w)
    PROVE  Below(4, ToDo(w)', ToDo(w))
<1>1. Refused(w)' <=> Refused(w)
  BY DEF Refused
<1>2. TurnLeft(w)' < TurnLeft(w)
  BY <1>1 DEF Measured
<1>3. WayLeft(w)' = WayLeft(w) \/ WayLeft(w)' < WayLeft(w)
  BY DEF Measured
<1>4. QED
  BY <1>2, <1>3, WayLowers, TurnLowers

(* The rank of a single slot's task, action by action.                     *)
LEMMA FreeSteps ==
    ASSUME NEW w \in Workers, WriteFile(w) \/ DeveloperPush(w)
    PROVE  ToDo(w)' = ToDo(w)
<1>1. UNCHANGED <<status, replans, run, wk, faults>>
  BY DEF WriteFile, DeveloperPush, rows
<1>2. WayLeft(w)' = WayLeft(w)
  BY <1>1 DEF WayLeft, MustReturn
<1>3. TurnLeft(w)' = TurnLeft(w)
  BY <1>1 DEF TurnLeft, StepsLeft, Refused
<1>4. QED
  BY <1>1, <1>2, <1>3 DEF ToDo

LEMMA AgentLowers ==
    ASSUME TypeOK, EndInv, Measured, Measured', NEW w \in Workers,
           \/ Commit(w) \/ ReadSha(w) \/ Rerun(w) \/ FindFailing(w) \/ Push(w)
    PROVE  Below(4, ToDo(w)', ToDo(w))
<1>0. SlotOK(wk[w])
  BY SlotIsOK DEF TypeOK
<1>1. /\ UNCHANGED <<status, faults, replans>>
      /\ wk[w].pc # "idle"
  BY DEF Commit, ReadSha, Rerun, FindFailing, Push, Working
<1>2. wk[w].at \in {"IMPLEMENTING", "DEBUGGING", "PR_CREATION"}
  BY <1>0 DEF SlotOK, Commit, ReadSha, Rerun, FindFailing, Push, Working
<1>3. /\ wk'[w].pc \in {"made", "work", "rerun", "classify", "pushed"}
      /\ wk'[w].at = wk[w].at
  BY SlotSteps DEF Becomes
<1>4. ~MustReturn(w)'
  <2>1. status' \in {"IMPLEMENTING", "DEBUGGING", "PR_CREATION", "FAILED"}
    BY <1>1, <1>2 DEF EndInv, SlotKeeps
  <2>2. QED
    BY <1>3, <2>1 DEF MustReturn
<1>5. StepsLeft(w)' < StepsLeft(w)
  <2>1. CASE Commit(w)
    <3>1. StepsLeft(w) = 5 /\ StepsLeft(w)' = 4
      BY <2>1, SlotSteps DEF Becomes, StepsLeft
    <3>2. QED
      BY <3>1
  <2>2. CASE ReadSha(w)
    <3>1. head # 0 /\ wk[w].pc = "made"
      BY <2>2 DEF ReadSha, EndInv, SlotKeeps
    <3>2. StepsLeft(w) = 4 /\ StepsLeft(w)' = 3
      BY <1>0, <2>2, <3>1, SlotSteps DEF Becomes, StepsLeft, SlotOK
    <3>3. QED
      BY <3>2
  <2>3. CASE Rerun(w)
    <3>1. StepsLeft(w) = 5
      BY <2>3 DEF StepsLeft, Rerun, Working
    <3>2. StepsLeft(w)' \in {2, 3}
      BY <2>3, SlotSteps DEF Becomes, StepsLeft
    <3>3. QED
      BY <3>1, <3>2
  <2>4. CASE FindFailing(w)
    <3>1. StepsLeft(w) = 3 /\ StepsLeft(w)' = 2
      BY <2>4, SlotSteps DEF Becomes, StepsLeft, FindFailing
    <3>2. QED
      BY <3>1
  <2>5. CASE Push(w)
    <3>1. StepsLeft(w) = 5 /\ StepsLeft(w)' = 2
      BY <2>5, SlotSteps DEF Becomes, StepsLeft, Push, Working
    <3>2. QED
      BY <3>1
  <2>6. QED
    BY <2>1, <2>2, <2>3, <2>4, <2>5
<1>6. QED
  BY <1>1, <1>3, <1>4, <1>5, StepLowers

(* A decision, unless it is the model's that a failed suite is flaky.      *)
LEMMA DecisionLowers ==
    ASSUME TypeOK, EndInv, Measured, Measured', NEW w \in Workers,
           NEW t, Decide(w, t), wk[w].pc \notin {"idle", "apply"},
           UNCHANGED <<status, faults, replans>>,
           t = "REVIEWING" => run'.result = "passed",
           run' = run \/ wk[w].at = "TESTING"
    PROVE  Below(4, ToDo(w)', ToDo(w))
<1>1. Becomes(w, "apply", wk[w].sha, t)
  BY SlotSteps
<1>2. wk[w].pc \in {"work", "made", "rerun", "classify", "pushed"}
  BY DEF TypeOK, SlotsOK, Slot
<1>3. StepsLeft(w) \in 2 .. 6
  BY <1>2 DEF StepsLeft
<1>4. StepsLeft(w)' = 1
  BY <1>1 DEF StepsLeft, Becomes
<1>5. MustReturn(w)' => MustReturn(w)
  <2>1. CASE run' = run
    BY <1>1, <2>1 DEF MustReturn, Becomes
  <2>2. CASE wk[w].at = "TESTING"
    BY <1>1, <2>2 DEF MustReturn, Becomes, EndInv, SlotKeeps
  <2>3. QED
    BY <2>1, <2>2
<1>6. wk'[w].pc # "idle" /\ wk'[w].at = wk[w].at
  BY <1>1 DEF Becomes
<1>7. StepsLeft(w)' < StepsLeft(w)
  BY <1>3, <1>4
<1>8. QED
  BY <1>5, <1>6, <1>7, StepLowers

LEMMA DecidersLower ==
    ASSUME TypeOK, EndInv, Measured, Measured', NEW w \in Workers,
           \/ AgentFails(w) \/ PlanOrResearch(w)
           \/ FailNoCommit(w) \/ Synthesize(w)
           \/ RunTests(w) \/ FindFlaky(w) \/ Classify(w)
           \/ Review(w) \/ SecurityScan(w) \/ OpenPR(w)
    PROVE  Below(4, ToDo(w)', ToDo(w))
<1>1. CASE AgentFails(w)
  BY <1>1, DecisionLowers DEF AgentFails, rows
<1>2. CASE PlanOrResearch(w)
  BY <1>2, DecisionLowers DEF PlanOrResearch, Working, rows
<1>3. CASE FailNoCommit(w) \/ Synthesize(w)
  BY <1>3, DecisionLowers DEF FailNoCommit, Synthesize, Working
<1>4. CASE RunTests(w)
  <2>1. PICK result \in Results :
           /\ run'.result = result
           /\ Decide(w, IF result = "passed" THEN "REVIEWING" ELSE "DEBUGGING")
    BY <1>4 DEF RunTests, NewRun
  <2>2. QED
    BY <1>4, <2>1, DecisionLowers DEF RunTests, Working
<1>5. CASE FindFlaky(w)
  BY <1>5, DecisionLowers DEF FindFlaky
<1>6. CASE Classify(w)
  <2>1. CASE faults' = faults
    <3>1. PICK t \in {"IMPLEMENTING", "FAILED"} : Decide(w, t)
      BY <1>6, <2>1 DEF Classify, Fault, Measured
    <3>2. QED
      BY <1>6, <2>1, <3>1, DecisionLowers DEF Classify
  <2>2. CASE Fault("claims_flaky")
    BY <2>2, FaultLowers
  <2>3. QED
    BY <1>6, <2>1, <2>2 DEF Classify
<1>7. CASE Review(w) \/ SecurityScan(w)
  BY <1>7, DecisionLowers DEF Review, SecurityScan, Working
<1>8. CASE OpenPR(w)
  BY <1>8, DecisionLowers DEF OpenPR, rows
<1>9. QED
  BY <1>1, <1>2, <1>3, <1>4, <1>5, <1>6, <1>7, <1>8

(* The row moves, an agent is started or is done.                          *)
LEMMA LoadLowers ==
    ASSUME TypeOK, EndInv, Measured, Measured', NEW w \in Workers,
           Load(w) \/ Verify(w)
    PROVE  Below(4, ToDo(w)', ToDo(w))
<1>1. /\ wk'[w].pc \in {"work", "apply"}
      /\ wk'[w].at = status /\ status' = status
      /\ wk'[w].pc = "apply" => wk'[w].choice # "REVIEWING"
      /\ wk[w].pc = "idle"
      /\ UNCHANGED <<run, faults, replans>>
  BY DEF Load, Verify, DecideAtOnce, TypeOK, SlotsOK, rows
<1>2. MustReturn(w)' <=> MustReturn(w)
  BY <1>1 DEF MustReturn
<1>3. WayLeft(w)' = WayLeft(w)
  BY <1>1, <1>2 DEF Measured
<1>4. StepsLeft(w) = 6 /\ StepsLeft(w)' \in {1, 3, 5}
  BY <1>1 DEF StepsLeft
<1>5. ~Refused(w) /\ ~Refused(w)'
  BY <1>1 DEF Refused
<1>6. TurnLeft(w)' < TurnLeft(w)
  BY <1>4, <1>5 DEF Measured
<1>7. QED
  BY <1>1, <1>3, <1>6, TurnLowers

LEMMA DriverLowers ==
    ASSUME TypeOK, Measured, Measured', NEW w \in Workers, AdvanceOnce(w)
    PROVE  Below(4, ToDo(w)', ToDo(w))
<1>1. PICK t \in NextStatus(status, replans, MaxReplans, "worker") :
         TransitionTask(t, 0)
  BY DEF AdvanceOnce
<1>2. faults' = faults /\ status' = t
  BY <1>1 DEF AdvanceOnce, TransitionTask
<1>3. CASE status = "RECOVERING"
  <2>1. t = "REPLANNING"
    BY <1>1, <1>3 DEF NextStatus, TerminalStates
  <2>2. replans' = replans + 1
    BY <1>1, <2>1 DEF TransitionTask, Measured
  <2>3. QED
    BY <1>2, <2>2, ReplanLowers
<1>4. CASE status \in {"CREATED", "FAILED", "REPLANNING"}
  <2>1. \/ status = "CREATED" /\ t = "PLANNING"
        \/ status = "FAILED" /\ t = "RECOVERING"
        \/ status = "REPLANNING" /\ t \in {"RESEARCHING", "ESCALATED"}
    <3>1. CASE status = "CREATED"
      BY <1>1, <3>1 DEF NextStatus, AutoPipeline, TerminalStates
    <3>2. CASE status # "CREATED"
      BY <1>1, <1>4, <3>2 DEF NextStatus, TerminalStates
    <3>3. QED
      BY <3>1, <3>2
  <2>2. replans' = replans
    BY <1>1, <2>1 DEF TransitionTask, Measured
  <2>3. Way[t] < Way[status]
    BY <2>1 DEF Way
  <2>4. ~MustReturn(w) /\ ~MustReturn(w)'
    BY <1>2, <2>1 DEF MustReturn
  <2>5. QED
    BY <1>2, <2>2, <2>3, <2>4, WayLowers DEF Measured
<1>5. QED
  BY <1>3, <1>4 DEF AdvanceOnce

(* A verdict that is not a replan goes down the way, but for the one that  *)
(* finds the review stale.                                                 *)
LEMMA VerdictsGoDown ==
    ASSUME NEW s \in AgentStatus, NEW t, <<s, t>> \in Verdicts,
           ~IsReplan(s, t), <<s, t>> # <<"VERIFICATION", "TESTING">>
    PROVE  /\ Way[t] \in Nat /\ Way[t] < Way[s]
           /\ t \in {"SECURITY_REVIEW", "VERIFICATION"} =>
                 s \in {"REVIEWING", "SECURITY_REVIEW"}
           /\ t = "REVIEWING" => s \in {"TESTING", "DEBUGGING"}
  BY DEF Way, AgentStatus, IsReplan, Verdicts, PlanningVerdicts,
         ResearchingVerdicts, ImplementingVerdicts, TestingVerdicts,
         DebuggingVerdicts, ReviewingVerdicts, SecurityVerdicts,
         VerificationVerdicts, PRCreationVerdicts

LEMMA ApplyLowers ==
    ASSUME TypeOK, GateInv, EndInv, Measured, Measured', NEW w \in Workers, Apply(w)
    PROVE  Below(4, ToDo(w)', ToDo(w))
<1>1. /\ wk[w].pc = "apply"
      /\ wk'[w] = IdleSlot
      /\ UNCHANGED <<run, faults>>
      /\ <<wk[w].at, wk[w].choice>> \in Verdicts
      /\ wk[w].at \in AgentStatus
  BY SlotSteps DEF Apply, rows, TypeOK, SlotsOK
<1>2. wk'[w].pc = "idle"
  BY <1>1 DEF IdleSlot
<1>3. CASE status # wk[w].at
  <2>1. status = "FAILED" /\ status' = status /\ replans' = replans
    BY <1>1, <1>3 DEF EndInv, SlotKeeps, Apply
  <2>2. WayLeft(w)' = WayLeft(w)
    BY <2>1 DEF Measured, MustReturn
  <2>3. StepsLeft(w) = 1 /\ StepsLeft(w)' = 6
    BY <1>1, <1>2 DEF StepsLeft
  <2>4. Refused(w) /\ ~Refused(w)'
    BY <1>1, <1>2, <1>3 DEF Refused
  <2>5. TurnLeft(w)' < TurnLeft(w)
    BY <2>3, <2>4 DEF Measured
  <2>6. QED
    BY <1>1, <2>1, <2>2, <2>5, TurnLowers
<1>4. CASE status = wk[w].at /\ IsReplan(status, wk[w].choice)
  <2>1. CASE replans < MaxReplans
    <3>1. TransitionTask("IMPLEMENTING", 1) /\ replans \in Nat
      BY <1>4, <2>1, GateAssumption DEF Apply, Measured
    <3>2. replans' = replans + 1
      BY <3>1 DEF TransitionTask
    <3>3. QED
      BY <1>1, <3>2, ReplanLowers
  <2>2. CASE ~(replans < MaxReplans)
    <3>1. status' = "ESCALATED" /\ replans' = replans
      BY <1>4, <2>2 DEF Apply, TransitionTask, Measured
    <3>2. status \in ReplanSources
      BY <1>4 DEF IsReplan, ReplanSources
    <3>3. ~MustReturn(w)'
      BY <3>1 DEF MustReturn
    <3>4. Way[status]' = 0 /\ Way[status] > 0
      BY <3>1, <3>2 DEF Way, ReplanSources
    <3>5. QED
      BY <1>1, <3>1, <3>3, <3>4, WayLowers DEF Measured
  <2>3. QED
    BY <2>1, <2>2
<1>5. CASE status = "VERIFICATION" /\ status = wk[w].at
             /\ wk[w].choice = "TESTING"
  <2>1. status' = "TESTING" /\ replans' = replans
    BY <1>5 DEF Apply, TransitionTask, IsReplan, Measured
  <2>2. run.result # "passed"
    BY <1>1, <1>5 DEF GateInv, UpToDate, OneWorker
  <2>3. MustReturn(w) /\ ~MustReturn(w)'
    BY <1>2, <1>5, <2>1, <2>2 DEF MustReturn
  <2>4. QED
    BY <1>1, <1>5, <2>1, <2>3, WayLowers DEF Measured, Way
<1>6. CASE /\ status = wk[w].at /\ ~IsReplan(status, wk[w].choice)
           /\ ~(status = "VERIFICATION" /\ wk[w].choice = "TESTING")
  <2>1. status' = wk[w].choice
    BY <1>6 DEF Apply, TransitionTask
  <2>2. replans' = replans
    <3>1. wk[w].choice # "REPLANNING"
      BY <1>1 DEF Verdicts, PlanningVerdicts,
         ResearchingVerdicts, ImplementingVerdicts, TestingVerdicts,
         DebuggingVerdicts, ReviewingVerdicts, SecurityVerdicts,
         VerificationVerdicts, PRCreationVerdicts
    <3>2. QED
      BY <1>6, <3>1 DEF Apply, TransitionTask, Measured
  <2>3. Way[status]' \in Nat /\ Way[status]' < Way[status]
    BY <1>1, <1>6, <2>1, VerdictsGoDown
  <2>4. MustReturn(w)' => MustReturn(w)
    <3>1. ASSUME MustReturn(w)'
          PROVE  /\ run.result # "passed"
                 /\ status' \in {"REVIEWING", "SECURITY_REVIEW", "VERIFICATION"}
      BY <1>1, <1>2, <3>1 DEF MustReturn
    <3>2. CASE status' = "REVIEWING"
      <4>1. status \in {"TESTING", "DEBUGGING"}
        BY <1>1, <1>6, <2>1, <3>2, VerdictsGoDown
      <4>2. status = "TESTING" => run.result = "passed"
        BY <1>1, <1>6, <2>1, <3>2 DEF EndInv, SlotKeeps
      <4>3. QED
        BY <1>1, <2>1, <3>1, <3>2, <4>1, <4>2 DEF MustReturn
    <3>3. CASE status' \in {"SECURITY_REVIEW", "VERIFICATION"}
      <4>1. status \in {"REVIEWING", "SECURITY_REVIEW"}
        BY <1>1, <1>6, <2>1, <3>3, VerdictsGoDown
      <4>2. QED
        BY <3>1, <4>1 DEF MustReturn
    <3>4. QED
      BY <3>1, <3>2, <3>3
  <2>5. WayLeft(w)' < WayLeft(w)
    BY <2>3, <2>4 DEF Measured
  <2>6. QED
    BY <1>1, <2>2, <2>5, WayLowers
<1>7. QED
  BY <1>3, <1>4, <1>5, <1>6

LEMMA StepNears ==
    ASSUME OneWorker, TypeOK, GateInv, EndInv, Measured, Measured',
           NEW w \in Workers, Next
    PROVE  \/ Below(4, ToDo(w)', ToDo(w))
           \/ (WriteFile(w) \/ DeveloperPush(w)) /\ ToDo(w)' = ToDo(w)
<1>1. CASE MarkFailed
  BY <1>1, FaultLowers DEF MarkFailed
<1>2. CASE AgentChoice(w) \/ Progress(w) \/ WorkerFault(w)
  <2>1. CASE LoseAck(w) \/ Crash(w)
    BY <2>1, FaultLowers DEF LoseAck, Crash
  <2>2. CASE WriteFile(w) \/ DeveloperPush(w)
    BY <2>2, FreeSteps
  <2>3. QED
    BY <1>2, <2>1, <2>2, AgentLowers, DecidersLower, LoadLowers, DriverLowers,
       ApplyLowers
       DEF AgentChoice, Progress, WorkerFault
<1>3. QED
  BY <1>1, <1>2 DEF OneWorker, Next

(* With one slot a task cannot go round for ever: whatever the agents      *)
(* decide and whatever fails, every step but the developer's writes and    *)
(* pushes lowers the rank of the task, a tuple of numbers.  It is what     *)
(* ComesToRest, with its fairness, rests on (state_machine.py,             *)
(* task_lifecycle.py, _replan_to_implementing).                            *)
THEOREM EndIsNear ==
    ASSUME OneWorker
    PROVE  Spec => NearsItsEnd
<1>1. TypeOK /\ TypeOK' /\ GateInv /\ EndInv /\ EndInv' /\ [Next]_vars
         => [\A w \in Workers :
                \/ Below(4, ToDo(w)', ToDo(w))
                \/ (WriteFile(w) \/ DeveloperPush(w)) /\ ToDo(w)' = ToDo(w)]_vars
  BY StepNears, StateMeasured, NextMeasured DEF EndInv
<1>2. QED
  BY <1>1, TypeCorrect, GateHolds, EndHolds, PTL DEF Spec, NearsItsEnd

(* With one slot a commit that was not reviewed never becomes a pull       *)
(* request: what the run late_commit_unreviewed refutes takes two slots    *)
(* (task_lifecycle.py, _run_verification).                                 *)
THEOREM HeadIsReviewed ==
    ASSUME OneWorker
    PROVE  Spec => ReviewedIsHead
<1>1. ASSUME TypeOK, GateInv, [Next]_vars,
             status' = "PR_CREATION", status # "PR_CREATION"
      PROVE  head \in approved \cap scanned
  <2>1. \/ status' = status
        \/ FailureWrites \/ ReplanWrites
        \/ \E t \in TaskStatus : DriverWrites(t)
        \/ \E t \in TaskStatus : VerdictWrites(t)
    BY <1>1, RowWriters
  <2>2. <<status, "PR_CREATION">> \in Verdicts
    BY <1>1, <2>1, DriverTargets
       DEF DriverWrites, VerdictWrites, FailureWrites, ReplanWrites,
           TransitionTask
  <2>3. status = "VERIFICATION"
    BY <2>2 DEF Verdicts, PlanningVerdicts, ResearchingVerdicts,
         ImplementingVerdicts, TestingVerdicts, DebuggingVerdicts,
         ReviewingVerdicts, SecurityVerdicts, VerificationVerdicts,
         PRCreationVerdicts
  <2>4. Evidence("VERIFICATION")
    BY <1>1, <2>3 DEF GateInv
  <2>5. QED
    BY <2>4 DEF Evidence
<1>2. TypeOK /\ GateInv /\ [Next]_vars
         => [status' = "PR_CREATION" /\ status # "PR_CREATION" =>
                head \in approved \cap scanned]_vars
  BY <1>1
<1>3. QED
  BY <1>2, TypeCorrect, GateHolds, PTL DEF Spec, ReviewedIsHead
=============================================================================
