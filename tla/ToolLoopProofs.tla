-------------------------- MODULE ToolLoopProofs --------------------------
(***************************************************************************)
(* The loop of the agents keeps its books: every executed call has its row *)
(* unless a fault took it, no run exceeds its budgets, only the developer  *)
(* changes the worktree or the fork, and the commit it names is its change;*)
(* with every step the run comes nearer to its end.                        *)
(* And what ReviewGate takes such a run for, it is.                        *)
(***************************************************************************)
EXTENDS ToolLoop, LLMCallProofs, RanksProofs

(* A call is under way only while its budget lasts and its session works.  *)
Control ==
    /\ \/ pc \in {"execute", "record", "rerecord"}
       \/ pc = "propose" /\ llm.pc # "idle"
       => BudgetLeft
    /\ pc = "synthesize" /\ llm.pc # "idle" => draft.tries < 2
    /\ pc \in {"execute", "record", "rerecord", "done", "failed"} =>
          llm.pc = "idle"
    /\ pc \in {"execute", "record", "rerecord"} => session = "ok"
    /\ pc \notin {"execute", "record", "rerecord", "dead"} =>
          call = NoToolCall
    /\ pc = "execute" => call.outcome = "none"
    /\ call.tool # "none" => Allowed(call.tool) /\ ~PostCommit(call.tool)

(* One refusal of the database is on account while the row is tried again. *)
Owed == IF pc = "rerecord" THEN 1 ELSE 0

Counted ==
    /\ Missing >= 0
    /\ 2 * Missing + Owed <= faults + (IF pc = "dead" THEN 1 ELSE 0)
    /\ rows <= spent.executed

(* Commits the developer knows of, or is about to know of.                 *)
Acked ==
    IF sha # 0 \/ call = [tool |-> "git.commit", outcome |-> "returned"]
    THEN 1 ELSE 0

Committed ==
    /\ ReadersOnlyRead
    /\ CommitIsTheChange
    /\ Pending => sha = 0 /\ head # 0 /\ ~dirty
    /\ head + Owed <= Acked + faults
    /\ agent # "developer" => sha = 0
    /\ pc = "synthesize" /\ agent = "developer" => sha # 0

LoopInv == TypeOK /\ LLMInv /\ Control /\ Counted /\ Committed

LEMMA LoopInvBounds ==
    LoopInv => /\ TypeOK /\ RequestsAreBounded /\ GivenUpLast
               /\ CallsAreRecorded /\ CallsWithinBudget
               /\ ReadersOnlyRead /\ CommitIsTheChange
<1> SUFFICES ASSUME LoopInv
             PROVE  CallsAreRecorded /\ CallsWithinBudget
  BY LLMInvBounds DEF LoopInv, Committed
<1>1. /\ ran \in Nat /\ rows \in Nat /\ MaxCalls \in Nat /\ faults \in Nat
      /\ spent.executed \in 0 .. MaxCalls
  BY LoopAssumption DEF LoopInv, TypeOK
<1>2. CallsAreRecorded
  BY <1>1 DEF LoopInv, Counted, CallsAreRecorded, Missing, Owed
<1>3. CallsWithinBudget
  <2>1. rows <= spent.executed
    BY DEF LoopInv, Counted
  <2>2. pc \in {"record", "rerecord"} => spent.executed < MaxCalls
    BY DEF LoopInv, Control, BudgetLeft
  <2>3. QED
    BY <1>1, <2>1, <2>2 DEF CallsWithinBudget, Missing
<1>4. QED
  BY <1>2, <1>3

-----------------------------------------------------------------------------
(* What a step does that leaves a part of the state alone.                 *)
LEMMA SameProfile ==
    ASSUME UNCHANGED agent
    PROVE  /\ Profile' = Profile
           /\ \A tool : Allowed(tool)' <=> Allowed(tool)
  BY DEF Profile, Allowed

LEMMA ReadersTools ==
    ASSUME TypeOK, agent # "developer", NEW tool, Allowed(tool)
    PROVE  tool \notin {"filesystem.write_file", "git.commit", "git.push"}
<1>1. Profile.caps \cap {"repo.write", "git.write"} = {}
  BY DEF Profile, TypeOK, Planner, Research, Debugger, Reviewer, Security
<1>2. /\ <<"filesystem.write_file", "repo.write">> \in Needs
      /\ <<"git.commit", "git.write">> \in Needs
      /\ <<"git.push", "git.write">> \in Needs
  BY DEF Needs
<1>3. \A n \in Needs : n[1] = tool => n[2] \in Profile.caps
  BY DEF Allowed
<1>4. QED
  BY <1>1, <1>2, <1>3

LEMMA CountedKeeps ==
    ASSUME TypeOK, Counted, UNCHANGED <<ran, rows>>,
           pc \notin {"record", "rerecord", "dead"},
           pc' \notin {"record", "rerecord", "dead"},
           spent'.executed \in {spent.executed, spent.executed + 1},
           faults' \in {faults, faults + 1}
    PROVE  Counted'
<1>1. /\ ran \in Nat /\ rows \in Nat /\ faults \in Nat
      /\ spent.executed \in Nat
  BY LoopAssumption DEF TypeOK
<1>2. Missing = ran - rows /\ Missing' = ran - rows /\ Owed = 0 /\ Owed' = 0
  BY <1>1 DEF Missing, Owed
<1>3. 0 <= ran - rows /\ 2 * (ran - rows) <= faults /\ rows <= spent.executed
  BY <1>1, <1>2 DEF Counted
<1>4. Missing' >= 0 /\ 2 * Missing' + Owed' <= faults' + 0
  <2>1. PICK d \in {0, 1} : faults' = faults + d
    BY <1>1
  <2>2. QED
    BY <1>1, <1>2, <1>3, <2>1
<1>5. rows' <= spent'.executed
  <2>1. PICK d \in {0, 1} : spent'.executed = spent.executed + d
    BY <1>1
  <2>2. QED
    BY <1>1, <1>3, <2>1
<1>6. QED
  BY <1>4, <1>5 DEF Counted

LEMMA CommittedKeeps ==
    ASSUME TypeOK, Committed, UNCHANGED <<agent, call, tree, sha>>,
           pc # "rerecord", pc' # "rerecord",
           faults' \in {faults, faults + 1},
           pc' \in {"synthesize", "done"} /\ agent = "developer" => sha # 0
    PROVE  Committed'
<1>1. /\ agent' = agent /\ call' = call /\ head' = head
      /\ pushed' = pushed /\ sha' = sha
  BY DEF tree
<1>2. (dirty' <=> dirty) /\ (Pending' <=> Pending)
  BY DEF tree, Pending
<1>3. head \in Nat /\ faults \in Nat /\ Acked \in Nat
  BY LoopAssumption DEF TypeOK, Acked
<1>4. Acked' = Acked /\ Owed = 0 /\ Owed' = 0
  BY <1>1 DEF Acked, Owed
<1>5. ReadersOnlyRead' /\ CommitIsTheChange'
  <2>1. ReadersOnlyRead /\ CommitIsTheChange
    BY DEF Committed
  <2>2. ReadersOnlyRead'
    BY <1>1, <2>1 DEF ReadersOnlyRead
  <2>3. sha' # 0 => sha' = head' /\ ~dirty'
    BY <1>1, <1>2, <2>1 DEF CommitIsTheChange
  <2>4. head > 1 => faults > 0
    BY <2>1 DEF CommitIsTheChange
  <2>5. head' > 1 => faults' > 0
    BY <1>1, <1>3, <2>4
  <2>6. QED
    BY <1>1, <2>2, <2>3, <2>5 DEF CommitIsTheChange
<1>6. head' + Owed' <= Acked' + faults'
  <2>1. head + Owed <= Acked + faults
    BY DEF Committed
  <2>2. head + 0 <= Acked + faults
    BY <1>4, <2>1
  <2>3. PICK d \in {0, 1} : faults' = faults + d
    BY <1>3
  <2>4. QED
    BY <1>1, <1>3, <1>4, <2>2, <2>3
<1>7. /\ Pending' => sha' = 0 /\ head' # 0 /\ ~dirty'
      /\ agent' # "developer" => sha' = 0
      /\ pc' = "synthesize" /\ agent' = "developer" => sha' # 0
  BY <1>1, <1>2 DEF Committed
<1>8. QED
  BY <1>5, <1>6, <1>7 DEF Committed

(* The budget counts a turn it had left.                                   *)
LEMMA ChargeCounts ==
    ASSUME TypeOK, BudgetLeft, NEW outcome, Charge(outcome)
    PROVE  /\ spent' \in [executed : 0 .. MaxCalls,
                          rejections : 0 .. MaxRejections]
           /\ spent'.executed \in {spent.executed, spent.executed + 1}
           /\ outcome = "EXECUTED" =>
                 spent'.executed = spent.executed + 1
<1>0. /\ spent \in [executed : 0 .. MaxCalls, rejections : 0 .. MaxRejections]
      /\ MaxCalls \in Nat /\ MaxRejections \in Nat
      /\ spent.executed < MaxCalls
      /\ spent.executed + 1 \in 0 .. MaxCalls
      /\ spent.executed \in Nat
  BY LoopAssumption DEF TypeOK, BudgetLeft
<1>1. CASE Profile.budget = "calls" /\ outcome = "REJECTED"
  <2>1. spent.rejections < MaxRejections
    BY <1>1 DEF BudgetLeft
  <2>2. spent' = [spent EXCEPT !.rejections = @ + 1]
    BY <1>1 DEF Charge
  <2>3. spent.rejections + 1 \in 0 .. MaxRejections
    BY <1>0, <2>1
  <2>4. /\ spent' \in [executed : 0 .. MaxCalls,
                       rejections : 0 .. MaxRejections]
        /\ spent'.executed = spent.executed
    BY <1>0, <2>2, <2>3
  <2>5. outcome # "EXECUTED"
    BY <1>1
  <2>6. QED
    BY <1>0, <2>4, <2>5
<1>2. CASE ~(Profile.budget = "calls" /\ outcome = "REJECTED")
  <2>1. spent' = [spent EXCEPT !.executed = @ + 1]
    BY <1>2 DEF Charge
  <2>2. /\ spent' \in [executed : 0 .. MaxCalls,
                       rejections : 0 .. MaxRejections]
        /\ spent'.executed = spent.executed + 1
    BY <1>0, <2>1
  <2>3. QED
    BY <1>0, <2>2
<1>3. QED
  BY <1>1, <1>2

(* A step between two calls: nothing is executed, no row is written.       *)
LEMMA Settles ==
    ASSUME LoopInv, UNCHANGED <<agent, call, tree, sha, ran, rows>>,
           pc \in {"propose", "synthesize"},
           pc' \in {"propose", "synthesize", "done", "failed"},
           LLMInv', llm'.pc = "idle",
           spent' \in [executed : 0 .. MaxCalls,
                       rejections : 0 .. MaxRejections],
           spent'.executed \in {spent.executed, spent.executed + 1},
           session' \in {"ok", "broken"},
           draft' \in [tries : 0 .. 2, kept : BOOLEAN],
           artifact' \in Artifacts,
           faults' \in 0 .. MaxFaults, faults' \in {faults, faults + 1},
           pc' \in {"synthesize", "done"} /\ agent = "developer" => sha # 0
    PROVE  LoopInv'
<1>1. TypeOK /\ call = NoToolCall
  BY DEF LoopInv, Control
<1>2. TypeOK'
  BY <1>1 DEF TypeOK, LLMInv, Points, Ended, tree
<1>3. Control'
  BY <1>1 DEF Control, NoToolCall
<1>4. Counted'
  BY <1>1, CountedKeeps DEF LoopInv
<1>5. Committed'
  BY <1>1, CommittedKeeps DEF LoopInv
<1>6. QED
  BY <1>2, <1>3, <1>4, <1>5 DEF LoopInv

(* The agent has taken what its model says.                                *)
LEMMA Taken ==
    ASSUME LoopInv, NEW R, Takes(R)
    PROVE  /\ LLMInv' /\ llm'.pc = "idle" /\ llm.pc = "ended"
           /\ llm.result \in R
           /\ pc = "propose" => BudgetLeft
           /\ pc = "synthesize" => draft.tries < 2
           /\ pc \in {"propose", "synthesize", "dead"}
<1>1. LLMInv' /\ llm'.pc = "idle" /\ llm.pc = "ended" /\ llm.result \in R
  BY LLMTakes DEF LoopInv
<1>2. pc \in Points
  BY DEF LoopInv, TypeOK
<1>3. QED
  BY <1>1, <1>2 DEF LoopInv, Control, Points, Ended

LEMMA LoopTypes ==
    ASSUME LoopInv
    PROVE  /\ spent \in [executed : 0 .. MaxCalls,
                         rejections : 0 .. MaxRejections]
           /\ spent.executed \in Nat
           /\ session \in {"ok", "broken"}
           /\ draft \in [tries : 0 .. 2, kept : BOOLEAN]
           /\ artifact \in Artifacts
           /\ faults \in 0 .. MaxFaults /\ faults \in Nat /\ MaxFaults \in Nat
           /\ pc \in Points
           /\ call \in [tool : Tools \cup {"none"}, outcome : Outcomes]
  BY LoopAssumption DEF LoopInv, TypeOK

LEMMA FaultCounts ==
    ASSUME LoopInv, NEW kind, Fault(kind)
    PROVE  faults' = faults + 1 /\ faults' \in 0 .. MaxFaults
  BY LoopTypes DEF Fault

(* The model is asked.                                                     *)
LEMMA PromptKeeps == LoopInv /\ Prompt => LoopInv'
<1> SUFFICES ASSUME LoopInv, Prompt PROVE LoopInv'
  OBVIOUS
<1>1. LLMInv' /\ llm'.pc = "asking"
  BY LLMAsk DEF LoopInv, Prompt
<1>2. /\ UNCHANGED <<agent, pc, call, spent, tree, sha, session, ran, rows,
                     draft, artifact, faults>>
      /\ \/ pc = "propose" /\ BudgetLeft
         \/ pc = "synthesize" /\ draft.tries < 2
  BY DEF Prompt, work, result
<1>3. TypeOK'
  BY <1>1, <1>2 DEF LoopInv, TypeOK, LLMInv, tree
<1>4. BudgetLeft' <=> BudgetLeft
  BY <1>2, SameProfile DEF BudgetLeft
<1>5. Control'
  BY <1>1, <1>2, <1>4 DEF LoopInv, Control, NoToolCall
<1>6. Counted' /\ Committed'
  <2>1. faults' \in {faults, faults + 1}
        /\ spent'.executed \in {spent.executed, spent.executed + 1}
    BY <1>2
  <2>2. pc \in {"propose", "synthesize"} /\ pc' = pc
    BY <1>2
  <2>3. Counted'
    BY <1>2, <2>1, <2>2, CountedKeeps DEF LoopInv
  <2>4. pc' \in {"synthesize", "done"} /\ agent = "developer" => sha # 0
    BY <2>2 DEF LoopInv, Committed
  <2>5. QED
    BY <1>2, <2>1, <2>2, <2>3, <2>4, CommittedKeeps DEF LoopInv
<1>7. QED
  BY <1>1, <1>3, <1>5, <1>6 DEF LoopInv

LEMMA LLMStepKeeps == LoopInv /\ LLMStep => LoopInv'
<1> SUFFICES ASSUME LoopInv, LLMStep PROVE LoopInv'
  OBVIOUS
<1>1. LLMInv' /\ llm.pc = "asking" /\ llm'.pc # "idle"
  BY LLMSteps DEF LoopInv, LLMStep
<1>2. /\ UNCHANGED <<agent, pc, call, spent, tree, sha, session, ran, rows,
                     draft, artifact, faults>>
      /\ pc \in {"propose", "synthesize"}
  <2>1. pc \in Points /\ pc \notin Ended
    BY LoopTypes DEF LLMStep
  <2>2. QED
    BY <1>1, <2>1 DEF LLMStep, work, result, LoopInv, Control, Points, Ended
<1>3. TypeOK'
  BY <1>1, <1>2 DEF LoopInv, TypeOK, LLMInv, tree
<1>4. BudgetLeft' <=> BudgetLeft
  BY <1>2, SameProfile DEF BudgetLeft
<1>5. Control'
  BY <1>1, <1>2, <1>4 DEF LoopInv, Control, NoToolCall
<1>6. Counted' /\ Committed'
  <2>1. faults' \in {faults, faults + 1}
        /\ spent'.executed \in {spent.executed, spent.executed + 1}
    BY <1>2
  <2>2. Counted'
    BY <1>2, <2>1, CountedKeeps DEF LoopInv
  <2>3. pc' \in {"synthesize", "done"} /\ agent = "developer" => sha # 0
    BY <1>2 DEF LoopInv, Committed
  <2>4. QED
    BY <1>2, <2>1, <2>2, <2>3, CommittedKeeps DEF LoopInv
<1>7. QED
  BY <1>1, <1>3, <1>5, <1>6 DEF LoopInv

(* How the loop and the run are left.                                      *)
LEMMA LeavesLoop ==
    ASSUME LoopInv, LeaveLoop
    PROVE  /\ pc' \in {"synthesize", "failed"}
           /\ artifact' \in Artifacts
           /\ pc' \in {"synthesize", "done"} /\ agent = "developer" => sha # 0
  BY LoopTypes DEF LeaveLoop, FailNoCommit, Artifacts

LEMMA Persists ==
    ASSUME LoopInv, NEW kind \in Artifacts, Persist(kind), pc = "synthesize"
    PROVE  /\ pc' \in {"done", "failed"}
           /\ artifact' \in Artifacts
           /\ pc' \in {"synthesize", "done"} /\ agent = "developer" => sha # 0
  BY LoopTypes DEF Persist, LoopInv, Committed

LEMMA Corrects ==
    ASSUME LoopInv, draft.tries < 2, NEW kept \in BOOLEAN, Correct(kept)
    PROVE  draft' \in [tries : 0 .. 2, kept : BOOLEAN]
  BY LoopTypes DEF Correct

LEMMA Raises ==
    ASSUME LoopInv, BudgetLeft, PipelineRaises
    PROVE  /\ spent' \in [executed : 0 .. MaxCalls,
                          rejections : 0 .. MaxRejections]
           /\ spent'.executed \in {spent.executed, spent.executed + 1}
           /\ session' \in {"ok", "broken"}
           /\ pc' \in {"propose", "failed"}
<1>1. CASE Charge("REJECTED")
  BY <1>1, ChargeCounts DEF LoopInv, PipelineRaises
<1>2. CASE UNCHANGED spent
  BY <1>2, LoopTypes DEF PipelineRaises
<1>3. QED
  BY <1>1, <1>2 DEF PipelineRaises

(* Between two calls.                                                      *)
LEMMA MalformedProposalKeeps == LoopInv /\ MalformedProposal => LoopInv'
<1> SUFFICES ASSUME LoopInv, MalformedProposal PROVE LoopInv'
  OBVIOUS
<1>1. /\ UNCHANGED <<agent, pc, call, tree, sha, session, ran, rows, draft,
                     artifact, faults>>
      /\ pc = "propose" /\ Takes({"malformed"})
  BY DEF MalformedProposal, work, result
<1>2. LLMInv' /\ llm'.pc = "idle" /\ BudgetLeft
  BY <1>1, Taken
<1>3. /\ spent' \in [executed : 0 .. MaxCalls, rejections : 0 .. MaxRejections]
      /\ spent'.executed \in {spent.executed, spent.executed + 1}
  <2>1. CASE Profile.budget = "calls"
    BY <2>1, LoopTypes DEF MalformedProposal
  <2>2. CASE Profile.budget # "calls"
    BY <1>2, <2>2, ChargeCounts DEF MalformedProposal, LoopInv
  <2>3. QED
    BY <2>1, <2>2
<1>4. QED
  BY <1>1, <1>2, <1>3, LoopTypes, Settles

LEMMA LLMFailsKeeps == LoopInv /\ LLMFails => LoopInv'
<1> SUFFICES ASSUME LoopInv, LLMFails PROVE LoopInv'
  OBVIOUS
<1>1. /\ UNCHANGED <<agent, call, spent, tree, sha, session, ran, rows, draft,
                     faults>>
      /\ pc \in {"propose", "synthesize"} /\ pc' = "failed"
      /\ artifact' \in Artifacts
  BY LoopTypes DEF LLMFails, work, Artifacts
<1>2. LLMInv' /\ llm'.pc = "idle"
  BY Taken DEF LLMFails
<1>3. QED
  BY <1>1, <1>2, LoopTypes, Settles

LEMMA FinalProposalKeeps == LoopInv /\ FinalProposal => LoopInv'
<1> SUFFICES ASSUME LoopInv, FinalProposal PROVE LoopInv'
  OBVIOUS
<1>1. /\ UNCHANGED <<agent, call, spent, tree, sha, session, ran, rows, draft,
                     faults>>
      /\ pc = "propose" /\ LeaveLoop
  BY DEF FinalProposal, work
<1>2. LLMInv' /\ llm'.pc = "idle"
  BY Taken DEF FinalProposal
<1>3. QED
  BY <1>1, <1>2, LeavesLoop, LoopTypes, Settles

LEMMA BudgetExhaustedKeeps == LoopInv /\ BudgetExhausted => LoopInv'
<1> SUFFICES ASSUME LoopInv, BudgetExhausted PROVE LoopInv'
  OBVIOUS
<1>1. /\ UNCHANGED <<agent, call, spent, tree, sha, session, ran, rows, draft,
                     faults>>
      /\ UNCHANGED llmVars
      /\ pc = "propose" /\ llm.pc = "idle"
  BY DEF BudgetExhausted, work
<1>2. LLMInv' /\ llm'.pc = "idle"
  BY <1>1, LLMKeeps DEF LoopInv, llmVars
<1>3. /\ pc' \in {"synthesize", "failed"}
      /\ artifact' \in Artifacts
      /\ pc' \in {"synthesize", "done"} /\ agent = "developer" => sha # 0
  BY LeavesLoop, LoopTypes DEF BudgetExhausted
<1>4. QED
  BY <1>1, <1>2, <1>3, LoopTypes, Settles

LEMMA RefuseCallKeeps == LoopInv /\ RefuseCall => LoopInv'
<1> SUFFICES ASSUME LoopInv, RefuseCall PROVE LoopInv'
  OBVIOUS
<1>1. /\ UNCHANGED <<agent, call, tree, sha, session, ran, rows, draft,
                     artifact, faults>>
      /\ pc = "propose" /\ pc' \in {"propose", "failed"}
  BY DEF RefuseCall, Proposes, work, result
<1>2. LLMInv' /\ llm'.pc = "idle" /\ BudgetLeft
  BY <1>1, Taken DEF RefuseCall, Proposes
<1>3. /\ spent' \in [executed : 0 .. MaxCalls, rejections : 0 .. MaxRejections]
      /\ spent'.executed \in {spent.executed, spent.executed + 1}
  BY <1>2, ChargeCounts, LoopTypes DEF RefuseCall, LoopInv
<1>4. QED
  BY <1>1, <1>2, <1>3, LoopTypes, Settles

LEMMA DenyCallKeeps == LoopInv /\ DenyCall => LoopInv'
<1> SUFFICES ASSUME LoopInv, DenyCall PROVE LoopInv'
  OBVIOUS
<1>1. /\ UNCHANGED <<agent, call, tree, sha, ran, rows, draft, artifact>>
      /\ pc = "propose"
  BY DEF DenyCall, Proposes, result
<1>2. LLMInv' /\ llm'.pc = "idle" /\ BudgetLeft
  BY <1>1, Taken DEF DenyCall, Proposes
<1>3. /\ spent' \in [executed : 0 .. MaxCalls, rejections : 0 .. MaxRejections]
      /\ spent'.executed \in {spent.executed, spent.executed + 1}
      /\ session' \in {"ok", "broken"}
      /\ pc' \in {"propose", "failed"}
  BY <1>1, <1>2, ChargeCounts, Raises, LoopTypes DEF DenyCall, LoopInv
<1>4. faults' \in {faults, faults + 1} /\ faults' \in 0 .. MaxFaults
  BY FaultCounts, LoopTypes DEF DenyCall
<1>5. QED
  BY <1>1, <1>2, <1>3, <1>4, LoopTypes, Settles

LEMMA CallOnBrokenSessionKeeps == LoopInv /\ CallOnBrokenSession => LoopInv'
<1> SUFFICES ASSUME LoopInv, CallOnBrokenSession PROVE LoopInv'
  OBVIOUS
<1>1. /\ UNCHANGED <<agent, call, tree, sha, ran, rows, draft, artifact,
                     faults>>
      /\ pc = "propose" /\ PipelineRaises
  BY DEF CallOnBrokenSession, Proposes, result
<1>2. LLMInv' /\ llm'.pc = "idle" /\ BudgetLeft
  BY <1>1, Taken DEF CallOnBrokenSession, Proposes
<1>3. QED
  BY <1>1, <1>2, Raises, LoopTypes, Settles

(* The artifact.                                                           *)
LEMMA SynthesizeKeeps ==
    LoopInv /\ (Complete \/ Ungrounded \/ InvalidPlan \/ MalformedArtifact)
    => LoopInv'
<1> SUFFICES ASSUME LoopInv,
                    Complete \/ Ungrounded \/ InvalidPlan \/ MalformedArtifact
             PROVE  LoopInv'
  OBVIOUS
<1>1. /\ UNCHANGED <<agent, call, spent, tree, sha, session, ran, rows,
                     faults>>
      /\ pc = "synthesize"
  BY DEF Complete, Ungrounded, InvalidPlan, MalformedArtifact, Synthesizes,
         work
<1>2. LLMInv' /\ llm'.pc = "idle" /\ draft.tries < 2
  BY <1>1, Taken
     DEF Complete, Ungrounded, InvalidPlan, MalformedArtifact, Synthesizes
<1>3. draft' \in [tries : 0 .. 2, kept : BOOLEAN]
  <2>1. CASE Complete
    BY <2>1, LoopTypes DEF Complete
  <2>2. CASE Ungrounded \/ InvalidPlan
    BY <1>2, <2>2, Corrects DEF Ungrounded, InvalidPlan
  <2>3. CASE MalformedArtifact
    BY <1>2, <2>3, Corrects, LoopTypes DEF MalformedArtifact
  <2>4. QED
    BY <2>1, <2>2, <2>3
<1>4. /\ pc' \in {"synthesize", "done", "failed"}
      /\ artifact' \in Artifacts
      /\ pc' \in {"synthesize", "done"} /\ agent = "developer" => sha # 0
  <2>1. CASE Complete
    <3>1. "complete" \in Artifacts
      BY DEF Artifacts
    <3>2. QED
      BY <1>1, <2>1, <3>1, Persists DEF Complete
  <2>2. CASE Ungrounded \/ InvalidPlan \/ MalformedArtifact
    BY <1>1, <2>2, LoopTypes
       DEF Ungrounded, InvalidPlan, MalformedArtifact, LoopInv, Committed
  <2>3. QED
    BY <2>1, <2>2
<1>5. QED
  BY <1>1, <1>2, <1>3, <1>4, LoopTypes, Settles

LEMMA GiveUpKeeps == LoopInv /\ GiveUp => LoopInv'
<1> SUFFICES ASSUME LoopInv, GiveUp PROVE LoopInv'
  OBVIOUS
<1>1. /\ UNCHANGED <<agent, call, spent, tree, sha, session, ran, rows, draft,
                     faults>>
      /\ UNCHANGED llmVars
      /\ pc = "synthesize" /\ draft.tries = 2
  BY DEF GiveUp, work
<1>2. LLMInv' /\ llm'.pc = "idle"
  <2>1. llm.pc = "idle"
    BY <1>1 DEF LoopInv, Control
  <2>2. QED
    BY <1>1, <2>1, LLMKeeps DEF LoopInv, llmVars
<1>3. /\ pc' \in {"done", "failed"}
      /\ artifact' \in Artifacts
      /\ pc' \in {"synthesize", "done"} /\ agent = "developer" => sha # 0
  <2>1. {"unverified", "invalid"} \subseteq Artifacts
    BY DEF Artifacts
  <2>2. CASE draft.kept
    BY <1>1, <2>1, <2>2, Persists DEF GiveUp
  <2>3. CASE ~draft.kept
    BY <2>1, <2>3, LoopTypes DEF GiveUp
  <2>4. QED
    BY <2>2, <2>3
<1>4. QED
  BY <1>1, <1>2, <1>3, LoopTypes, Settles

LEMMA CommitFailsKeeps == LoopInv /\ CommitFails => LoopInv'
<1> SUFFICES ASSUME LoopInv, CommitFails PROVE LoopInv'
  OBVIOUS
<1>1. /\ UNCHANGED <<agent, call, spent, tree, sha, session, ran, rows, draft,
                     artifact>>
      /\ pc \in {"propose", "synthesize"} /\ pc' = "failed"
  BY DEF CommitFails, work, result
<1>2. LLMInv' /\ llm'.pc = "idle"
  <2>1. CASE Takes({"ok"})
    BY <2>1, Taken
  <2>2. CASE llm.pc = "idle" /\ UNCHANGED llmVars
    BY <2>2, LLMKeeps DEF LoopInv, llmVars
  <2>3. QED
    BY <2>1, <2>2 DEF CommitFails
<1>3. faults' = faults + 1 /\ faults' \in 0 .. MaxFaults
  BY FaultCounts DEF CommitFails
<1>4. QED
  BY <1>1, <1>2, <1>3, LoopTypes, Settles

-----------------------------------------------------------------------------
(* A call, from the gates to its row.                                      *)
LEMMA AdmitCallKeeps ==
    ASSUME LoopInv, NEW tool \in Tools, AdmitCall(tool)
    PROVE  LoopInv'
<1>1. /\ UNCHANGED <<agent, spent, tree, sha, session, ran, rows, draft,
                     artifact, faults>>
      /\ pc = "propose" /\ pc' = "execute" /\ session = "ok"
      /\ Allowed(tool) /\ ~PostCommit(tool)
      /\ call' = [tool |-> tool, outcome |-> "none"]
  BY DEF AdmitCall, Proposes, work, result
<1>2. LLMInv' /\ llm'.pc = "idle" /\ BudgetLeft
  BY <1>1, Taken DEF AdmitCall, Proposes
<1>3. TypeOK'
  <2>1. call' \in [tool : Tools \cup {"none"}, outcome : Outcomes]
    BY <1>1 DEF Outcomes
  <2>2. QED
    BY <1>1, <1>2, <2>1 DEF LoopInv, TypeOK, LLMInv, Points, tree
<1>4. Control'
  <2>1. BudgetLeft' /\ Allowed(tool)' /\ ~PostCommit(tool)'
    BY <1>1, <1>2, SameProfile DEF BudgetLeft, PostCommit
  <2>2. QED
    BY <1>1, <1>2, <2>1 DEF Control
<1>5. Counted'
  <2>1. faults' \in {faults, faults + 1}
        /\ spent'.executed \in {spent.executed, spent.executed + 1}
    BY <1>1
  <2>2. QED
    BY <1>1, <2>1, CountedKeeps DEF LoopInv
<1>6. Committed'
  <2>1. call = NoToolCall
    BY <1>1 DEF LoopInv, Control
  <2>2. Acked' = Acked /\ Owed' = Owed /\ ~Pending'
    BY <1>1, <2>1 DEF Acked, Owed, Pending, NoToolCall
  <2>3. head' + Owed' <= Acked' + faults'
    BY <1>1, <2>2 DEF LoopInv, Committed, tree
  <2>4. ReadersOnlyRead' /\ CommitIsTheChange'
    BY <1>1
       DEF LoopInv, Committed, ReadersOnlyRead, CommitIsTheChange, tree
  <2>5. agent' # "developer" => sha' = 0
    BY <1>1 DEF LoopInv, Committed
  <2>6. QED
    BY <1>1, <2>2, <2>3, <2>4, <2>5 DEF Committed
<1>7. QED
  BY <1>2, <1>3, <1>4, <1>5, <1>6 DEF LoopInv

(* Where a call is under way, its fields and the budget it has.            *)
LEMMA UnderWay ==
    ASSUME LoopInv, pc \in {"execute", "record", "rerecord"}
    PROVE  /\ BudgetLeft /\ llm.pc = "idle" /\ session = "ok"
           /\ ran \in Nat /\ rows \in Nat /\ head \in Nat /\ sha \in Nat
           /\ pushed \in Nat /\ dirty \in BOOLEAN
           /\ call.tool # "none" => Allowed(call.tool) /\ ~PostCommit(call.tool)
           /\ Counted /\ Committed /\ LLMInv /\ TypeOK
  BY DEF LoopInv, Control, TypeOK

LEMMA ExecuteKeeps == LoopInv /\ Execute => LoopInv'
<1> SUFFICES ASSUME LoopInv, Execute PROVE LoopInv'
  OBVIOUS
<1>1. /\ UNCHANGED <<agent, spent, sha, session, rows, draft, artifact>>
      /\ UNCHANGED llmVars
      /\ pc = "execute" /\ pc' = "record" /\ ran' = ran + 1
  BY DEF Execute, result
<1>2. PICK o \in Outcomes \ {"none"} :
         /\ call' = [call EXCEPT !.outcome = o]
         /\ IF o = "raised" THEN UNCHANGED tree
            ELSE /\ call.tool = "git.commit" => dirty
                 /\ Effect(call.tool)
         /\ IF o = "raised_after" /\ call.tool = "git.commit"
            THEN Fault("lost_ack") ELSE UNCHANGED faults
  BY DEF Execute
<1>3. /\ call'.tool = call.tool /\ call'.outcome = o
      /\ call' \in [tool : Tools \cup {"none"}, outcome : Outcomes]
      /\ call.outcome = "none"
  BY <1>1, <1>2, LoopTypes DEF LoopInv, Control
<1>4. LLMInv' /\ llm'.pc = "idle"
  BY <1>1, UnderWay, LLMKeeps DEF llmVars
<1>5. /\ faults' \in {faults, faults + 1} /\ faults' \in 0 .. MaxFaults
      /\ o = "raised_after" /\ call.tool = "git.commit" =>
            faults' = faults + 1
  BY <1>2, FaultCounts, LoopTypes
<1>6. /\ head' \in {head, head + 1} /\ dirty' \in BOOLEAN /\ pushed' \in Nat
      /\ head' # head =>
            call.tool = "git.commit" /\ o # "raised" /\ head' = head + 1
      /\ call.tool = "git.commit" /\ o # "raised" =>
            head' = head + 1 /\ ~dirty'
      /\ call.tool \notin {"filesystem.write_file", "git.commit"} =>
            head' = head /\ (dirty' <=> dirty)
      /\ call.tool \notin {"git.commit", "git.push"} =>
            head' = head /\ pushed' = pushed
  BY <1>1, <1>2, UnderWay DEF Effect, tree
<1>7. TypeOK'
  BY <1>1, <1>3, <1>4, <1>5, <1>6, UnderWay DEF LoopInv, TypeOK, LLMInv, Points
<1>8. Control'
  <2>1. PICK t : t = call.tool
    OBVIOUS
  <2>2. BudgetLeft' /\ (t # "none" => Allowed(t)' /\ ~PostCommit(t)')
    BY <1>1, <2>1, UnderWay, SameProfile DEF BudgetLeft, PostCommit
  <2>3. call'.tool # "none" => Allowed(call.tool)' /\ ~PostCommit(call.tool)'
    BY <1>3, <2>1, <2>2
  <2>4. session' = "ok"
    BY <1>1, UnderWay
  <2>5. QED
    BY <1>1, <1>4, <2>2, <2>3, <2>4 DEF Control
<1>9. Counted'
  <2>1. ran \in Nat /\ rows \in Nat /\ faults \in Nat /\ rows' = rows
    BY <1>1, UnderWay, LoopTypes
  <2>2. Missing = ran - rows /\ Missing' = ran - rows /\ Owed = 0 /\ Owed' = 0
    BY <1>1, <2>1 DEF Missing, Owed
  <2>3. 0 <= ran - rows /\ 2 * (ran - rows) <= faults /\ rows <= spent.executed
    BY <1>1, <2>1, <2>2, UnderWay DEF Counted
  <2>4. Missing' >= 0 /\ 2 * Missing' + Owed' <= faults' + 0
    <3>1. PICK d \in {0, 1} : faults' = faults + d
      BY <1>5, <2>1
    <3>2. QED
      BY <2>1, <2>2, <2>3, <3>1
  <2>5. rows' <= spent'.executed
    BY <1>1, <2>3
  <2>6. QED
    BY <1>1, <2>4, <2>5 DEF Counted
<1>10. Committed'
  <2>1. /\ head \in Nat /\ faults \in Nat /\ sha' = sha /\ agent' = agent
        /\ Owed = 0 /\ Owed' = 0 /\ head + Owed <= Acked + faults
    BY <1>1, UnderWay, LoopTypes DEF Owed, Committed
  <2>2. /\ ReadersOnlyRead
        /\ sha # 0 => sha = head /\ ~dirty
        /\ head > 1 => faults > 0
        /\ agent # "developer" => sha = 0
    BY UnderWay, <1>1 DEF Committed, CommitIsTheChange
  <2>3. sha # 0 => call.tool \notin {"filesystem.write_file", "git.commit"}
    BY <1>1, UnderWay DEF PostCommit
  <2>4. ReadersOnlyRead'
    <3>1. agent # "developer" => call.tool \notin {"git.commit", "git.push"}
      BY <1>1, UnderWay, ReadersTools
    <3>2. QED
      BY <1>6, <2>1, <2>2, <3>1 DEF ReadersOnlyRead
  <2>5. sha' # 0 => sha' = head' /\ ~dirty'
    BY <1>6, <2>1, <2>2, <2>3
  <2>6. Pending' => sha' = 0 /\ head' # 0 /\ ~dirty'
    BY <1>3, <1>6, <2>1, <2>3, UnderWay, <1>1 DEF Pending
  <2>7. head' + Owed' <= Acked' + faults'
    <3>0. head <= Acked + faults
      BY <2>1
    <3>1. CASE head' = head
      <4>1. PICK d \in {0, 1} : faults' = faults + d
        BY <1>5, <2>1
      <4>2. PICK e \in {0, 1} : Acked' = Acked + e
        BY <1>3, <2>1 DEF Acked
      <4>3. Acked \in Nat
        BY DEF Acked
      <4>4. QED
        BY <2>1, <3>0, <3>1, <4>1, <4>2, <4>3
    <3>2. CASE head' # head
      <4>1. head' = head + 1 /\ call.tool = "git.commit" /\ o # "raised"
        BY <1>6, <3>2
      <4>2. sha = 0 /\ Acked = 0
        BY <1>3, <2>3, <4>1 DEF Acked
      <4>3. CASE o = "raised_after"
        <5>1. faults' = faults + 1
          BY <1>5, <4>1, <4>3
        <5>2. PICK e \in {0, 1} : Acked' = e
          BY DEF Acked
        <5>3. QED
          BY <2>1, <3>0, <4>1, <4>2, <5>1, <5>2
      <4>4. CASE o = "returned"
        <5>1. call' = [tool |-> "git.commit", outcome |-> "returned"]
          BY <1>3, <4>1, <4>4, LoopTypes
        <5>2. Acked' = 1
          BY <5>1 DEF Acked
        <5>3. PICK d \in {0, 1} : faults' = faults + d
          BY <1>5, <2>1
        <5>4. QED
          BY <2>1, <3>0, <4>1, <4>2, <5>2, <5>3
      <4>5. QED
        BY <4>1, <4>3, <4>4 DEF Outcomes
    <3>3. QED
      BY <3>1, <3>2
  <2>8. head' > 1 => faults' > 0
    <3>1. PICK d \in {0, 1} : faults' = faults + d
      BY <1>5, <2>1
    <3>2. CASE head' = head
      BY <2>1, <2>2, <3>1, <3>2
    <3>3. CASE head' # head
      <4>1. head' = head + 1 /\ Acked = 0
        BY <1>3, <1>6, <2>3, <3>3 DEF Acked
      <4>2. QED
        BY <2>1, <3>1, <4>1
    <3>4. QED
      BY <3>2, <3>3
  <2>9. QED
    BY <1>1, <2>1, <2>2, <2>4, <2>5, <2>6, <2>7, <2>8
       DEF Committed, CommitIsTheChange
<1>11. QED
  BY <1>4, <1>7, <1>8, <1>9, <1>10 DEF LoopInv

LEMMA RecordKeeps == LoopInv /\ Record => LoopInv'
<1> SUFFICES ASSUME LoopInv, Record PROVE LoopInv'
  OBVIOUS
<1>1. /\ UNCHANGED <<agent, tree, session, ran, draft, artifact, faults>>
      /\ UNCHANGED llmVars
      /\ pc = "record" /\ pc' = "propose" /\ rows' = rows + 1
      /\ call' = NoToolCall /\ Charge("EXECUTED")
  BY DEF Record, result
<1>2. /\ spent' \in [executed : 0 .. MaxCalls, rejections : 0 .. MaxRejections]
      /\ spent'.executed = spent.executed + 1
  BY <1>1, UnderWay, ChargeCounts
<1>3. LLMInv' /\ llm'.pc = "idle"
  BY <1>1, UnderWay, LLMKeeps DEF llmVars
<1>4. sha' \in Nat
  BY <1>1, UnderWay DEF Record
<1>5. TypeOK'
  BY <1>1, <1>2, <1>3, <1>4, UnderWay
     DEF TypeOK, LLMInv, Points, NoToolCall, Outcomes, tree
<1>6. Control'
  BY <1>1, <1>3 DEF Control, NoToolCall
<1>7. Counted'
  <2>1. /\ ran \in Nat /\ rows \in Nat /\ faults \in Nat
        /\ ran' = ran /\ faults' = faults /\ spent.executed \in Nat
    BY <1>1, UnderWay, LoopTypes
  <2>2. /\ Missing = ran - rows - 1 /\ Missing' = ran - rows - 1
        /\ Owed = 0 /\ Owed' = 0
    BY <1>1, <2>1 DEF Missing, Owed
  <2>3. /\ 0 <= ran - rows - 1 /\ 2 * (ran - rows - 1) <= faults
        /\ rows <= spent.executed
    BY <1>1, <2>1, <2>2, UnderWay DEF Counted
  <2>4. rows' <= spent'.executed
    BY <1>1, <1>2, <2>1, <2>3
  <2>5. QED
    BY <1>1, <2>1, <2>2, <2>3, <2>4 DEF Counted
<1>8. Committed'
  <2>1. /\ head \in Nat /\ faults \in Nat /\ head' = head /\ faults' = faults
        /\ pushed' = pushed /\ agent' = agent
        /\ Owed = 0 /\ Owed' = 0 /\ head <= Acked + faults
    BY <1>1, UnderWay, LoopTypes DEF Owed, Committed, tree
  <2>2. /\ ReadersOnlyRead
        /\ sha # 0 => sha = head /\ ~dirty
        /\ head > 1 => faults > 0
        /\ agent # "developer" => sha = 0
        /\ Pending => sha = 0 /\ head # 0 /\ ~dirty
    BY UnderWay, <1>1 DEF Committed, CommitIsTheChange
  <2>3. dirty' <=> dirty
    BY <1>1 DEF tree
  <2>4. CASE call = [tool |-> "git.commit", outcome |-> "returned"]
    <3>1. Pending /\ sha' = head /\ Acked = 1
      BY <2>4 DEF Pending, Record, Acked
    <3>2. agent = "developer"
      <4>1. Allowed("git.commit")
        BY <1>1, <2>4, UnderWay
      <4>2. QED
        BY <1>1, <4>1, ReadersTools, UnderWay
    <3>3. Acked' = 1
      BY <2>1, <2>2, <3>1 DEF Acked
    <3>4. head' + Owed' <= Acked' + faults'
      BY <2>1, <3>1, <3>3
    <3>5. ReadersOnlyRead' /\ ~Pending'
      BY <1>1, <2>1, <3>2 DEF ReadersOnlyRead, Pending, NoToolCall
    <3>6. CommitIsTheChange'
      BY <1>1, <2>1, <2>2, <2>3, <3>1 DEF CommitIsTheChange
    <3>7. QED
      BY <1>1, <2>1, <3>2, <3>4, <3>5, <3>6 DEF Committed
  <2>5. CASE call # [tool |-> "git.commit", outcome |-> "returned"]
    <3>1. sha' = sha
      BY <2>5 DEF Record
    <3>2. Acked' = Acked
      BY <1>1, <2>5, <3>1 DEF Acked, NoToolCall
    <3>3. head' + Owed' <= Acked' + faults'
      BY <2>1, <3>2
    <3>4. ReadersOnlyRead' /\ ~Pending'
      BY <1>1, <2>1, <2>2 DEF ReadersOnlyRead, Pending, NoToolCall
    <3>5. CommitIsTheChange'
      BY <1>1, <2>1, <2>2, <2>3, <3>1 DEF CommitIsTheChange
    <3>6. QED
      BY <1>1, <2>1, <2>2, <3>1, <3>3, <3>4, <3>5 DEF Committed
  <2>6. QED
    BY <2>4, <2>5
<1>9. QED
  BY <1>3, <1>5, <1>6, <1>7, <1>8 DEF LoopInv

LEMMA RecordFailsKeeps == LoopInv /\ RecordFails => LoopInv'
<1> SUFFICES ASSUME LoopInv, RecordFails PROVE LoopInv'
  OBVIOUS
<1>1. /\ UNCHANGED <<agent, call, spent, tree, sha, session, ran, rows, draft,
                     artifact>>
      /\ UNCHANGED llmVars
      /\ pc = "record" /\ pc' = "rerecord"
  BY DEF RecordFails, work, result
<1>2. faults' = faults + 1 /\ faults' \in 0 .. MaxFaults
  BY FaultCounts DEF RecordFails
<1>3. LLMInv' /\ llm'.pc = "idle"
  BY <1>1, UnderWay, LLMKeeps DEF llmVars
<1>4. TypeOK'
  BY <1>1, <1>2, <1>3, UnderWay DEF TypeOK, LLMInv, Points, tree
<1>5. Control'
  <2>1. PICK t : t = call.tool
    OBVIOUS
  <2>2. BudgetLeft' /\ (t # "none" => Allowed(t)' /\ ~PostCommit(t)')
    BY <1>1, <2>1, UnderWay, SameProfile DEF BudgetLeft, PostCommit
  <2>3. call'.tool # "none" => Allowed(call.tool)' /\ ~PostCommit(call.tool)'
    BY <1>1, <2>1, <2>2
  <2>4. session' = "ok"
    BY <1>1, UnderWay
  <2>5. QED
    BY <1>1, <1>3, <2>2, <2>3, <2>4 DEF Control
<1>6. Counted'
  <2>1. /\ ran \in Nat /\ rows \in Nat /\ faults \in Nat
        /\ ran' = ran /\ rows' = rows /\ spent' = spent
    BY <1>1, UnderWay, LoopTypes
  <2>2. /\ Missing = ran - rows - 1 /\ Missing' = ran - rows - 1
        /\ Owed = 0 /\ Owed' = 1
    BY <1>1, <2>1 DEF Missing, Owed
  <2>3. /\ 0 <= ran - rows - 1 /\ 2 * (ran - rows - 1) <= faults
        /\ rows <= spent.executed
    BY <1>1, <2>1, <2>2, UnderWay DEF Counted
  <2>4. QED
    BY <1>1, <1>2, <2>1, <2>2, <2>3 DEF Counted
<1>7. Committed'
  <2>1. /\ head \in Nat /\ faults \in Nat /\ head' = head /\ sha' = sha
        /\ pushed' = pushed /\ agent' = agent /\ call' = call
        /\ Owed = 0 /\ Owed' = 1 /\ head <= Acked + faults
    BY <1>1, UnderWay, LoopTypes DEF Owed, Committed, tree
  <2>2. (dirty' <=> dirty) /\ (Pending' <=> Pending) /\ Acked' = Acked
    BY <1>1 DEF tree, Pending, Acked
  <2>3. Acked \in Nat
    BY DEF Acked
  <2>4. head' + Owed' <= Acked' + faults'
    <3>1. Acked' = Acked
      BY <2>2
    <3>2. QED
      BY <1>2, <2>1, <2>3, <3>1
  <2>5. /\ ReadersOnlyRead
        /\ sha # 0 => sha = head /\ ~dirty
        /\ head > 1 => faults > 0
        /\ agent # "developer" => sha = 0
        /\ Pending => sha = 0 /\ head # 0 /\ ~dirty
    BY UnderWay, <1>1 DEF Committed, CommitIsTheChange
  <2>6. ReadersOnlyRead'
    BY <2>1, <2>5 DEF ReadersOnlyRead
  <2>7. head' > 1 => faults' > 0
    BY <1>2, <2>1
  <2>8. QED
    BY <1>1, <2>1, <2>2, <2>4, <2>5, <2>6, <2>7
       DEF Committed, CommitIsTheChange
<1>8. QED
  BY <1>3, <1>4, <1>5, <1>6, <1>7 DEF LoopInv

(* The row of a call is given up: tried again as FAILED, or left missing.  *)
LEMMA RowIsForgotten ==
    ASSUME LoopInv, UNCHANGED <<agent, tree, sha, ran, draft, artifact>>,
           UNCHANGED llmVars,
           pc = "rerecord", pc' \in {"propose", "failed"},
           call' = NoToolCall, session' \in {"ok", "broken"},
           spent' \in [executed : 0 .. MaxCalls,
                       rejections : 0 .. MaxRejections],
           faults' \in 0 .. MaxFaults,
           \/ /\ rows' = rows + 1 /\ faults' = faults
              /\ spent'.executed = spent.executed + 1
           \/ /\ rows' = rows /\ faults' = faults + 1
              /\ spent'.executed \in {spent.executed, spent.executed + 1}
    PROVE  LoopInv'
<1>1. LLMInv' /\ llm'.pc = "idle"
  BY UnderWay, LLMKeeps DEF llmVars
<1>2. /\ ran \in Nat /\ rows \in Nat /\ faults \in Nat /\ ran' = ran
      /\ spent.executed \in Nat
  BY UnderWay, LoopTypes
<1>3. PICK r \in {0, 1}, f \in {0, 1}, e \in {0, 1} :
         /\ rows' = rows + r /\ faults' = faults + f
         /\ spent'.executed = spent.executed + e
         /\ r + f = 1 /\ r <= e
  <2>1. CASE /\ rows' = rows + 1 /\ faults' = faults
             /\ spent'.executed = spent.executed + 1
    <3>1. /\ rows' = rows + 1 /\ faults' = faults + 0
          /\ spent'.executed = spent.executed + 1
          /\ 1 + 0 = 1 /\ 1 <= 1
      BY <1>2, <2>1
    <3>2. QED
      BY <3>1
  <2>2. CASE /\ rows' = rows /\ faults' = faults + 1
             /\ spent'.executed \in {spent.executed, spent.executed + 1}
    <3>1. PICK e \in {0, 1} : spent'.executed = spent.executed + e
      BY <1>2, <2>2
    <3>2. /\ rows' = rows + 0 /\ faults' = faults + 1
          /\ 0 + 1 = 1 /\ 0 <= e
      BY <1>2, <2>2
    <3>3. QED
      BY <3>1, <3>2
  <2>3. QED
    BY <2>1, <2>2
<1>4. TypeOK'
  <2>1. rows' \in Nat
    BY <1>2, <1>3
  <2>2. QED
    BY <1>1, <2>1, UnderWay
       DEF TypeOK, LLMInv, Points, Ended, NoToolCall, Outcomes, tree
<1>5. Control'
  BY <1>1 DEF Control, NoToolCall
<1>6. Counted'
  <2>1. /\ Missing = ran - rows - 1 /\ Missing' = ran - rows - r
        /\ Owed = 1 /\ Owed' = 0
    BY <1>2, <1>3 DEF Missing, Owed
  <2>2. /\ 0 <= ran - rows - 1 /\ 2 * (ran - rows - 1) + 1 <= faults
        /\ rows <= spent.executed
    BY <1>2, <2>1, UnderWay DEF Counted
  <2>3. Missing' >= 0 /\ 2 * Missing' + Owed' <= faults' + 0
    BY <1>2, <1>3, <2>1, <2>2
  <2>4. rows' <= spent'.executed
    BY <1>2, <1>3, <2>2
  <2>5. QED
    BY <2>3, <2>4 DEF Counted
<1>7. Committed'
  <2>1. /\ head \in Nat /\ head' = head /\ sha' = sha
        /\ pushed' = pushed /\ agent' = agent
        /\ Owed = 1 /\ Owed' = 0 /\ head + 1 <= Acked + faults
    BY UnderWay DEF Owed, Committed, tree
  <2>2. /\ ReadersOnlyRead
        /\ sha # 0 => sha = head /\ ~dirty
        /\ head > 1 => faults > 0
        /\ agent # "developer" => sha = 0
    BY UnderWay DEF Committed, CommitIsTheChange
  <2>3. (dirty' <=> dirty) /\ ~Pending'
    BY DEF tree, Pending, NoToolCall
  <2>4. PICK a \in {0, 1} : Acked = Acked' + a
    BY <2>1 DEF Acked, NoToolCall
  <2>5. PICK b \in {0, 1} : Acked' = b
    BY DEF Acked
  <2>6. head' + Owed' <= Acked' + faults'
    BY <1>2, <1>3, <2>1, <2>4, <2>5
  <2>7. head' > 1 => faults' > 0
    BY <1>2, <1>3, <2>1, <2>2
  <2>8. ReadersOnlyRead'
    BY <2>1, <2>2 DEF ReadersOnlyRead
  <2>9. QED
    BY <2>1, <2>2, <2>3, <2>6, <2>7, <2>8 DEF Committed, CommitIsTheChange
<1>8. QED
  BY <1>1, <1>4, <1>5, <1>6, <1>7 DEF LoopInv

LEMMA RerecordKeeps == LoopInv /\ (Rerecord \/ RerecordFails) => LoopInv'
<1>1. ASSUME LoopInv, Rerecord PROVE LoopInv'
  <2>1. /\ UNCHANGED <<agent, tree, sha, session, ran, draft, artifact,
                       faults>>
        /\ UNCHANGED llmVars
        /\ pc = "rerecord" /\ pc' = "propose" /\ rows' = rows + 1
        /\ call' = NoToolCall /\ Charge("EXECUTED")
    BY <1>1 DEF Rerecord, result
  <2>2. /\ spent' \in [executed : 0 .. MaxCalls,
                       rejections : 0 .. MaxRejections]
        /\ spent'.executed = spent.executed + 1
    BY <1>1, <2>1, UnderWay, ChargeCounts
  <2>3. session' \in {"ok", "broken"} /\ faults' \in 0 .. MaxFaults
    BY <1>1, <2>1, LoopTypes
  <2>4. QED
    BY <1>1, <2>1, <2>2, <2>3, RowIsForgotten
<1>2. ASSUME LoopInv, RerecordFails PROVE LoopInv'
  <2>1. /\ UNCHANGED <<agent, tree, sha, ran, rows, draft, artifact>>
        /\ UNCHANGED llmVars
        /\ pc = "rerecord" /\ call' = NoToolCall /\ PipelineRaises
    BY <1>2 DEF RerecordFails, result
  <2>2. faults' = faults + 1 /\ faults' \in 0 .. MaxFaults
    BY <1>2, FaultCounts DEF RerecordFails
  <2>3. /\ spent' \in [executed : 0 .. MaxCalls,
                       rejections : 0 .. MaxRejections]
        /\ spent'.executed \in {spent.executed, spent.executed + 1}
        /\ session' \in {"ok", "broken"} /\ pc' \in {"propose", "failed"}
    BY <1>2, <2>1, UnderWay, Raises
  <2>4. QED
    BY <1>2, <2>1, <2>2, <2>3, RowIsForgotten
<1>3. QED
  BY <1>1, <1>2

LEMMA CrashKeeps == LoopInv /\ Crash => LoopInv'
<1> SUFFICES ASSUME LoopInv, Crash PROVE LoopInv'
  OBVIOUS
<1>1. /\ UNCHANGED <<agent, call, spent, tree, sha, session, ran, rows, draft,
                     artifact>>
      /\ UNCHANGED llmVars
      /\ pc \notin Ended /\ pc' = "dead"
  BY DEF Crash, work, result
<1>2. faults' = faults + 1 /\ faults' \in 0 .. MaxFaults
  BY FaultCounts DEF Crash
<1>3. LLMInv'
  BY <1>1, LLMKeeps DEF LoopInv
<1>4. TypeOK'
  BY <1>1, <1>2, <1>3 DEF LoopInv, TypeOK, LLMInv, Points, Ended, tree
<1>5. Control'
  <2>1. PICK t : t = call.tool
    OBVIOUS
  <2>2. t # "none" => Allowed(t)' /\ ~PostCommit(t)'
    BY <1>1, <2>1, SameProfile DEF LoopInv, Control, PostCommit
  <2>3. call'.tool # "none" => Allowed(call.tool)' /\ ~PostCommit(call.tool)'
    BY <1>1, <2>1, <2>2
  <2>4. QED
    BY <1>1, <2>3 DEF Control
<1>6. Counted'
  <2>1. /\ ran \in Nat /\ rows \in Nat /\ faults \in Nat
        /\ ran' = ran /\ rows' = rows /\ spent' = spent
    BY <1>1, LoopTypes DEF LoopInv, TypeOK
  <2>2. PICK d \in {0, 1} : Missing = ran - rows - d /\ d <= 1
    BY <2>1 DEF Missing
  <2>3. Missing' = ran - rows /\ Owed' = 0
    BY <1>1, <2>1 DEF Missing, Owed
  <2>4. /\ 0 <= ran - rows - d /\ 2 * (ran - rows - d) <= faults
        /\ rows <= spent.executed
    <3>1. PICK e \in {0, 1} : Owed = e
      BY DEF Owed
    <3>2. /\ 0 <= ran - rows - d /\ 2 * (ran - rows - d) + e <= faults
          /\ rows <= spent.executed
      BY <1>1, <2>1, <2>2, <3>1 DEF LoopInv, Counted, Ended
    <3>3. QED
      BY <2>1, <3>2
  <2>5. QED
    BY <1>1, <1>2, <2>1, <2>2, <2>3, <2>4 DEF Counted
<1>7. Committed'
  <2>1. /\ head \in Nat /\ faults \in Nat /\ head' = head /\ sha' = sha
        /\ pushed' = pushed /\ agent' = agent /\ call' = call
        /\ Owed' = 0
    BY <1>1, LoopTypes DEF LoopInv, TypeOK, Owed, tree
  <2>2. (dirty' <=> dirty) /\ (Pending' <=> Pending)
    BY <1>1 DEF tree, Pending
  <2>3. Acked' = Acked /\ Acked \in Nat
    BY <1>1 DEF Acked
  <2>4. /\ ReadersOnlyRead
        /\ sha # 0 => sha = head /\ ~dirty
        /\ head > 1 => faults > 0
        /\ agent # "developer" => sha = 0
        /\ Pending => sha = 0 /\ head # 0 /\ ~dirty
        /\ head + Owed <= Acked + faults
    BY DEF LoopInv, Committed, CommitIsTheChange
  <2>5. head' + Owed' <= Acked' + faults'
    <3>1. PICK e \in {0, 1} : Owed = e
      BY DEF Owed
    <3>2. head + e <= Acked + faults
      BY <2>4, <3>1
    <3>3. Acked' = Acked
      BY <2>3
    <3>4. QED
      BY <1>2, <2>1, <2>3, <3>2, <3>3
  <2>6. ReadersOnlyRead' /\ (head' > 1 => faults' > 0)
    BY <1>2, <2>1, <2>4 DEF ReadersOnlyRead
  <2>7. QED
    BY <1>1, <2>1, <2>2, <2>4, <2>5, <2>6 DEF Committed, CommitIsTheChange
<1>8. QED
  BY <1>3, <1>4, <1>5, <1>6, <1>7 DEF LoopInv

-----------------------------------------------------------------------------
LEMMA LoopInit == Init => LoopInv
<1> SUFFICES ASSUME Init PROVE LoopInv
  OBVIOUS
<1>1. LLMInv /\ llm = NoCall
  BY LLMInit DEF Init, BuildProvider
<1>2. TypeOK
  BY <1>1, LoopAssumption
     DEF Init, TypeOK, LLMInv, Points, NoToolCall, Outcomes, Artifacts
<1>3. Control
  BY <1>1 DEF Init, Control, NoToolCall, NoCall
<1>4. Counted
  BY DEF Init, Counted, Missing, Owed
<1>5. Committed
  BY DEF Init, Committed, ReadersOnlyRead, CommitIsTheChange, Pending, Acked,
         Owed, NoToolCall
<1>6. QED
  BY <1>1, <1>2, <1>3, <1>4, <1>5 DEF LoopInv

LEMMA LoopNext == LoopInv /\ [Next]_vars => LoopInv'
<1> SUFFICES ASSUME LoopInv, [Next]_vars PROVE LoopInv'
  OBVIOUS
<1>1. CASE Progress
  BY <1>1, PromptKeeps, LLMStepKeeps, MalformedProposalKeeps, LLMFailsKeeps,
     FinalProposalKeeps, BudgetExhaustedKeeps, RefuseCallKeeps, DenyCallKeeps,
     CallOnBrokenSessionKeeps, AdmitCallKeeps, ExecuteKeeps, RecordKeeps,
     RerecordKeeps, SynthesizeKeeps, GiveUpKeeps
     DEF Progress
<1>2. CASE RecordFails \/ RerecordFails \/ CommitFails \/ Crash
  BY <1>2, RecordFailsKeeps, RerecordKeeps, CommitFailsKeeps, CrashKeeps
<1>3. CASE UNCHANGED vars
  <2>1. /\ UNCHANGED <<agent, pc, call, spent, head, dirty, pushed, sha>>
        /\ UNCHANGED <<session, ran, rows, draft, artifact, faults>>
        /\ UNCHANGED <<chain, strict, llm, asks>>
    BY <1>3 DEF vars, work, tree, result, llmVars
  <2>2. LLMInv'
    BY <2>1, LLMKeeps DEF LoopInv, llmVars
  <2>3. TypeOK' /\ Control'
    <3>1. TypeOK'
      BY <2>1, <2>2 DEF LoopInv, TypeOK, LLMInv
    <3>2. Profile' = Profile
      BY <2>1, SameProfile
    <3>3. Control'
      BY <2>1, <3>2
         DEF LoopInv, Control, BudgetLeft, Allowed, PostCommit, NoToolCall
    <3>4. QED
      BY <3>1, <3>3
  <2>4. Counted'
    BY <2>1 DEF LoopInv, Counted, Missing, Owed
  <2>5. Committed'
    BY <2>1 DEF LoopInv, Committed, ReadersOnlyRead, CommitIsTheChange,
       Pending, Acked, Owed
  <2>6. QED
    BY <2>2, <2>3, <2>4, <2>5 DEF LoopInv
<1>4. QED
  BY <1>1, <1>2, <1>3 DEF Next

(* A run, whatever its agent, bounds and faults, keeps its variables typed: *)
(* its counters within their bounds, its request to a model of the chain   *)
(* (agents/_budget.py, llm/fallback.py).                                   *)
THEOREM LoopTypesHold == Spec => []TypeOK
  BY LoopInit, LoopNext, LoopInvBounds, PTL DEF Spec

(* A request asks no model more often than the chain's retries around the  *)
(* model's own allow (llm/openai_compat.py, llm/fallback.py).              *)
THEOREM LoopRequestsBounded == Spec => []RequestsAreBounded
  BY LoopInit, LoopNext, LoopInvBounds, PTL DEF Spec

(* A request is given up for an availability error only after every model  *)
(* it may hop to was asked (llm/fallback.py).                              *)
THEOREM LoopGivesUpLast == Spec => []GivenUpLast
  BY LoopInit, LoopNext, LoopInvBounds, PTL DEF Spec

(* An executed call has its row but for the faults that can take it        *)
(* (execution/tool_pipeline.py).                                           *)
THEOREM LoopKeepsItsBooks == Spec => []CallsAreRecorded
  BY LoopInit, LoopNext, LoopInvBounds, PTL DEF Spec

(* The calls a run has recorded are within its budget (agents/_budget.py). *)
THEOREM LoopKeepsItsBudget == Spec => []CallsWithinBudget
  BY LoopInit, LoopNext, LoopInvBounds, PTL DEF Spec

(* Only the developer changes the worktree or the fork                     *)
(* (policies/engine.py, capabilities/registry.py).                         *)
THEOREM LoopReadersRead == Spec => []ReadersOnlyRead
  BY LoopInit, LoopNext, LoopInvBounds, PTL DEF Spec

(* The commit the developer names is the clean head, and the only one      *)
(* unless one was lost (agents/developer/agent.py).                        *)
THEOREM LoopCommitsOnce == Spec => []CommitIsTheChange
  BY LoopInit, LoopNext, LoopInvBounds, PTL DEF Spec

-----------------------------------------------------------------------------
(* The rest of what ImplementsGate needs: how often a run can commit.      *)
GateInv ==
    /\ pc \notin {"done", "failed"} => artifact = "none"
    /\ head <= spent.executed + spent.rejections
               + (IF pc \in {"record", "rerecord", "dead"} THEN 1 ELSE 0)

(* What ReviewGate sees of a run, and its steps with the slot of that run. *)
GateView == <<agent, tree, GateSlot, GateSummary, GateFaults>>
GateStep == (GateStatus # "NONE" => Gate!Next) \/ UNCHANGED Gate!vars

(* A slot that moves on, decides, or is told of its commit.                *)
Moved(slot, to) == [slot EXCEPT !.pc = to]
Decided(slot, target) == [slot EXCEPT !.pc = "apply", !.choice = target]
Told(slot, commit) == [slot EXCEPT !.pc = "work", !.sha = commit]

LEMMA GateSame ==
    ASSUME UNCHANGED agent
    PROVE  GateStatus' = GateStatus
  BY DEF GateStatus

LEMMA GateStutters ==
    ASSUME UNCHANGED GateView
    PROVE  GateStep
<1>1. GateStatus' = GateStatus
  BY GateSame DEF GateView
<1>2. UNCHANGED Gate!vars
  BY <1>1 DEF GateView, Gate!vars, Gate!tree, Gate!rows, tree
<1>3. QED
  BY <1>2 DEF GateStep

LEMMA GateFails ==
    ASSUME UNCHANGED <<agent, tree, GateSummary, GateFaults>>,
           GateSlot.pc = "work",
           GateSlot' = Decided(GateSlot, "FAILED")
    PROVE  GateStep
<1>1. GateStatus' = GateStatus
  BY GateSame
<1>2. Gate!AgentFails("run")
  BY <1>1 DEF Gate!AgentFails, Gate!Decide, Gate!tree, Gate!rows,
         tree, Moved, Decided, Told
<1>3. Gate!Next
  BY <1>2 DEF Gate!Next, Gate!WorkerFault
<1>4. QED
  BY <1>3 DEF GateStep

LEMMA GatePlans ==
    ASSUME UNCHANGED <<agent, tree, GateSummary, GateFaults>>,
           GateSlot.pc = "work", GateSlot.at = GateStatus,
           \/ /\ GateStatus = "PLANNING"
              /\ GateSlot' = Decided(GateSlot, "RESEARCHING")
           \/ /\ GateStatus = "RESEARCHING"
              /\ GateSlot' = Decided(GateSlot, "IMPLEMENTING")
    PROVE  GateStep
<1>1. GateStatus' = GateStatus
  BY GateSame
<1>2. Gate!PlanOrResearch("run")
  BY <1>1
     DEF Gate!PlanOrResearch, Gate!Decide, Gate!Working, Gate!tree, Gate!rows,
         tree, Moved, Decided, Told
<1>3. Gate!Next
  BY <1>2 DEF Gate!Next, Gate!Progress
<1>4. QED
  BY <1>3 DEF GateStep

LEMMA GateCrashes ==
    ASSUME UNCHANGED <<agent, tree, GateSummary>>,
           GateSlot.pc # "idle",
           GateSlot' = [pc |-> "idle", at |-> "NONE", sha |-> 0,
                        choice |-> "NONE"],
           GateFaults' = GateFaults + 1,
           GateFaults < MaxCalls + MaxRejections + 1
    PROVE  GateStep
<1>1. GateStatus' = GateStatus
  BY GateSame
<1>2. Gate!Crash("run")
  BY <1>1
     DEF Gate!Crash, Gate!Fault, Gate!IdleSlot, Gate!NoStatus, Gate!tree,
         Gate!rows, tree, Moved, Decided, Told
<1>3. Gate!Next
  BY <1>2 DEF Gate!Next, Gate!WorkerFault
<1>4. QED
  BY <1>3 DEF GateStep

LEMMA GateReads ==
    ASSUME UNCHANGED <<agent, tree, GateSummary, GateFaults>>,
           GateSlot.pc = "made",
           GateSlot' = Told(GateSlot, head)
    PROVE  GateStep
<1>1. GateStatus' = GateStatus
  BY GateSame
<1>2. Gate!ReadSha("run")
  BY <1>1 DEF Gate!ReadSha, Gate!tree, Gate!rows,
         tree, Moved, Decided, Told
<1>3. Gate!Next
  BY <1>2 DEF Gate!Next, Gate!Progress
<1>4. QED
  BY <1>3 DEF GateStep

LEMMA GateLosesAck ==
    ASSUME UNCHANGED <<agent, tree, GateSummary>>,
           GateSlot.pc = "made",
           GateSlot' = Moved(GateSlot, "work"),
           GateFaults' = GateFaults + 1,
           GateFaults < MaxCalls + MaxRejections + 1
    PROVE  GateStep
<1>1. GateStatus' = GateStatus
  BY GateSame
<1>2. Gate!LoseAck("run")
  BY <1>1 DEF Gate!LoseAck, Gate!Fault, Gate!tree, Gate!rows,
         tree, Moved, Decided, Told
<1>3. Gate!Next
  BY <1>2 DEF Gate!Next, Gate!WorkerFault
<1>4. QED
  BY <1>3 DEF GateStep

LEMMA GateWrites ==
    ASSUME UNCHANGED <<agent, GateSlot, GateSummary, GateFaults>>,
           GateStatus = "IMPLEMENTING",
           GateSlot.pc = "work", GateSlot.at = GateStatus, GateSlot.sha = 0,
           UNCHANGED <<head, pushed>>, dirty' = TRUE
    PROVE  GateStep
<1>1. GateStatus' = GateStatus
  BY GateSame
<1>2. Gate!WriteFile("run")
  BY <1>1 DEF Gate!WriteFile, Gate!Working, Gate!tree, Gate!rows,
         tree, Moved, Decided, Told
<1>3. Gate!Next
  BY <1>2 DEF Gate!Next, Gate!AgentChoice
<1>4. QED
  BY <1>3 DEF GateStep

LEMMA GateCommits ==
    ASSUME UNCHANGED <<agent, GateSummary, GateFaults>>,
           GateStatus = "IMPLEMENTING",
           GateSlot.pc = "work", GateSlot.at = GateStatus, GateSlot.sha = 0,
           GateSlot' = Moved(GateSlot, "made"),
           dirty, head < MaxCalls + MaxRejections,
           head' = head + 1, dirty' = FALSE, pushed' = pushed
    PROVE  GateStep
<1>1. GateStatus' = GateStatus
  BY GateSame
<1>2. Gate!Commit("run")
  BY <1>1 DEF Gate!Commit, Gate!Working, Gate!tree, Gate!rows,
         tree, Moved, Decided, Told
<1>3. Gate!Next
  BY <1>2 DEF Gate!Next, Gate!AgentChoice
<1>4. QED
  BY <1>3 DEF GateStep

LEMMA GatePushes ==
    ASSUME UNCHANGED <<agent, GateSlot, GateSummary, GateFaults>>,
           GateStatus = "IMPLEMENTING",
           GateSlot.pc = "work", GateSlot.at = GateStatus, 
           UNCHANGED <<head, dirty>>, pushed' = head
    PROVE  GateStep
<1>1. GateStatus' = GateStatus
  BY GateSame
<1>2. Gate!DeveloperPush("run")
  BY <1>1 DEF Gate!DeveloperPush, Gate!Working, Gate!tree, Gate!rows,
         tree, Moved, Decided, Told
<1>3. Gate!Next
  BY <1>2 DEF Gate!Next, Gate!AgentChoice
<1>4. QED
  BY <1>3 DEF GateStep

LEMMA GateFailsNoCommit ==
    ASSUME UNCHANGED <<agent, tree, GateFaults>>,
           GateStatus = "IMPLEMENTING",
           GateSlot.pc = "work", GateSlot.at = GateStatus, GateSlot.sha = 0,
           GateSlot' = Decided(GateSlot, "FAILED"),
           GateSummary' = [exists |-> TRUE, commit |-> 0]
    PROVE  GateStep
<1>1. GateStatus' = GateStatus
  BY GateSame
<1>2. Gate!FailNoCommit("run")
  BY <1>1
     DEF Gate!FailNoCommit, Gate!Decide, Gate!Working, Gate!tree, Gate!rows,
         tree, Moved, Decided, Told
<1>3. Gate!Next
  BY <1>2 DEF Gate!Next, Gate!Progress
<1>4. QED
  BY <1>3 DEF GateStep

LEMMA GateSynthesizes ==
    ASSUME UNCHANGED <<agent, tree, GateFaults>>,
           GateStatus = "IMPLEMENTING",
           GateSlot.pc = "work", GateSlot.at = GateStatus, GateSlot.sha # 0,
           GateSlot' = Decided(GateSlot, "TESTING"),
           GateSummary' = [exists |-> TRUE, commit |-> GateSlot.sha]
    PROVE  GateStep
<1>1. GateStatus' = GateStatus
  BY GateSame
<1>2. Gate!Synthesize("run")
  BY <1>1 DEF Gate!Synthesize, Gate!Decide, Gate!Working, Gate!tree, Gate!rows,
         tree, Moved, Decided, Told
<1>3. Gate!Next
  BY <1>2 DEF Gate!Next, Gate!Progress
<1>4. QED
  BY <1>3 DEF GateStep

-----------------------------------------------------------------------------
(* A slot that moves on.                                                   *)
LEMMA SlotMoves ==
    ASSUME NEW p, NEW a, NEW h, NEW c, NEW q, NEW d,
           NEW s, s = [pc |-> p, at |-> a, sha |-> h, choice |-> c]
    PROVE  /\ Moved(s, q) = [pc |-> q, at |-> a, sha |-> h, choice |-> c]
           /\ Decided(s, d) =
                [pc |-> "apply", at |-> a, sha |-> h, choice |-> d]
           /\ Told(s, d) =
                [pc |-> "work", at |-> a, sha |-> d, choice |-> c]
<1>1. Moved(s, q) = [pc |-> q, at |-> a, sha |-> h, choice |-> c]
  BY DEF Moved
<1>2. Decided(s, d) = [pc |-> "apply", at |-> a, sha |-> h, choice |-> d]
  <2>1. PICK t : t = [s EXCEPT !.pc = "apply"]
    OBVIOUS
  <2>2. t = [pc |-> "apply", at |-> a, sha |-> h, choice |-> c]
    BY <2>1
  <2>3. [t EXCEPT !.choice = d] =
           [pc |-> "apply", at |-> a, sha |-> h, choice |-> d]
    BY <2>2
  <2>4. Decided(s, d) = [t EXCEPT !.choice = d]
    BY <2>1 DEF Decided
  <2>5. QED
    BY <2>3, <2>4
<1>3. Told(s, d) = [pc |-> "work", at |-> a, sha |-> d, choice |-> c]
  <2>1. PICK t : t = [s EXCEPT !.pc = "work"]
    OBVIOUS
  <2>2. t = [pc |-> "work", at |-> a, sha |-> h, choice |-> c]
    BY <2>1
  <2>3. [t EXCEPT !.sha = d] =
           [pc |-> "work", at |-> a, sha |-> d, choice |-> c]
    BY <2>2
  <2>4. Told(s, d) = [t EXCEPT !.sha = d]
    BY <2>1 DEF Told
  <2>5. QED
    BY <2>3, <2>4
<1>4. QED
  BY <1>1, <1>2, <1>3

(* What ReviewGate sees in the states of a run.                            *)
AtWork == [pc |-> "work", at |-> GateStatus, sha |-> sha, choice |-> "NONE"]

LEMMA SlotAtWork ==
    /\ pc \notin Ended /\ ~Pending => GateSlot = AtWork
    /\ pc' \notin Ended /\ ~Pending' => GateSlot' = AtWork'
  BY DEF GateSlot, AtWork, Ended

LEMMA GateAgent ==
    ASSUME LoopInv
    PROVE  /\ GateStatus = "IMPLEMENTING" <=> agent = "developer"
           /\ GateStatus = "PLANNING" <=> agent = "planner"
           /\ GateStatus = "RESEARCHING" <=> agent = "research"
           /\ GateStatus \in {"IMPLEMENTING", "PLANNING", "RESEARCHING",
                             "NONE"}
  BY DEF GateStatus, LoopInv, TypeOK

LEMMA NothingPending ==
    ASSUME LoopInv
    PROVE  /\ pc \in {"propose", "synthesize", "execute"} => ~Pending
           /\ call' = NoToolCall => ~Pending'
  BY DEF LoopInv, Control, Pending, NoToolCall

LEMMA GateQuiet ==
    ASSUME UNCHANGED <<agent, tree, sha, artifact>>,
           pc \notin Ended, pc' \notin Ended, Pending' <=> Pending
    PROVE  GateStep
<1>1. GateStatus' = GateStatus
  BY GateSame
<1>2. GateSlot' = GateSlot
  BY <1>1 DEF GateSlot, Ended
<1>3. GateSummary' = GateSummary
  BY DEF GateSummary
<1>4. GateFaults' = GateFaults
  BY DEF GateFaults, Lost, Ended, tree
<1>5. QED
  BY <1>2, <1>3, <1>4, GateStutters DEF GateView

LEMMA GateFailing ==
    ASSUME UNCHANGED <<agent, tree, sha>>, GateSummary' = GateSummary,
           pc \notin Ended, pc' = "failed", ~Pending, ~Pending'
    PROVE  GateStep
<1>1. GateStatus' = GateStatus
  BY GateSame
<1>2. GateSlot = AtWork
  BY SlotAtWork
<1>3. GateSlot' = [pc |-> "apply", at |-> GateStatus, sha |-> sha,
                   choice |-> "FAILED"]
  BY <1>1 DEF GateSlot, GateVerdict
<1>4. GateSlot' = Decided(GateSlot, "FAILED")
  BY <1>2, <1>3, SlotMoves DEF AtWork
<1>5. GateSlot.pc = "work"
  BY <1>2 DEF AtWork
<1>6. GateFaults' = GateFaults
  BY DEF GateFaults, Lost, Ended, tree
<1>7. QED
  BY <1>4, <1>5, <1>6, GateFails

LEMMA GateLeaves ==
    ASSUME LoopInv, GateInv, LeaveLoop, pc = "propose",
           UNCHANGED <<agent, call, tree, sha>>
    PROVE  GateStep
<1>1. ~Pending /\ ~Pending' /\ pc \notin Ended
  <2>1. ~Pending
    BY NothingPending
  <2>2. QED
    BY <2>1 DEF Pending, Ended
<1>2. CASE ~(agent = "developer" /\ sha = 0)
  <2>1. pc' = "synthesize" /\ artifact' = artifact
    BY <1>2 DEF LeaveLoop
  <2>2. QED
    BY <1>1, <2>1, GateQuiet DEF Ended
<1>3. CASE agent = "developer" /\ sha = 0 /\ session = "ok"
  <2>1. pc' = "failed" /\ artifact' = "incomplete"
    BY <1>3 DEF LeaveLoop, FailNoCommit
  <2>2. GateStatus' = GateStatus /\ GateStatus = "IMPLEMENTING"
    BY <1>3, GateSame, GateAgent
  <2>3. GateSlot = AtWork
    BY <1>1, SlotAtWork
  <2>4. GateSlot' = [pc |-> "apply", at |-> GateStatus, sha |-> sha,
                     choice |-> "FAILED"]
    BY <2>1, <2>2 DEF GateSlot, GateVerdict
  <2>5. GateSlot' = Decided(GateSlot, "FAILED")
    BY <2>3, <2>4, SlotMoves DEF AtWork
  <2>6. /\ GateSlot.pc = "work" /\ GateSlot.at = GateStatus
        /\ GateSlot.sha = 0
    BY <1>3, <2>3 DEF AtWork
  <2>7. GateSummary' = [exists |-> TRUE, commit |-> 0]
    BY <1>3, <2>1 DEF GateSummary
  <2>8. GateFaults' = GateFaults
    BY <1>1, <2>1 DEF GateFaults, Lost, Ended, tree
  <2>9. QED
    BY <2>2, <2>5, <2>6, <2>7, <2>8, GateFailsNoCommit
<1>4. CASE agent = "developer" /\ sha = 0 /\ session # "ok"
  <2>1. pc' = "failed" /\ artifact' = artifact
    BY <1>4 DEF LeaveLoop, FailNoCommit
  <2>2. GateSummary' = GateSummary
    BY <2>1 DEF GateSummary
  <2>3. QED
    BY <1>1, <2>1, <2>2, GateFailing
<1>5. QED
  BY <1>2, <1>3, <1>4

LEMMA GatePersists ==
    ASSUME LoopInv, GateInv, pc = "synthesize",
           UNCHANGED <<agent, call, tree, sha>>,
           NEW kind \in {"complete", "unverified"}, Persist(kind)
    PROVE  GateStep
<1>1. ~Pending /\ ~Pending' /\ pc \notin Ended
  <2>1. ~Pending
    BY NothingPending
  <2>2. QED
    BY <2>1 DEF Pending, Ended
<1>2. CASE session # "ok"
  <2>1. pc' = "failed" /\ artifact' = artifact
    BY <1>2 DEF Persist
  <2>2. GateSummary' = GateSummary
    BY <2>1 DEF GateSummary
  <2>3. QED
    BY <1>1, <2>1, <2>2, GateFailing
<1>3. CASE session = "ok"
  <2>1. pc' = "done" /\ artifact' = kind /\ artifact = "none"
    BY <1>3 DEF Persist, GateInv
  <2>2. GateStatus' = GateStatus
    BY GateSame
  <2>3. GateSlot = AtWork
    BY <1>1, SlotAtWork
  <2>4. GateSlot.pc = "work" /\ GateSlot.at = GateStatus /\ GateSlot.sha = sha
    BY <2>3 DEF AtWork
  <2>5. GateSlot' = [pc |-> "apply", at |-> GateStatus, sha |-> sha,
                     choice |-> GateVerdict']
    BY <2>1, <2>2 DEF GateSlot
  <2>6. GateSlot' = Decided(GateSlot, GateVerdict')
    BY <2>3, <2>5, SlotMoves DEF AtWork
  <2>7. GateFaults' = GateFaults
    BY <1>1, <2>1 DEF GateFaults, Lost, Ended, tree
  <2>8. CASE agent = "developer"
    <3>1. GateVerdict' = "TESTING"
      BY <2>1, <2>8 DEF GateVerdict
    <3>2. sha # 0
      BY <2>8 DEF LoopInv, Committed
    <3>3. GateSummary' = [exists |-> TRUE, commit |-> sha]
      BY <2>1, <2>8 DEF GateSummary
    <3>4. GateStatus = "IMPLEMENTING"
      BY <2>8, GateAgent
    <3>5. QED
      BY <2>4, <2>6, <2>7, <3>1, <3>2, <3>3, <3>4, GateSynthesizes
  <2>9. CASE agent \in {"planner", "research"}
    <3>1. sha = 0
      BY <2>9 DEF LoopInv, Committed
    <3>2. GateSummary' = GateSummary
      BY <2>1, <2>9, <3>1 DEF GateSummary
    <3>3. \/ GateStatus = "PLANNING" /\ GateVerdict' = "RESEARCHING"
          \/ GateStatus = "RESEARCHING" /\ GateVerdict' = "IMPLEMENTING"
      BY <2>1, <2>9, GateAgent DEF GateVerdict
    <3>4. QED
      BY <2>4, <2>6, <2>7, <3>2, <3>3, GatePlans
  <2>10. CASE agent \notin {"developer", "planner", "research"}
    BY <2>10, GateAgent DEF GateStep
  <2>11. QED
    BY <2>8, <2>9, <2>10
<1>4. QED
  BY <1>2, <1>3

-----------------------------------------------------------------------------
(* How often a run can commit.                                             *)
LEMMA GateTypes ==
    ASSUME LoopInv
    PROVE  /\ head \in Nat /\ spent.executed \in Nat
           /\ spent.rejections \in Nat
           /\ spent.executed <= MaxCalls /\ spent.rejections <= MaxRejections
           /\ MaxCalls \in Nat /\ MaxRejections \in Nat
           /\ pc \in Points
           /\ call \in [tool : Tools \cup {"none"}, outcome : Outcomes]
  BY LoopAssumption DEF LoopInv, TypeOK

(* Every turn that is charged for is one more turn.                        *)
LEMMA ChargeAdds ==
    ASSUME LoopInv, NEW outcome, Charge(outcome)
    PROVE  /\ spent'.executed \in Nat /\ spent'.rejections \in Nat
           /\ spent'.executed + spent'.rejections =
                 spent.executed + spent.rejections + 1
<1>1. /\ spent \in [executed : 0 .. MaxCalls, rejections : 0 .. MaxRejections]
      /\ spent.executed \in Nat /\ spent.rejections \in Nat
  BY GateTypes, LoopTypes
<1>2. CASE spent' = [spent EXCEPT !.executed = @ + 1]
  BY <1>1, <1>2
<1>3. CASE spent' = [spent EXCEPT !.rejections = @ + 1]
  BY <1>1, <1>3
<1>4. QED
  BY <1>2, <1>3 DEF Charge

(* A step between two calls.                                               *)
LEMMA GateInvSettles ==
    ASSUME LoopInv, GateInv, head' = head,
           pc \in {"propose", "synthesize", "execute"},
           pc' \in {"propose", "synthesize", "execute", "done", "failed"},
           \/ spent' = spent
           \/ Charge("EXECUTED")
           \/ Charge("REJECTED"),
           pc' \in {"done", "failed"} \/ artifact' = artifact
    PROVE  GateInv'
<1>1. spent.executed + spent.rejections \in Nat
      /\ head \in Nat /\ head <= spent.executed + spent.rejections
  BY GateTypes DEF GateInv
<1>2. /\ spent'.executed + spent'.rejections \in Nat
      /\ spent'.executed + spent'.rejections >=
            spent.executed + spent.rejections
  <2>1. CASE spent' = spent
    BY <1>1, <2>1
  <2>2. CASE Charge("EXECUTED")
    BY <1>1, <2>2, ChargeAdds
  <2>3. CASE Charge("REJECTED")
    BY <1>1, <2>3, ChargeAdds
  <2>4. QED
    BY <2>1, <2>2, <2>3
<1>3. head' <= spent'.executed + spent'.rejections + 0
  BY <1>1, <1>2
<1>4. pc' \notin {"done", "failed"} => artifact' = "none"
  BY DEF GateInv
<1>5. QED
  BY <1>3, <1>4 DEF GateInv

(* A call is over, with or without a row.                                  *)
LEMMA GateInvRecords ==
    ASSUME LoopInv, GateInv, head' = head, artifact' = artifact,
           pc \in {"record", "rerecord"}, pc' \in {"propose", "failed"},
           Charge("EXECUTED") \/ Charge("REJECTED")
    PROVE  GateInv'
<1>1. /\ spent.executed + spent.rejections \in Nat
      /\ head \in Nat /\ head <= spent.executed + spent.rejections + 1
      /\ artifact = "none"
  BY GateTypes DEF GateInv
<1>2. spent'.executed + spent'.rejections =
         spent.executed + spent.rejections + 1
  BY ChargeAdds
<1>3. head' <= spent'.executed + spent'.rejections + 0
  BY <1>1, <1>2
<1>4. QED
  BY <1>1, <1>3 DEF GateInv

-----------------------------------------------------------------------------
(* A step between two calls, of a run that goes on.                        *)
LEMMA GoesOn ==
    ASSUME LoopInv, GateInv,
           UNCHANGED <<agent, call, tree, sha, artifact>>,
           pc \in {"propose", "synthesize"},
           pc' \in {"propose", "synthesize"},
           \/ spent' = spent
           \/ Charge("EXECUTED")
           \/ Charge("REJECTED")
    PROVE  GateStep /\ GateInv'
<1>1. GateInv'
  BY GateInvSettles DEF tree
<1>2. ~Pending /\ ~Pending'
  <2>1. ~Pending
    BY NothingPending
  <2>2. QED
    BY <2>1 DEF Pending
<1>3. GateStep
  BY <1>2, GateQuiet DEF Ended
<1>4. QED
  BY <1>1, <1>3

(* ... and of one that fails.                                              *)
LEMMA Fails ==
    ASSUME LoopInv, GateInv, UNCHANGED <<agent, call, tree, sha, spent>>,
           pc \in {"propose", "synthesize"}, pc' = "failed",
           \/ artifact' = artifact
           \/ agent = "planner" /\ artifact' \in {"none", "invalid"}
    PROVE  GateStep /\ GateInv'
<1>1. GateInv'
  BY GateInvSettles DEF tree
<1>2. ~Pending /\ ~Pending'
  <2>1. ~Pending
    BY NothingPending
  <2>2. QED
    BY <2>1 DEF Pending
<1>3. GateSummary' = GateSummary
  BY DEF GateSummary, GateInv
<1>4. GateStep
  BY <1>2, <1>3, GateFailing DEF Ended
<1>5. QED
  BY <1>1, <1>4

LEMMA AsksImplement ==
    LoopInv /\ GateInv /\ (Prompt \/ LLMStep) => GateStep /\ GateInv'
<1> SUFFICES ASSUME LoopInv, GateInv, Prompt \/ LLMStep
             PROVE  GateStep /\ GateInv'
  OBVIOUS
<1>1. /\ UNCHANGED <<agent, pc, call, spent, tree, sha, artifact>>
      /\ pc \in {"propose", "synthesize"}
  <2>1. CASE Prompt
    BY <2>1 DEF Prompt, work, result
  <2>2. CASE LLMStep
    <3>1. llm.pc = "asking"
      BY <2>2, LLMSteps DEF LoopInv, LLMStep
    <3>2. pc \in Points /\ pc \notin Ended
      BY <2>2, LoopTypes DEF LLMStep
    <3>3. QED
      BY <2>2, <3>1, <3>2
         DEF LLMStep, work, result, LoopInv, Control, Points, Ended
  <2>3. QED
    BY <2>1, <2>2
<1>2. QED
  BY <1>1, GoesOn

LEMMA TurnsImplement ==
    LoopInv /\ GateInv
    /\ (\/ MalformedProposal \/ RefuseCall
        \/ Ungrounded \/ InvalidPlan \/ MalformedArtifact)
    => GateStep /\ GateInv'
<1> SUFFICES ASSUME LoopInv, GateInv,
                    \/ MalformedProposal \/ RefuseCall
                    \/ Ungrounded \/ InvalidPlan \/ MalformedArtifact
             PROVE  GateStep /\ GateInv'
  OBVIOUS
<1>1. CASE MalformedProposal
  <2>1. /\ UNCHANGED <<agent, pc, call, tree, sha, artifact>>
        /\ pc = "propose" /\ (spent' = spent \/ Charge("EXECUTED"))
    BY <1>1 DEF MalformedProposal, work, result
  <2>2. QED
    BY <2>1, GoesOn
<1>2. CASE RefuseCall
  <2>1. /\ UNCHANGED <<agent, call, tree, sha, artifact>> /\ pc = "propose"
        /\ \/ pc' = pc /\ Charge("REJECTED")
           \/ pc' = "failed" /\ spent' = spent
    BY <1>2 DEF RefuseCall, Proposes, work, result
  <2>2. QED
    BY <2>1, GoesOn, Fails
<1>3. CASE Ungrounded \/ InvalidPlan \/ MalformedArtifact
  <2>1. /\ UNCHANGED <<agent, pc, call, spent, tree, sha, artifact>>
        /\ pc = "synthesize"
    BY <1>3 DEF Ungrounded, InvalidPlan, MalformedArtifact, Synthesizes, work
  <2>2. QED
    BY <2>1, GoesOn
<1>4. QED
  BY <1>1, <1>2, <1>3

LEMMA LeavingImplements ==
    LoopInv /\ GateInv /\ (FinalProposal \/ BudgetExhausted)
    => GateStep /\ GateInv'
<1> SUFFICES ASSUME LoopInv, GateInv, FinalProposal \/ BudgetExhausted
             PROVE  GateStep /\ GateInv'
  OBVIOUS
<1>0. UNCHANGED <<agent, call, spent, tree, sha>> /\ pc = "propose"
  BY DEF FinalProposal, BudgetExhausted, work
<1>1. LeaveLoop \/ (pc' = "failed" /\ artifact' = artifact)
  <2>1. CASE FinalProposal
    BY <2>1, Zenon DEF FinalProposal
  <2>2. CASE BudgetExhausted /\ session = "ok"
    BY <2>2, Zenon DEF BudgetExhausted
  <2>3. CASE BudgetExhausted /\ session # "ok"
    BY <2>3 DEF BudgetExhausted
  <2>4. QED
    BY <2>1, <2>2, <2>3
<1>2. CASE LeaveLoop
  <2>1. GateStep
    BY <1>0, <1>2, GateLeaves
  <2>2. /\ pc' \in {"synthesize", "failed"}
        /\ pc' = "failed" \/ artifact' = artifact
    BY <1>2 DEF LeaveLoop, FailNoCommit
  <2>3. GateInv'
    BY <1>0, <2>2, GateInvSettles DEF tree
  <2>4. QED
    BY <2>1, <2>3
<1>3. CASE pc' = "failed" /\ artifact' = artifact
  BY <1>0, <1>3, Fails
<1>4. QED
  BY <1>1, <1>2, <1>3

LEMMA FailuresImplement ==
    LoopInv /\ GateInv /\ (LLMFails \/ CommitFails) => GateStep /\ GateInv'
<1> SUFFICES ASSUME LoopInv, GateInv, LLMFails \/ CommitFails
             PROVE  GateStep /\ GateInv'
  OBVIOUS
<1>1. /\ UNCHANGED <<agent, call, spent, tree, sha>>
      /\ pc \in {"propose", "synthesize"} /\ pc' = "failed"
      /\ \/ artifact' = artifact
         \/ agent = "planner" /\ artifact' = "invalid"
  BY DEF LLMFails, CommitFails, work, result
<1>2. QED
  BY <1>1, Fails

LEMMA EndsImplement ==
    LoopInv /\ GateInv /\ (Complete \/ GiveUp) => GateStep /\ GateInv'
<1> SUFFICES ASSUME LoopInv, GateInv, Complete \/ GiveUp
             PROVE  GateStep /\ GateInv'
  OBVIOUS
<1>1. /\ UNCHANGED <<agent, call, spent, tree, sha>> /\ pc = "synthesize"
      /\ \/ \E kind \in {"complete", "unverified"} : Persist(kind)
         \/ /\ pc' = "failed"
            /\ artifact' = IF Profile.second = "invalid" THEN "invalid"
                           ELSE artifact
  BY DEF Complete, GiveUp, Synthesizes, work
<1>2. CASE \E kind \in {"complete", "unverified"} : Persist(kind)
  <2>1. PICK kind \in {"complete", "unverified"} : Persist(kind)
    BY <1>2
  <2>2. GateStep
    BY <1>1, <2>1, GatePersists
  <2>3. pc' \in {"done", "failed"}
    BY <2>1 DEF Persist
  <2>4. GateInv'
    BY <1>1, <2>3, GateInvSettles DEF tree
  <2>5. QED
    BY <2>2, <2>4
<1>3. CASE /\ pc' = "failed"
           /\ artifact' = IF Profile.second = "invalid" THEN "invalid"
                          ELSE artifact
  <2>1. Profile.second = "invalid" => agent = "planner"
    BY DEF Profile, LoopInv, TypeOK, Research, Developer, Debugger, Reviewer,
           Security
  <2>2. \/ artifact' = artifact
        \/ agent = "planner" /\ artifact' = "invalid"
    BY <1>3, <2>1
  <2>3. QED
    BY <1>1, <1>3, <2>2, Fails
<1>4. QED
  BY <1>1, <1>2, <1>3

(* The pipeline raises: the run goes on, or it is of an agent that is not  *)
(* mapped.                                                                 *)
LEMMA RaisingImplements ==
    LoopInv /\ GateInv /\ (DenyCall \/ CallOnBrokenSession)
    => GateStep /\ GateInv'
<1> SUFFICES ASSUME LoopInv, GateInv, DenyCall \/ CallOnBrokenSession
             PROVE  GateStep /\ GateInv'
  OBVIOUS
<1>1. /\ UNCHANGED <<agent, call, tree, sha, artifact>> /\ pc = "propose"
      /\ \/ pc' = "propose" /\ Charge("REJECTED")
         \/ pc' = "failed" /\ spent' = spent
  BY DEF DenyCall, CallOnBrokenSession, Proposes, PipelineRaises, result
<1>2. QED
  BY <1>1, GoesOn, Fails

LEMMA AdmitCallImplements ==
    ASSUME LoopInv, GateInv, NEW tool \in Tools, AdmitCall(tool)
    PROVE  GateStep /\ GateInv'
<1>1. /\ UNCHANGED <<agent, spent, tree, sha, artifact>>
      /\ pc = "propose" /\ pc' = "execute"
      /\ call' = [tool |-> tool, outcome |-> "none"]
  BY DEF AdmitCall, Proposes, work, result
<1>2. ~Pending /\ ~Pending'
  <2>1. ~Pending
    BY <1>1, NothingPending
  <2>2. QED
    BY <1>1, <2>1 DEF Pending
<1>3. GateStep
  BY <1>1, <1>2, GateQuiet DEF Ended
<1>4. GateInv'
  BY <1>1, GateInvSettles DEF tree
<1>5. QED
  BY <1>3, <1>4

-----------------------------------------------------------------------------
(* The call is executed: what the worktree and the fork see of it.         *)
LEMMA ExecuteImplements ==
    LoopInv /\ GateInv /\ Execute => GateStep /\ GateInv'
<1> SUFFICES ASSUME LoopInv, GateInv, Execute PROVE GateStep /\ GateInv'
  OBVIOUS
<1>1. /\ UNCHANGED <<agent, spent, sha, artifact>>
      /\ pc = "execute" /\ pc' = "record"
  BY DEF Execute, result
<1>2. PICK o \in Outcomes \ {"none"} :
         /\ call' = [call EXCEPT !.outcome = o]
         /\ IF o = "raised" THEN UNCHANGED tree
            ELSE /\ call.tool = "git.commit" => dirty
                 /\ Effect(call.tool)
  BY DEF Execute
<1>3. /\ call'.tool = call.tool /\ call'.outcome = o
      /\ o \in {"returned", "raised", "raised_after"}
      /\ ~Pending
  BY <1>1, <1>2, GateTypes, NothingPending DEF Outcomes
<1>4. /\ head \in Nat /\ head <= spent.executed + spent.rejections
      /\ spent.executed \in Nat /\ spent.rejections \in Nat
      /\ spent.executed < MaxCalls /\ spent.rejections <= MaxRejections
      /\ MaxCalls \in Nat /\ MaxRejections \in Nat
      /\ artifact = "none"
  BY <1>1, GateTypes, UnderWay DEF GateInv, BudgetLeft
<1>5. head' \in {head, head + 1}
  BY <1>2 DEF Effect, tree
<1>6. GateInv'
  <2>1. head' <= spent.executed + spent.rejections + 1
    BY <1>4, <1>5
  <2>2. QED
    BY <1>1, <1>4, <2>1 DEF GateInv
<1>7. CASE UNCHANGED tree /\ ~Pending'
  BY <1>1, <1>3, <1>7, <1>6, GateQuiet DEF Ended
<1>8. CASE o # "raised"
            /\ call.tool \in {"filesystem.write_file", "git.commit", "git.push"}
  <2>1. /\ agent = "developer"
        /\ call.tool # "git.push" => sha = 0
    BY <1>1, <1>8, UnderWay, ReadersTools DEF PostCommit
  <2>2. GateStatus' = GateStatus /\ GateStatus = "IMPLEMENTING"
    BY <1>1, <2>1, GateSame, GateAgent
  <2>3. GateSlot = AtWork
    BY <1>1, <1>3, SlotAtWork DEF Ended
  <2>4. /\ GateSlot.pc = "work" /\ GateSlot.at = GateStatus
        /\ GateSlot.sha = sha
    BY <2>3 DEF AtWork
  <2>5. GateSummary' = GateSummary
    BY <1>1 DEF GateSummary
  <2>6. CASE call.tool = "git.commit"
    <3>1. Pending' /\ sha = 0 /\ sha' = 0
      BY <1>1, <1>3, <1>8, <2>1, <2>6 DEF Pending
    <3>2. /\ dirty /\ dirty' = FALSE /\ head' = head + 1 /\ pushed' = pushed
      BY <1>2, <1>8, <2>6 DEF Effect
    <3>3. GateSlot' = [pc |-> "made", at |-> GateStatus, sha |-> sha,
                       choice |-> "NONE"]
      BY <1>1, <2>2, <3>1 DEF GateSlot
    <3>4. GateSlot' = Moved(GateSlot, "made")
      BY <2>3, <3>3, SlotMoves DEF AtWork
    <3>5. GateFaults' = GateFaults
      BY <1>1, <1>3, <1>4, <3>1, <3>2 DEF GateFaults, Lost
    <3>6. head < MaxCalls + MaxRejections
      BY <1>4
    <3>7. QED
      BY <1>1, <1>6, <2>2, <2>4, <2>5, <3>1, <3>2, <3>4, <3>5, <3>6,
         GateCommits
  <2>7. CASE call.tool # "git.commit"
    <3>1. ~Pending'
      BY <1>3, <2>7 DEF Pending
    <3>2. head' = head
      BY <1>2, <1>8, <2>7 DEF Effect
    <3>3. GateSlot' = GateSlot
      BY <1>1, <1>3, <2>2, <3>1 DEF GateSlot
    <3>4. GateFaults' = GateFaults
      BY <1>1, <1>3, <3>1, <3>2 DEF GateFaults, Lost
    <3>5. CASE call.tool = "filesystem.write_file"
      <4>1. dirty' = TRUE /\ pushed' = pushed /\ sha = 0
        BY <1>2, <1>8, <2>1, <3>5 DEF Effect
      <4>2. QED
        BY <1>1, <1>6, <2>2, <2>4, <2>5, <3>2, <3>3, <3>4, <4>1, GateWrites
    <3>6. CASE call.tool = "git.push"
      <4>1. dirty' = dirty /\ pushed' = head
        BY <1>2, <1>8, <3>6 DEF Effect
      <4>2. QED
        BY <1>1, <1>6, <2>2, <2>4, <2>5, <3>2, <3>3, <3>4, <4>1, GatePushes
    <3>7. QED
      BY <1>8, <2>7, <3>5, <3>6
  <2>8. QED
    BY <2>6, <2>7
<1>9. CASE o = "raised"
  <2>1. UNCHANGED tree /\ ~Pending'
    BY <1>2, <1>3, <1>9 DEF Pending
  <2>2. QED
    BY <1>7, <2>1
<1>10. CASE call.tool \notin {"filesystem.write_file", "git.commit", "git.push"}
  <2>1. UNCHANGED tree /\ ~Pending'
    BY <1>2, <1>3, <1>10 DEF Pending, Effect, tree
  <2>2. QED
    BY <1>7, <2>1
<1>11. QED
  BY <1>8, <1>9, <1>10

(* A commit whose row is about to be written: the run is told of it ...    *)
LEMMA PendingCommit ==
    ASSUME LoopInv, GateInv, Pending, pc \in {"record", "rerecord"}
    PROVE  /\ sha = 0 /\ head # 0 /\ head \in Nat
           /\ head <= MaxCalls + MaxRejections
           /\ MaxCalls \in Nat /\ MaxRejections \in Nat
           /\ GateSlot = [pc |-> "made", at |-> GateStatus, sha |-> 0,
                          choice |-> "NONE"]
           /\ GateSlot.pc = "made"
           /\ GateFaults = head - 1
           /\ artifact = "none"
<1>1. sha = 0 /\ head # 0
  BY DEF LoopInv, Committed
<1>2. /\ head \in Nat /\ head <= spent.executed + spent.rejections + 1
      /\ spent.executed \in Nat /\ spent.rejections \in Nat
      /\ spent.executed < MaxCalls /\ spent.rejections <= MaxRejections
      /\ MaxCalls \in Nat /\ MaxRejections \in Nat
  BY GateTypes, UnderWay DEF GateInv, BudgetLeft
<1>3. head <= MaxCalls + MaxRejections
  BY <1>2
<1>4. GateSlot = [pc |-> "made", at |-> GateStatus, sha |-> 0,
                  choice |-> "NONE"]
  BY <1>1 DEF GateSlot
<1>5. GateFaults = head - 1
  BY <1>2 DEF GateFaults, Lost
<1>6. QED
  BY <1>1, <1>2, <1>3, <1>4, <1>5 DEF GateInv

(* ... or it never is.                                                     *)
LEMMA GateForgets ==
    ASSUME LoopInv, GateInv, Pending, pc \in {"record", "rerecord"},
           UNCHANGED <<agent, tree, sha, artifact>>,
           call' = NoToolCall, pc' = "propose"
    PROVE  GateStep
<1>1. GateStatus' = GateStatus /\ ~Pending'
  BY GateSame, NothingPending
<1>2. GateSlot' = [pc |-> "work", at |-> GateStatus, sha |-> 0,
                   choice |-> "NONE"]
  BY <1>1, PendingCommit DEF GateSlot
<1>3. GateSlot' = Moved(GateSlot, "work")
  BY <1>2, PendingCommit, SlotMoves
<1>4. GateSummary' = GateSummary
  BY DEF GateSummary
<1>5. /\ GateFaults' = GateFaults + 1
      /\ GateFaults < MaxCalls + MaxRejections + 1
  <2>1. GateFaults' = head
    BY <1>1, PendingCommit DEF GateFaults, Lost, tree
  <2>2. QED
    BY <2>1, PendingCommit
<1>6. QED
  BY <1>3, <1>4, <1>5, PendingCommit, GateLosesAck

LEMMA RecordImplements ==
    LoopInv /\ GateInv /\ Record => GateStep /\ GateInv'
<1> SUFFICES ASSUME LoopInv, GateInv, Record PROVE GateStep /\ GateInv'
  OBVIOUS
<1>1. /\ UNCHANGED <<agent, tree, artifact>>
      /\ pc = "record" /\ pc' = "propose" /\ call' = NoToolCall
      /\ sha' = IF call = [tool |-> "git.commit", outcome |-> "returned"]
                THEN head ELSE sha
      /\ Charge("EXECUTED")
  BY DEF Record, result
<1>2. GateInv'
  BY <1>1, GateInvRecords DEF tree
<1>3. ~Pending'
  BY <1>1, NothingPending
<1>4. CASE call = [tool |-> "git.commit", outcome |-> "returned"]
  <2>1. Pending /\ sha' = head
    BY <1>1, <1>4 DEF Pending
  <2>2. GateStatus' = GateStatus
    BY <1>1, GateSame
  <2>3. GateSlot' = [pc |-> "work", at |-> GateStatus, sha |-> head,
                     choice |-> "NONE"]
    BY <1>1, <1>3, <2>1, <2>2 DEF GateSlot
  <2>4. GateSlot' = Told(GateSlot, head)
    BY <1>1, <2>1, <2>3, PendingCommit, SlotMoves
  <2>5. GateSummary' = GateSummary
    BY <1>1, <2>1, PendingCommit DEF GateSummary
  <2>6. GateFaults' = GateFaults
    BY <1>1, <1>3, <2>1, PendingCommit DEF GateFaults, Lost, tree
  <2>7. QED
    BY <1>1, <1>2, <2>1, <2>4, <2>5, <2>6, PendingCommit, GateReads
<1>5. CASE call # [tool |-> "git.commit", outcome |-> "returned"] /\ Pending
  BY <1>1, <1>2, <1>5, GateForgets
<1>6. CASE ~Pending
  <2>1. call # [tool |-> "git.commit", outcome |-> "returned"]
    BY <1>6 DEF Pending
  <2>2. QED
    BY <1>1, <1>2, <1>3, <1>6, <2>1, GateQuiet DEF Ended
<1>7. QED
  BY <1>4, <1>5, <1>6

LEMMA RecordFailsImplements ==
    LoopInv /\ GateInv /\ RecordFails => GateStep /\ GateInv'
<1> SUFFICES ASSUME LoopInv, GateInv, RecordFails PROVE GateStep /\ GateInv'
  OBVIOUS
<1>1. /\ UNCHANGED <<agent, call, spent, tree, sha, artifact>>
      /\ pc = "record" /\ pc' = "rerecord"
  BY DEF RecordFails, work, result
<1>2. Pending' <=> Pending
  BY <1>1 DEF Pending
<1>3. GateStep
  BY <1>1, <1>2, GateQuiet DEF Ended
<1>4. GateInv'
  BY <1>1 DEF GateInv, tree
<1>5. QED
  BY <1>3, <1>4

LEMMA RerecordImplements ==
    LoopInv /\ GateInv /\ (Rerecord \/ RerecordFails) => GateStep /\ GateInv'
<1> SUFFICES ASSUME LoopInv, GateInv, Rerecord \/ RerecordFails
             PROVE  GateStep /\ GateInv'
  OBVIOUS
<1>1. /\ UNCHANGED <<agent, tree, sha, artifact>>
      /\ pc = "rerecord" /\ call' = NoToolCall
      /\ \/ pc' = "propose" /\ (Charge("EXECUTED") \/ Charge("REJECTED"))
         \/ pc' = "failed" /\ spent' = spent /\ Profile.raised = "audits"
  BY DEF Rerecord, RerecordFails, PipelineRaises, result
<1>2. ~Pending'
  BY <1>1, NothingPending
<1>3. CASE pc' = "propose" /\ (Charge("EXECUTED") \/ Charge("REJECTED"))
  <2>1. GateInv'
    BY <1>1, <1>3, GateInvRecords DEF tree
  <2>2. CASE Pending
    BY <1>1, <1>3, <2>1, <2>2, GateForgets
  <2>3. CASE ~Pending
    BY <1>1, <1>2, <1>3, <2>1, <2>3, GateQuiet DEF Ended
  <2>4. QED
    BY <2>2, <2>3
<1>4. CASE pc' = "failed" /\ spent' = spent /\ Profile.raised = "audits"
  <2>1. agent \notin {"planner", "research", "developer"}
    BY <1>4 DEF Profile, Planner, Research, Developer
  <2>2. GateStep
    BY <2>1, GateAgent DEF GateStep
  <2>3. head = 0 /\ head' = 0
    BY <1>1, <2>1 DEF LoopInv, Committed, ReadersOnlyRead, tree
  <2>4. 0 <= spent.executed + spent.rejections + 0
    BY GateTypes
  <2>5. GateInv'
    BY <1>1, <1>4, <2>3, <2>4 DEF GateInv
  <2>6. QED
    BY <2>2, <2>5
<1>5. QED
  BY <1>1, <1>3, <1>4

LEMMA CrashImplements ==
    LoopInv /\ GateInv /\ Crash => GateStep /\ GateInv'
<1> SUFFICES ASSUME LoopInv, GateInv, Crash PROVE GateStep /\ GateInv'
  OBVIOUS
<1>1. /\ UNCHANGED <<agent, call, spent, tree, sha, artifact>>
      /\ pc \notin Ended /\ pc' = "dead"
  BY DEF Crash, work, result
<1>2. /\ head \in Nat /\ spent.executed + spent.rejections \in Nat
      /\ pc \in {"record", "rerecord"} =>
            head <= spent.executed + spent.rejections + 1
      /\ pc \notin {"record", "rerecord"} =>
            head <= spent.executed + spent.rejections
  BY <1>1, GateTypes DEF GateInv, Ended
<1>3. head' <= spent'.executed + spent'.rejections + 1
  BY <1>1, <1>2 DEF tree
<1>4. GateInv'
  BY <1>1, <1>3 DEF GateInv, Ended
<1>5. GateSlot.pc # "idle"
  BY <1>1 DEF GateSlot, Ended
<1>6. GateSlot' = [pc |-> "idle", at |-> "NONE", sha |-> 0,
                   choice |-> "NONE"]
  BY <1>1 DEF GateSlot
<1>7. GateSummary' = GateSummary
  BY <1>1 DEF GateSummary
<1>8. PICK d \in {0, 1} : Lost = head - d
  BY DEF Lost
<1>9. GateFaults = head - d /\ GateFaults' = head - d + 1
  <2>1. Pending' <=> Pending
    BY <1>1 DEF Pending
  <2>2. Lost' = Lost
    BY <1>1, <2>1 DEF Lost, tree
  <2>3. QED
    BY <1>1, <1>2, <1>8, <2>2 DEF GateFaults, Ended
<1>10. head < MaxCalls + MaxRejections + 1
  <2>1. /\ spent.executed \in Nat /\ spent.rejections \in Nat
        /\ spent.executed <= MaxCalls /\ spent.rejections <= MaxRejections
        /\ MaxCalls \in Nat /\ MaxRejections \in Nat
    BY GateTypes
  <2>2. CASE pc \in {"record", "rerecord"}
    <3>1. spent.executed < MaxCalls
      BY <2>2, UnderWay DEF BudgetLeft
    <3>2. QED
      BY <1>2, <2>1, <2>2, <3>1
  <2>3. CASE pc \notin {"record", "rerecord"}
    BY <1>2, <2>1, <2>3
  <2>4. QED
    BY <2>2, <2>3
<1>11. GateFaults' = GateFaults + 1
       /\ GateFaults < MaxCalls + MaxRejections + 1
  BY <1>2, <1>8, <1>9, <1>10, GateTypes
<1>12. QED
  BY <1>1, <1>4, <1>5, <1>6, <1>7, <1>11, GateCrashes

-----------------------------------------------------------------------------
LEMMA GateInit == Init => GateInv
<1> SUFFICES ASSUME Init PROVE GateInv
  OBVIOUS
<1>1. /\ artifact = "none" /\ head = 0 /\ spent.executed = 0
      /\ spent.rejections = 0 /\ pc \in {"propose", "synthesize"}
  BY DEF Init
<1>2. QED
  BY <1>1 DEF GateInv

LEMMA GateNext ==
    LoopInv /\ GateInv /\ [Next]_vars => GateStep /\ GateInv'
<1> SUFFICES ASSUME LoopInv, GateInv, [Next]_vars PROVE GateStep /\ GateInv'
  OBVIOUS
<1>1. CASE Progress
  BY <1>1, AsksImplement, TurnsImplement, LeavingImplements,
     FailuresImplement, EndsImplement, RaisingImplements, AdmitCallImplements,
     ExecuteImplements, RecordImplements, RerecordImplements DEF Progress
<1>2. CASE RecordFails \/ RerecordFails \/ CommitFails \/ Crash
  BY <1>2, RecordFailsImplements, RerecordImplements, FailuresImplement,
     CrashImplements
<1>3. CASE UNCHANGED vars
  <2>1. UNCHANGED <<agent, pc, call, spent, tree, sha, artifact>>
    BY <1>3 DEF vars, work, result
  <2>2. GateInv'
    BY <2>1 DEF GateInv, tree
  <2>3. UNCHANGED <<GateStatus, GateVerdict>> /\ (Pending' <=> Pending)
    BY <2>1 DEF GateStatus, GateVerdict, Pending
  <2>4. UNCHANGED <<GateSlot, GateSummary, GateFaults>>
    BY <2>1, <2>3 DEF GateSlot, GateSummary, GateFaults, Lost, tree
  <2>5. QED
    BY <2>1, <2>2, <2>4, GateStutters DEF GateView
<1>4. QED
  BY <1>1, <1>2, <1>3 DEF Next

(* A run of the planner, the researcher or the developer is, whatever its  *)
(* budgets and faults, a sequence of steps that ReviewGate knows: the same *)
(* commits and pushes, the same summary, the same verdict                  *)
(* (agents/developer/agent.py, runtime/task_lifecycle.py).                 *)
THEOREM LoopImplementsGate == Spec => ImplementsGate
<1>1. LoopInv /\ GateInv /\ [Next]_vars =>
         [(GateStatus # "NONE") => Gate!Next]_(Gate!vars)
  BY GateNext DEF GateStep
<1>2. QED
  BY <1>1, LoopInit, LoopNext, GateInit, GateNext, PTL
     DEF Spec, ImplementsGate

-----------------------------------------------------------------------------
(* A run nears its end.                                                    *)

(* Nothing that is left to do is overdrawn.                                *)
Measured ==
    /\ TurnsLeft \in Nat
    /\ StepsLeft \in Nat
    /\ CorrectionsLeft \in Nat
    /\ AskingLeft \in Nat
    /\ PassesLeft \in Nat
    /\ ModelsLeft \in Nat
    /\ RetriesLeft \in Nat

LEMMA StateMeasured == LoopInv => Measured
<1> SUFFICES ASSUME LoopInv
             PROVE  Measured
  OBVIOUS
<1>1. TurnsLeft \in Nat
  <2>1. /\ spent.executed \in 0 .. MaxCalls /\ MaxCalls \in Nat
        /\ spent.rejections \in 0 .. MaxRejections /\ MaxRejections \in Nat
    BY LoopAssumption DEF LoopInv, TypeOK
  <2>2. QED
    BY <2>1 DEF TurnsLeft
<1>2. StepsLeft \in Nat
  BY DEF LoopInv, TypeOK, StepsLeft, Points, Ended
<1>3. CorrectionsLeft \in Nat
  BY DEF LoopInv, TypeOK, CorrectionsLeft
<1>4. AskingLeft \in Nat
  BY DEF LoopInv, LLMInv, LLMTypeOK, Call, AskingLeft
<1>5. PassesLeft \in Nat /\ RetriesLeft \in Nat /\ ModelsLeft \in Nat
  <2>1. /\ llm.pass \in Nat /\ llm.attempt \in Nat /\ llm.model \in Nat
        /\ llm.pass <= MaxRetries /\ llm.attempt <= MaxRetries
        /\ MaxRetries \in Nat /\ chain \in Nat
        /\ llm.model \in 1 .. chain \/ llm.model = 1
    BY LLMAssumption DEF LoopInv, LLMInv, LLMTypeOK, Call
  <2>2. QED
    BY <2>1 DEF PassesLeft, RetriesLeft, ModelsLeft
<1>6. QED
  BY <1>1, <1>2, <1>3, <1>4, <1>5 DEF Measured

LEMMA NextMeasured == LoopInv' => Measured'
  BY StateMeasured, PTL

(* What is lowered by a turn, a step of the turn, a correction, a request. *)
LEMMA RankLowers ==
    ASSUME Measured, Measured',
           \/ TurnsLeft' < TurnsLeft
           \/ spent' = spent /\ StepsLeft' < StepsLeft
           \/ UNCHANGED <<spent, pc>> /\ CorrectionsLeft' < CorrectionsLeft
           \/ UNCHANGED <<spent, pc, draft>> /\ AskingLeft' < AskingLeft
           \/ /\ UNCHANGED <<spent, pc, draft>>
              /\ llm'.pc = llm.pc
              /\ \/ PassesLeft' < PassesLeft
                 \/ /\ PassesLeft' = PassesLeft
                    /\ \/ ModelsLeft' < ModelsLeft
                       \/ /\ ModelsLeft' = ModelsLeft
                          /\ RetriesLeft' < RetriesLeft
    PROVE  Below(7, ToDo', ToDo)
<1>1. spent' = spent => TurnsLeft' = TurnsLeft
  BY DEF TurnsLeft
<1>2. pc' = pc => StepsLeft' = StepsLeft
  BY DEF StepsLeft
<1>3. draft' = draft => CorrectionsLeft' = CorrectionsLeft
  BY DEF CorrectionsLeft
<1>4. llm'.pc = llm.pc => AskingLeft' = AskingLeft
  BY DEF AskingLeft
<1>5. ToDo \in Ranks(7) /\ ToDo' \in Ranks(7)
  BY DEF Measured, ToDo, Ranks
<1>6. /\ ToDo[1] = TurnsLeft /\ ToDo'[1] = TurnsLeft'
      /\ ToDo[2] = StepsLeft /\ ToDo'[2] = StepsLeft'
      /\ ToDo[3] = CorrectionsLeft /\ ToDo'[3] = CorrectionsLeft'
      /\ ToDo[4] = AskingLeft /\ ToDo'[4] = AskingLeft'
      /\ ToDo[5] = PassesLeft /\ ToDo'[5] = PassesLeft'
      /\ ToDo[6] = ModelsLeft /\ ToDo'[6] = ModelsLeft'
      /\ ToDo[7] = RetriesLeft /\ ToDo'[7] = RetriesLeft'
  BY DEF ToDo
<1>7. PICK i \in 1 .. 7 : /\ \A j \in 1 .. i - 1 : ToDo'[j] = ToDo[j]
                         /\ ToDo'[i] < ToDo[i]
  <2>1. CASE TurnsLeft' < TurnsLeft
    BY <1>6, <2>1
  <2>2. CASE spent' = spent /\ StepsLeft' < StepsLeft
    BY <1>1, <1>6, <2>2
  <2>3. CASE UNCHANGED <<spent, pc>> /\ CorrectionsLeft' < CorrectionsLeft
    BY <1>1, <1>2, <1>6, <2>3
  <2>4. CASE UNCHANGED <<spent, pc, draft>> /\ AskingLeft' < AskingLeft
    BY <1>1, <1>2, <1>3, <1>6, <2>4
  <2>5. CASE /\ UNCHANGED <<spent, pc, draft>>
             /\ llm'.pc = llm.pc
             /\ PassesLeft' < PassesLeft
    BY <1>1, <1>2, <1>3, <1>4, <1>6, <2>5
  <2>6. CASE /\ UNCHANGED <<spent, pc, draft>>
             /\ llm'.pc = llm.pc
             /\ PassesLeft' = PassesLeft
             /\ ModelsLeft' < ModelsLeft
    BY <1>1, <1>2, <1>3, <1>4, <1>6, <2>6
  <2>7. CASE /\ UNCHANGED <<spent, pc, draft>>
             /\ llm'.pc = llm.pc
             /\ PassesLeft' = PassesLeft
             /\ ModelsLeft' = ModelsLeft
             /\ RetriesLeft' < RetriesLeft
    BY <1>1, <1>2, <1>3, <1>4, <1>6, <2>7
  <2>8. QED
    BY <2>1, <2>2, <2>3, <2>4, <2>5, <2>6, <2>7
<1>8. QED
  BY <1>5, <1>7 DEF Below

(* A charge within the budget.                                             *)
LEMMA ChargeLowers ==
    ASSUME LoopInv, Measured, Measured', NEW outcome, Charge(outcome)
    PROVE  Below(7, ToDo', ToDo)
<1>1. /\ spent.executed \in Nat /\ spent.rejections \in Nat
      /\ MaxCalls \in Nat /\ MaxRejections \in Nat
  BY LoopAssumption DEF LoopInv, TypeOK
<1>2. /\ spent'.executed \in Nat /\ spent'.rejections \in Nat
      /\ spent'.executed + spent'.rejections =
            spent.executed + spent.rejections + 1
  BY ChargeAdds
<1>3. TurnsLeft' < TurnsLeft
  BY <1>1, <1>2 DEF TurnsLeft
<1>4. QED
  BY <1>3, RankLowers

(* The next step of the turn, or the end.                                  *)
LEMMA StepLowers ==
    ASSUME LoopInv, Measured, Measured', spent' = spent,
           \/ pc = "propose" /\ pc' \in {"execute", "synthesize", "failed"}
           \/ pc = "execute" /\ pc' = "record"
           \/ pc = "record" /\ pc' = "rerecord"
           \/ pc = "synthesize" /\ pc' \in {"done", "failed"}
           \/ pc = "rerecord" /\ pc' = "failed"
           \/ pc \notin Ended /\ pc' = "dead"
    PROVE  Below(7, ToDo', ToDo)
<1>1. pc \in Points
  BY DEF LoopInv, TypeOK
<1>2. StepsLeft' < StepsLeft
  BY <1>1 DEF StepsLeft, Points, Ended
<1>3. QED
  BY <1>2, RankLowers

LEMMA CorrectionLowers ==
    ASSUME LoopInv, Measured, Measured', UNCHANGED <<spent, pc>>,
           NEW kept, Correct(kept)
    PROVE  Below(7, ToDo', ToDo)
<1>1. draft.tries \in Nat /\ draft'.tries = draft.tries + 1
  BY DEF LoopInv, TypeOK, Correct
<1>2. CorrectionsLeft' < CorrectionsLeft
  BY <1>1 DEF CorrectionsLeft
<1>3. QED
  BY <1>2, RankLowers

(* A request comes to its end, or has a pass, a model or a retry less.     *)
RequestLowers ==
    \/ AskingLeft' < AskingLeft
    \/ /\ llm'.pc = llm.pc
       /\ \/ PassesLeft' < PassesLeft
          \/ /\ PassesLeft' = PassesLeft
             /\ \/ ModelsLeft' < ModelsLeft
                \/ /\ ModelsLeft' = ModelsLeft
                   /\ RetriesLeft' < RetriesLeft

LEMMA EndLowers ==
    ASSUME LLMTypeOK, llm.pc = "asking", NEW r, EndWith(r)
    PROVE  RequestLowers
<1>1. llm'.pc = "ended"
  BY DEF EndWith, LLMTypeOK, Call
<1>2. QED
  BY <1>1 DEF RequestLowers, AskingLeft

LEMMA RaiseLowers ==
    ASSUME LLMTypeOK, llm.pc = "asking", NEW error, Raise(error)
    PROVE  RequestLowers
<1>1. CASE error \in TransientError /\ llm.pass < MaxRetries
  <2>1. /\ llm.pass \in Nat /\ MaxRetries \in Nat
        /\ llm'.pass = llm.pass + 1 /\ llm'.pc = llm.pc
    BY <1>1, LLMAssumption DEF Raise, LLMTypeOK, Call
  <2>2. PassesLeft' < PassesLeft
    BY <2>1 DEF PassesLeft
  <2>3. QED
    BY <2>1, <2>2 DEF RequestLowers
<1>2. CASE ~(error \in TransientError /\ llm.pass < MaxRetries)
  BY <1>2, EndLowers DEF Raise
<1>3. QED
  BY <1>1, <1>2

LEMMA HopLowers ==
    ASSUME LLMTypeOK, llm.pc = "asking", chain' = chain,
           NEW error, NEW hops, Hop(error, hops)
    PROVE  RequestLowers
<1>1. CASE llm.model < chain
  <2>1. llm \in Call /\ chain \in Nat
    BY LLMAssumption DEF LLMTypeOK
  <2>2. llm' = [llm EXCEPT !.model = @ + 1, !.attempt = 0, !.hops = hops]
    BY <1>1 DEF Hop
  <2>3. /\ llm.model \in Nat
        /\ llm'.pass = llm.pass /\ llm'.pc = llm.pc
        /\ llm'.model = llm.model + 1
    BY <2>1, <2>2 DEF Call
  <2>4. ModelsLeft' < ModelsLeft
    BY <2>1, <2>3 DEF ModelsLeft
  <2>5. PassesLeft' = PassesLeft
    BY <2>3 DEF PassesLeft
  <2>6. QED
    BY <2>3, <2>4, <2>5 DEF RequestLowers
<1>2. CASE ~(llm.model < chain)
  BY <1>2, RaiseLowers DEF Hop
<1>3. QED
  BY <1>1, <1>2

LEMMA RetryLowers ==
    ASSUME LLMTypeOK, chain' = chain, llm.attempt < MaxRetries,
           llm' = [llm EXCEPT !.attempt = @ + 1]
    PROVE  RequestLowers
<1>1. /\ llm.attempt \in Nat /\ MaxRetries \in Nat
      /\ llm'.pass = llm.pass /\ llm'.pc = llm.pc
      /\ llm'.model = llm.model /\ llm'.attempt = llm.attempt + 1
  BY LLMAssumption DEF LLMTypeOK, Call
<1>2. /\ PassesLeft' = PassesLeft /\ ModelsLeft' = ModelsLeft
      /\ RetriesLeft' < RetriesLeft
  BY <1>1 DEF PassesLeft, ModelsLeft, RetriesLeft
<1>3. QED
  BY <1>1, <1>2 DEF RequestLowers

LEMMA LLMLowers ==
    ASSUME LLMTypeOK, LLMNext
    PROVE  RequestLowers
<1>1. chain' = chain /\ llm.pc = "asking"
  BY DEF LLMNext, NoModel, Answer, Malformed, Deprecated, Permanent, Transient,
         Reply
<1>2. CASE NoModel \/ Permanent
  BY <1>1, <1>2, RaiseLowers DEF NoModel, Permanent
<1>3. CASE Answer
  BY <1>1, <1>3, EndLowers DEF Answer
<1>4. CASE Malformed
  BY <1>1, <1>4, RaiseLowers, HopLowers DEF Malformed
<1>5. CASE Deprecated
  BY <1>1, <1>5, HopLowers DEF Deprecated
<1>6. CASE Transient
  BY <1>1, <1>6, HopLowers, RetryLowers DEF Transient
<1>7. QED
  BY <1>2, <1>3, <1>4, <1>5, <1>6 DEF LLMNext

(* Every step of the run, as they come.                                    *)
Free == MalformedProposal /\ Profile.budget = "calls"

LEMMA AskingNears ==
    ASSUME LoopInv, Measured, Measured', Prompt \/ LLMStep
    PROVE  Below(7, ToDo', ToDo)
<1>1. UNCHANGED <<spent, pc, draft>>
  BY DEF Prompt, LLMStep, result
<1>2. RequestLowers
  <2>1. CASE Prompt
    <3>1. llm.pc = "idle" /\ llm'.pc = "asking"
      BY <2>1 DEF Prompt, Ask, LoopInv, LLMInv, LLMTypeOK, Call
    <3>2. QED
      BY <3>1 DEF RequestLowers, AskingLeft
  <2>2. CASE LLMStep
    BY <2>2, LLMLowers DEF LLMStep, LoopInv, LLMInv
  <2>3. QED
    BY <2>1, <2>2
<1>3. QED
  BY <1>1, <1>2, RankLowers DEF RequestLowers

LEMMA LeavingNears ==
    ASSUME LoopInv, Measured, Measured',
           \/ LLMFails \/ FinalProposal \/ BudgetExhausted
           \/ Complete \/ GiveUp \/ CommitFails \/ Crash
    PROVE  Below(7, ToDo', ToDo)
<1>1. CASE LLMFails
  BY <1>1, StepLowers DEF LLMFails
<1>2. CASE FinalProposal
  BY <1>2, StepLowers DEF FinalProposal, LeaveLoop, FailNoCommit
<1>3. CASE BudgetExhausted
  BY <1>3, StepLowers DEF BudgetExhausted, LeaveLoop, FailNoCommit
<1>4. CASE Complete
  BY <1>4, StepLowers DEF Complete, Synthesizes, Persist
<1>5. CASE GiveUp
  BY <1>5, StepLowers DEF GiveUp, Persist
<1>6. CASE CommitFails
  BY <1>6, StepLowers DEF CommitFails
<1>7. CASE Crash
  BY <1>7, StepLowers DEF Crash
<1>8. QED
  BY <1>1, <1>2, <1>3, <1>4, <1>5, <1>6, <1>7

LEMMA TurnNears ==
    ASSUME LoopInv, Measured, Measured',
           \/ MalformedProposal \/ RefuseCall \/ DenyCall
           \/ CallOnBrokenSession \/ RerecordFails
           \/ Record \/ Rerecord \/ RecordFails \/ Execute
           \/ \E tool \in Tools : AdmitCall(tool)
    PROVE  Below(7, ToDo', ToDo) \/ Free
<1>1. CASE MalformedProposal
  BY <1>1, ChargeLowers DEF MalformedProposal, Free
<1>2. ASSUME PipelineRaises, pc \in {"propose", "rerecord"}
      PROVE  Below(7, ToDo', ToDo)
  BY <1>2, ChargeLowers, StepLowers DEF PipelineRaises
<1>3. CASE RefuseCall
  BY <1>3, ChargeLowers, StepLowers DEF RefuseCall, Proposes
<1>4. CASE DenyCall
  BY <1>2, <1>4, ChargeLowers DEF DenyCall, Proposes
<1>5. CASE CallOnBrokenSession
  BY <1>2, <1>5 DEF CallOnBrokenSession, Proposes
<1>6. CASE RerecordFails
  BY <1>2, <1>6 DEF RerecordFails
<1>7. CASE Record \/ Rerecord
  BY <1>7, ChargeLowers DEF Record, Rerecord
<1>8. CASE RecordFails
  BY <1>8, StepLowers DEF RecordFails
<1>9. CASE Execute
  BY <1>9, StepLowers DEF Execute
<1>10. CASE \E tool \in Tools : AdmitCall(tool)
  BY <1>10, StepLowers DEF AdmitCall, Proposes
<1>11. QED
  BY <1>1, <1>3, <1>4, <1>5, <1>6, <1>7, <1>8, <1>9, <1>10

LEMMA CorrectionNears ==
    ASSUME LoopInv, Measured, Measured',
           Ungrounded \/ InvalidPlan \/ MalformedArtifact
    PROVE  Below(7, ToDo', ToDo)
  BY CorrectionLowers DEF Ungrounded, InvalidPlan, MalformedArtifact

(* Whatever the models answer, the tools do and the database refuses, every *)
(* step of a run lowers its rank, but for the malformed proposals that no  *)
(* ToolBudget counts.  Such a proposal raises it, so that a run that keeps *)
(* meeting them may go on for ever; any other run is finite, for any       *)
(* budgets and any chain (agents/_budget.py, llm/fallback.py).             *)
THEOREM LoopNearsItsEnd == Spec => NearsItsEnd
<1>1. LoopInv /\ LoopInv' /\ [Next]_vars
         => [Below(7, ToDo', ToDo) \/ Free]_vars
  BY AskingNears, LeavingNears, TurnNears, CorrectionNears, StateMeasured,
     NextMeasured
     DEF Next, Progress
<1>2. QED
  BY <1>1, LoopInit, LoopNext, PTL DEF Spec, NearsItsEnd, Free
=============================================================================
