------------------------- MODULE PullRequestsProofs -------------------------
(***************************************************************************)
(* What holds of PullRequests for any number of agents at once, commits,   *)
(* retries and faults: the types, and that nothing but a push that nobody  *)
(* waits for comes between an approval and its merge; and for an agent     *)
(* that works alone: what it offers, that it merges once, and what every   *)
(* failure of its job has cost.                                            *)
(***************************************************************************)
EXTENDS PullRequests, SequenceTheorems, TLAPS

-----------------------------------------------------------------------------
(* Type correctness.                                                       *)

Others(w) == \A v \in Workers \ {w} : wk'[v] = wk[v]

(* What the moves of a slot do to it.                                      *)
LEMMA GotoEffect ==
    ASSUME wk \in [Workers -> Slot], NEW w \in Workers,
           NEW pc \in {"idle", "push", "find", "post", "persist", "offer",
                       "fail"},
           Goto(w, pc)
    PROVE  /\ wk' \in [Workers -> Slot]
           /\ wk'[w] = [wk[w] EXCEPT !.pc = pc, !.tries = 0]
           /\ Others(w)
<1>1. 0 \in 0 .. MaxRetries
  BY PullRequestsAssumption
<1>2. QED
  BY <1>1 DEF Goto, Slot, Others

LEMMA KeepEffect ==
    ASSUME wk \in [Workers -> Slot], NEW w \in Workers,
           NEW n \in Nat, NEW b \in Nat, Keep(w, n, b)
    PROVE  /\ wk' \in [Workers -> Slot]
           /\ wk'[w] = [pc |-> "persist", tries |-> 0, number |-> n,
                        base |-> b]
           /\ Others(w)
<1>1. 0 \in 0 .. MaxRetries
  BY PullRequestsAssumption
<1>2. QED
  BY <1>1 DEF Keep, Slot, Others

LEMMA FaultEffect ==
    ASSUME faults \in 0 .. MaxFaults, NEW kind, Fault(kind)
    PROVE  faults' \in 0 .. MaxFaults /\ faults' = faults + 1
  BY PullRequestsAssumption DEF Fault

LEMMA NoAnswerEffect ==
    ASSUME wk \in [Workers -> Slot], faults \in 0 .. MaxFaults,
           NEW w \in Workers, NoAnswer(w)
    PROVE  /\ wk' \in [Workers -> Slot]
           /\ wk'[w].pc \in {wk[w].pc, "fail"}
           /\ wk'[w].number = wk[w].number
           /\ Others(w)
           /\ faults' \in 0 .. MaxFaults /\ faults' = faults + 1
<1>1. faults' \in 0 .. MaxFaults /\ faults' = faults + 1
  BY FaultEffect DEF NoAnswer
<1>2. CASE Retries(wk[w].tries) /\ wk' = [wk EXCEPT ![w].tries = @ + 1]
  <2>1. wk[w].tries + 1 \in 0 .. MaxRetries
    BY <1>2, PullRequestsAssumption DEF Retries, Slot
  <2>2. QED
    BY <1>1, <1>2, <2>1 DEF Slot, Others
<1>3. CASE Goto(w, "fail")
  <2>1. /\ wk' \in [Workers -> Slot]
        /\ wk'[w] = [wk[w] EXCEPT !.pc = "fail", !.tries = 0]
        /\ Others(w)
    BY <1>3, GotoEffect
  <2>2. wk'[w].pc = "fail" /\ wk'[w].number = wk[w].number
    BY <2>1 DEF Slot
  <2>3. QED
    BY <1>1, <2>1, <2>2
<1>4. QED
  BY <1>2, <1>3 DEF NoAnswer

LEMMA IdleEffect ==
    ASSUME wk \in [Workers -> Slot], NEW w \in Workers,
           wk' = [wk EXCEPT ![w] = IdleSlot]
    PROVE  /\ wk' \in [Workers -> Slot]
           /\ wk'[w] = IdleSlot
           /\ Others(w)
<1>1. IdleSlot \in Slot
  BY PullRequestsAssumption DEF IdleSlot, Slot
<1>2. QED
  BY <1>1 DEF Others

(* A step of one slot that touches the lock only on its own behalf.        *)
LEMMA SlotStep ==
    ASSUME SlotsOK, NEW w \in Workers,
           wk' \in [Workers -> Slot], Others(w), merge' = merge,
           Len(prs) \in Nat, Len(prs') \in Nat, Len(prs) <= Len(prs'),
           wk'[w].number <= Len(prs'),
           wk'[w].pc = "push" <=> lock' = w,
           lock' = lock \/ {lock, lock'} \subseteq {Free, w}
    PROVE  SlotsOK'
<1>1. \A v \in Workers : wk'[v].number <= Len(prs')
  <2>1. SUFFICES ASSUME NEW v \in Workers \ {w}
                 PROVE  wk'[v].number <= Len(prs')
    OBVIOUS
  <2>2. wk'[v] \in Slot
    OBVIOUS
  <2>3. wk'[v].number \in Nat /\ wk'[v].number <= Len(prs)
    BY <2>2 DEF SlotsOK, Others, Slot
  <2>4. QED
    BY <2>3
<1>2. \A v \in Workers : wk'[v].pc = "push" <=> lock' = v
  <2>1. \A v \in Workers \ {w} :
           wk'[v].pc = "push" <=> lock = v
    BY DEF SlotsOK, Others
  <2>2. \A v \in Workers \ {w} : lock = v <=> lock' = v
    BY PullRequestsAssumption
  <2>3. QED
    BY <2>1, <2>2
<1>3. QED
  BY <1>1, <1>2, PullRequestsAssumption DEF SlotsOK

(* A step of the merge request.                                            *)
LEMMA MergeMove ==
    ASSUME SlotsOK, merge' \in Merge, wk' = wk,
           Len(prs') = Len(prs),
           merge'.pc # "idle" <=> lock' = Merger,
           lock' = lock \/ {lock, lock'} \subseteq {Free, Merger}
    PROVE  SlotsOK'
  BY PullRequestsAssumption DEF SlotsOK

LEMMA TypeInit == Init => TypeOK
<1> SUFFICES ASSUME Init
             PROVE  TypeOK
  OBVIOUS
<1>1. IdleSlot \in Slot /\ NoMerge \in Merge
  BY PullRequestsAssumption DEF IdleSlot, Slot, NoMerge, Merge
<1>2. prs \in Seq(PR) /\ Len(prs) = 0
  BY DEF Init
<1>3. landed \in Seq([commit : Commits, round : Commits])
  BY DEF Init
<1>4. SlotsOK
  BY <1>1, <1>2, PullRequestsAssumption
     DEF Init, SlotsOK, IdleSlot, NoMerge
<1>5. /\ fork \in Commits /\ head \in Commits /\ round \in Commits
      /\ reviewed \in Commits
      /\ faults \in 0 .. MaxFaults
  BY PullRequestsAssumption DEF Init, Commits
<1>6. stopped \in BOOLEAN /\ strayed \in BOOLEAN
  BY Zenon DEF Init
<1>7. row \in Row /\ row.number = 0
  BY DEF Init, Row
<1>8. QED
  BY <1>2, <1>3, <1>4, <1>5, <1>6, <1>7 DEF Init, TypeOK

(* What a slot's step must keep when it touches nothing else but the lock. *)
LEMMA GotoTyped ==
    ASSUME SlotsOK, NEW w \in Workers, Len(prs) \in Nat, prs' = prs,
           NEW pc \in {"idle", "push", "find", "post", "persist", "offer",
                       "fail"},
           Goto(w, pc), merge' = merge,
           pc = "push" <=> lock' = w,
           lock' = lock \/ {lock, lock'} \subseteq {Free, w}
    PROVE  SlotsOK'
<1>1. /\ wk' \in [Workers -> Slot]
      /\ wk'[w] = [wk[w] EXCEPT !.pc = pc, !.tries = 0]
      /\ Others(w)
  BY GotoEffect DEF SlotsOK
<1>2. wk[w] \in Slot /\ wk[w].number <= Len(prs)
  BY DEF SlotsOK
<1>3. wk'[w].pc = pc /\ wk'[w].number = wk[w].number
  BY <1>1, <1>2 DEF Slot
<1>4. wk'[w].number <= Len(prs') /\ Len(prs) <= Len(prs')
  BY <1>2, <1>3 DEF Slot
<1>5. QED
  BY <1>1, <1>3, <1>4, SlotStep

LEMMA NoAnswerTyped ==
    ASSUME SlotsOK, faults \in 0 .. MaxFaults, NEW w \in Workers,
           Len(prs) \in Nat, Len(prs') \in Nat, Len(prs) <= Len(prs'),
           NoAnswer(w), merge' = merge, lock' = lock, wk[w].pc # "push"
    PROVE  SlotsOK'
<1>1. /\ wk' \in [Workers -> Slot]
      /\ wk'[w].pc \in {wk[w].pc, "fail"}
      /\ wk'[w].number = wk[w].number
      /\ Others(w)
  BY NoAnswerEffect DEF SlotsOK
<1>2. wk[w].number \in Nat /\ wk[w].number <= Len(prs) /\ lock # w
  BY DEF SlotsOK, Slot
<1>3. wk'[w].number <= Len(prs')
  BY <1>1, <1>2
<1>4. wk'[w].pc # "push" /\ lock' # w
  BY <1>1, <1>2
<1>5. QED
  BY <1>1, <1>3, <1>4, SlotStep

LEMMA KeepTyped ==
    ASSUME SlotsOK, NEW w \in Workers,
           Len(prs) \in Nat, Len(prs') \in Nat, Len(prs) <= Len(prs'),
           NEW n \in Nat, n <= Len(prs'), NEW b \in Nat,
           Keep(w, n, b), merge' = merge, lock' = lock, wk[w].pc # "push"
    PROVE  SlotsOK'
<1>0. /\ wk' \in [Workers -> Slot]
      /\ wk'[w] = [pc |-> "persist", tries |-> 0, number |-> n, base |-> b]
      /\ Others(w)
  BY KeepEffect DEF SlotsOK
<1>1. /\ wk' \in [Workers -> Slot]
      /\ wk'[w].pc = "persist" /\ wk'[w].number = n
      /\ Others(w)
  BY <1>0
<1>2. lock # w
  BY DEF SlotsOK
<1>3. QED
  BY <1>1, <1>2, SlotStep

LEMMA IdleTyped ==
    ASSUME SlotsOK, NEW w \in Workers, Len(prs) \in Nat, prs' = prs,
           wk' = [wk EXCEPT ![w] = IdleSlot], merge' = merge, lock' # w,
           lock' = lock \/ {lock, lock'} \subseteq {Free, w}
    PROVE  SlotsOK'
<1>1. /\ wk' \in [Workers -> Slot]
      /\ wk'[w] = IdleSlot
      /\ Others(w)
  BY IdleEffect DEF SlotsOK
<1>2. wk'[w].pc = "idle" /\ wk'[w].number = 0
  BY <1>1 DEF IdleSlot
<1>3. 0 <= Len(prs') /\ Len(prs) <= Len(prs')
  OBVIOUS
<1>4. QED
  BY <1>1, <1>2, <1>3, SlotStep

(* The agent's steps keep the types.                                       *)
LEMMA AgentTyped ==
    ASSUME TypeOK, NEW w \in Workers, Agent(w)
    PROVE  TypeOK'
<1>0. /\ SlotsOK /\ faults \in 0 .. MaxFaults /\ prs \in Seq(PR)
      /\ Len(prs) \in Nat
  BY DEF TypeOK
<1>1. CASE Load(w)
  <2>1. SlotsOK'
    BY <1>0, <1>1, GotoTyped DEF Load, github
  <2>2. QED
    BY <1>1, <2>1 DEF TypeOK, Load, task, github, history
<1>2. CASE Push(w)
  <2>0. lock = w /\ lock' = Free /\ lock' # w
    BY <1>0, <1>2, PullRequestsAssumption DEF Push, SlotsOK
  <2>1. CASE /\ fork' = head /\ strayed' = (head # round)
             /\ Goto(w, "find") /\ faults' = faults
    <3>1. SlotsOK'
      BY <1>0, <1>2, <2>0, <2>1, GotoTyped DEF Push
    <3>2. strayed' \in BOOLEAN
      BY <2>1, Zenon
    <3>3. QED
      BY <1>2, <2>1, <3>1, <3>2 DEF TypeOK, Push, task
  <2>2. CASE /\ fork' \in {fork, head} /\ strayed' = strayed
             /\ Goto(w, "fail") /\ Fault("push_fails")
    <3>1. SlotsOK'
      BY <1>0, <1>2, <2>0, <2>2, GotoTyped DEF Push
    <3>2. faults' \in 0 .. MaxFaults
      BY <1>0, <2>2, FaultEffect
    <3>3. QED
      BY <1>2, <2>2, <3>1, <3>2 DEF TypeOK, Push, task
  <2>3. QED
    BY <1>2, <2>1, <2>2 DEF Push
<1>3. CASE FindOpenPR(w)
  <2>0. lock # w
    BY <1>0, <1>3 DEF FindOpenPR, SlotsOK
  <2>1. CASE (\E n \in OpenPRs : Keep(w, n, base)) /\ faults' = faults
    <3>1. PICK n \in OpenPRs : Keep(w, n, base)
      BY <2>1
    <3>2. n \in Nat /\ n <= Len(prs) /\ base \in Nat
      BY <1>0 DEF OpenPRs, TypeOK
    <3>3. SlotsOK'
      BY <1>0, <1>3, <3>1, <3>2, KeepTyped DEF FindOpenPR, github
    <3>4. QED
      BY <1>3, <2>1, <3>3 DEF TypeOK, FindOpenPR, task, github, history
  <2>2. CASE OpenPRs = {} /\ Goto(w, "post") /\ faults' = faults
    <3>1. SlotsOK'
      BY <1>0, <1>3, <2>0, <2>2, GotoTyped DEF FindOpenPR, github
    <3>2. QED
      BY <1>3, <2>2, <3>1 DEF TypeOK, FindOpenPR, task, github, history
  <2>3. CASE NoAnswer(w)
    <3>1. SlotsOK'
      BY <1>0, <1>3, <2>3, NoAnswerTyped DEF FindOpenPR, github
    <3>2. faults' \in 0 .. MaxFaults
      BY <1>0, <2>3, NoAnswerEffect DEF SlotsOK
    <3>3. QED
      BY <1>3, <3>1, <3>2 DEF TypeOK, FindOpenPR, task, github, history
  <2>4. QED
    BY <1>3, <2>1, <2>2, <2>3 DEF FindOpenPR
<1>4. CASE CreatePR(w)
  <2>0. lock # w /\ wk[w].pc # "push" /\ base \in Nat
    BY <1>0, <1>4 DEF CreatePR, SlotsOK, TypeOK
  <2>1. CASE prs' = Append(prs, [open |-> TRUE, merged |-> FALSE])
    <3>1. prs' \in Seq(PR) /\ Len(prs') = Len(prs) + 1
      BY <1>0, <2>1 DEF PR
    <3>2. CASE Keep(w, Len(prs'), base) /\ faults' = faults
      <4>1. SlotsOK'
        BY <1>0, <1>4, <2>0, <3>1, <3>2, KeepTyped DEF CreatePR
      <4>2. QED
        BY <1>0, <1>4, <3>1, <3>2, <4>1 DEF TypeOK, CreatePR, task, history, Row
    <3>3. CASE NoAnswer(w)
      <4>1. SlotsOK'
        BY <1>0, <1>4, <2>0, <3>1, <3>3, NoAnswerTyped DEF CreatePR
      <4>2. faults' \in 0 .. MaxFaults
        BY <1>0, <3>3, NoAnswerEffect DEF SlotsOK
      <4>3. QED
        BY <1>0, <1>4, <3>1, <4>1, <4>2 DEF TypeOK, CreatePR, task, history, Row
    <3>4. CASE prs' = prs
      BY <1>0, <3>1, <3>4
    <3>5. QED
      BY <1>4, <3>2, <3>3, <3>4 DEF CreatePR
  <2>2. CASE prs' = prs /\ Goto(w, "fail") /\ faults' = faults
    <3>1. SlotsOK'
      BY <1>0, <1>4, <2>0, <2>2, GotoTyped DEF CreatePR
    <3>2. QED
      BY <1>4, <2>2, <3>1 DEF TypeOK, CreatePR, task, history
  <2>3. CASE prs' = prs /\ NoAnswer(w)
    <3>1. SlotsOK'
      BY <1>0, <1>4, <2>0, <2>3, NoAnswerTyped DEF CreatePR
    <3>2. faults' \in 0 .. MaxFaults
      BY <1>0, <2>3, NoAnswerEffect DEF SlotsOK
    <3>3. QED
      BY <1>4, <2>3, <3>1, <3>2 DEF TypeOK, CreatePR, task, history
  <2>4. QED
    BY <1>4, <2>1, <2>2, <2>3 DEF CreatePR
<1>5. CASE Persist(w)
  <2>1. lock # w /\ wk[w] \in Slot /\ wk[w].number <= Len(prs)
    BY <1>0, <1>5 DEF Persist, SlotsOK
  <2>2. SlotsOK'
    BY <1>0, <1>5, <2>1, GotoTyped DEF Persist, github
  <2>3. row' \in Row /\ row'.number <= Len(prs)
    BY <1>5, <2>1 DEF Persist, Row, Slot
  <2>4. QED
    BY <1>5, <2>2, <2>3 DEF TypeOK, Persist, task, github, history
<1>6. CASE Apply(w)
  <2>1. lock # w
    BY <1>0, <1>6 DEF Apply, SlotsOK
  <2>2. SlotsOK'
    BY <1>0, <1>6, <2>1, IdleTyped DEF Apply, github
  <2>3. QED
    BY <1>6, <2>2 DEF TypeOK, Apply, github
<1>7. QED
  BY <1>1, <1>2, <1>3, <1>4, <1>5, <1>6 DEF Agent

(* A push that nobody waits for is one of a commit of the branch.          *)
LEMMA StrayTyped ==
    ASSUME TypeOK, NEW w \in Workers, AbandonPush(w)
    PROVE  stray' \subseteq Commits
  BY DEF TypeOK, AbandonPush

LEMMA AgentFaultTyped ==
    ASSUME TypeOK, NEW w \in Workers, AgentFault(w)
    PROVE  TypeOK'
<1>0. /\ SlotsOK /\ faults \in 0 .. MaxFaults /\ prs \in Seq(PR)
      /\ Len(prs) \in Nat
  BY DEF TypeOK
<1>1. CASE PersistFails(w)
  <2>1. lock # w /\ faults' \in 0 .. MaxFaults
    BY <1>0, <1>1, FaultEffect DEF PersistFails, SlotsOK
  <2>2. SlotsOK'
    BY <1>0, <1>1, <2>1, GotoTyped DEF PersistFails, github
  <2>3. QED
    BY <1>1, <2>1, <2>2 DEF TypeOK, PersistFails, task, github, history
<1>2. CASE JobDies(w)
  <2>1. lock' # w /\ (lock' = lock \/ {lock, lock'} \subseteq {Free, w})
    BY <1>2, PullRequestsAssumption DEF JobDies
  <2>2. SlotsOK'
    BY <1>0, <1>2, <2>1, IdleTyped DEF JobDies
  <2>3. faults' \in 0 .. MaxFaults /\ stray' \subseteq Commits
    BY <1>0, <1>2, FaultEffect, StrayTyped DEF JobDies
  <2>4. QED
    BY <1>2, <2>2, <2>3 DEF TypeOK, JobDies, history
<1>3. CASE Restart(w)
  <2>1. SlotsOK'
    BY <1>0, <1>3 DEF SlotsOK, Restart, github
  <2>2. QED
    BY <1>3, <2>1 DEF TypeOK, Restart, github, history
<1>4. CASE WorkerCrash(w)
  <2>1. lock' # w /\ (lock' = lock \/ {lock, lock'} \subseteq {Free, w})
    BY <1>4, PullRequestsAssumption DEF WorkerCrash
  <2>2. SlotsOK'
    BY <1>0, <1>4, <2>1, IdleTyped DEF WorkerCrash
  <2>3. faults' \in 0 .. MaxFaults /\ stray' \subseteq Commits
    BY <1>0, <1>4, FaultEffect, StrayTyped DEF WorkerCrash
  <2>4. QED
    BY <1>4, <2>2, <2>3 DEF TypeOK, WorkerCrash, task, history
<1>5. CASE Deadline(w)
  <2>1. lock' # w /\ {lock, lock'} \subseteq {Free, w}
    BY <1>5, PullRequestsAssumption DEF Deadline
  <2>2. SlotsOK'
    BY <1>0, <1>5, <2>1, IdleTyped DEF Deadline
  <2>3. faults' \in 0 .. MaxFaults /\ stray' \subseteq Commits
    BY <1>0, <1>5, FaultEffect, StrayTyped DEF Deadline
  <2>4. QED
    BY <1>5, <2>2, <2>3 DEF TypeOK, Deadline
<1>6. QED
  BY <1>1, <1>2, <1>3, <1>4, <1>5 DEF AgentFault

(* GitHub changes a pull request, never how many there are.                *)
LEMMA ChangePR ==
    ASSUME NEW ps \in Seq(PR), NEW n, NEW pr \in PR
    PROVE  /\ [ps EXCEPT ![n] = pr] \in Seq(PR)
           /\ Len([ps EXCEPT ![n] = pr]) = Len(ps)
<1>1. CASE n \in 1 .. Len(ps)
  BY <1>1, ExceptSeq
<1>2. CASE n \notin 1 .. Len(ps)
  <2>1. [ps EXCEPT ![n] = pr] = ps
    BY <1>2
  <2>2. QED
    BY <2>1
<1>3. QED
  BY <1>1, <1>2

LEMMA OutsideTyped ==
    ASSUME TypeOK, Human \/ Elsewhere
    PROVE  TypeOK'
<1>0. /\ SlotsOK /\ faults \in 0 .. MaxFaults /\ prs \in Seq(PR)
      /\ Len(prs) \in Nat
  BY DEF TypeOK
<1>1. CASE UNCHANGED <<wk, lock, merge, prs>>
  <2>1. SlotsOK'
    BY <1>0, <1>1 DEF SlotsOK
  <2>2. CASE Approve
    BY <2>1, <2>2 DEF TypeOK, Approve, github
  <2>3. CASE Reject
    BY <2>1, <2>3 DEF TypeOK, Reject, github, history
  <2>4. CASE Cancel
    BY <2>1, <2>4 DEF TypeOK, Cancel, github, history
  <2>5. CASE TimeoutMark
    <3>1. faults' \in 0 .. MaxFaults
      BY <1>0, <2>5, FaultEffect DEF TimeoutMark
    <3>2. QED
      BY <2>1, <2>5, <3>1 DEF TypeOK, TimeoutMark, github, history
  <2>6. CASE Resume
    <3>1. head' \in Commits
      BY <2>6, PullRequestsAssumption DEF TypeOK, Resume, Commits
    <3>2. QED
      BY <2>1, <2>6, <3>1 DEF TypeOK, Resume, history
  <2>7. CASE LateCommit
    <3>1. head' \in Commits
      BY <2>7, PullRequestsAssumption DEF TypeOK, LateCommit, Commits
    <3>2. faults' \in 0 .. MaxFaults
      BY <1>0, <2>7, FaultEffect DEF LateCommit
    <3>3. QED
      BY <2>1, <2>7, <3>1, <3>2 DEF TypeOK, LateCommit, history
  <2>8. CASE StrayPush
    <3>1. strayed' \in BOOLEAN
      BY <2>8, Zenon DEF StrayPush
    <3>2. fork' \in Commits /\ stray' \subseteq Commits
      BY <2>8 DEF TypeOK, StrayPush
    <3>3. QED
      BY <2>1, <2>8, <3>1, <3>2 DEF TypeOK, StrayPush, task
  <2>9. CASE ClosePR
    BY <1>1, <2>1, <2>9 DEF TypeOK, ClosePR, task, history
  <2>10. CASE BaseMoves
    BY <2>1, <2>10 DEF TypeOK, BaseMoves, task, history
  <2>11. QED
    BY <2>2, <2>3, <2>4, <2>5, <2>6, <2>7, <2>8, <2>9, <2>10
       DEF Human, Elsewhere
<1>2. CASE ClosePR
  <2>1. PICK n \in OpenPRs : prs' = [prs EXCEPT ![n].open = FALSE]
    BY <1>2 DEF ClosePR
  <2>2. n \in DOMAIN prs /\ prs[n] \in PR
    BY <1>0, <2>1 DEF OpenPRs
  <2>a. [prs[n] EXCEPT !.open = FALSE] \in PR
    BY <2>2 DEF PR
  <2>b. prs' = [prs EXCEPT ![n] = [prs[n] EXCEPT !.open = FALSE]]
    BY <2>1
  <2>3. prs' \in Seq(PR) /\ Len(prs') = Len(prs)
    BY <1>0, <2>a, <2>b, ChangePR
  <2>4. SlotsOK'
    BY <1>0, <1>2, <2>3 DEF SlotsOK, ClosePR
  <2>5. QED
    BY <1>2, <2>3, <2>4 DEF TypeOK, ClosePR, task, history
<1>3. QED
  BY <1>1, <1>2 DEF Human, Elsewhere, Approve, Reject, Cancel, TimeoutMark,
                    Resume, LateCommit, StrayPush, BaseMoves, github

LEMMA LeaveTyped ==
    ASSUME SlotsOK, Len(prs') = Len(prs), merge.pc # "idle", wk' = wk, Leave
    PROVE  SlotsOK'
<1>1. NoMerge \in Merge /\ NoMerge.pc = "idle"
  BY PullRequestsAssumption DEF NoMerge, Merge
<1>2. merge' \in Merge /\ merge'.pc = "idle" /\ lock' = Free /\ lock = Merger
  BY <1>1 DEF Leave, SlotsOK
<1>3. QED
  BY <1>2, MergeMove, PullRequestsAssumption

(* GitHub's half of the merge.                                             *)
LEMMA GitHubTyped ==
    ASSUME TypeOK, GitHubMerges
    PROVE  /\ prs' \in Seq(PR) /\ Len(prs') = Len(prs)
           /\ base' \in Nat
           /\ landed' \in Seq([commit : Commits, round : Commits])
<1>1. [open |-> FALSE, merged |-> TRUE] \in PR
  BY DEF PR
<1>2. prs' \in Seq(PR) /\ Len(prs') = Len(prs)
  BY <1>1, ChangePR DEF TypeOK, GitHubMerges
<1>3. QED
  BY <1>2 DEF TypeOK, GitHubMerges

LEMMA PutUnansweredTyped ==
    ASSUME SlotsOK, faults \in 0 .. MaxFaults, Len(prs') = Len(prs),
           merge.pc = "put", wk' = wk, PutUnanswered
    PROVE  SlotsOK' /\ faults' \in 0 .. MaxFaults
<1>1. faults' \in 0 .. MaxFaults
  BY FaultEffect DEF PutUnanswered
<1>2. CASE Leave
  BY <1>1, <1>2, LeaveTyped
<1>3. CASE /\ Retries(merge.tries)
           /\ merge' = [merge EXCEPT !.tries = @ + 1]
           /\ lock' = lock
  <2>1. merge' \in Merge /\ merge'.pc = "put"
    BY <1>3, PullRequestsAssumption DEF SlotsOK, Merge, Retries
  <2>2. lock = Merger
    BY DEF SlotsOK
  <2>3. QED
    BY <1>1, <1>3, <2>1, <2>2, MergeMove
<1>4. QED
  BY <1>2, <1>3 DEF PutUnanswered

LEMMA MergeTyped ==
    ASSUME TypeOK, BeginMerge \/ MergeStep \/ MergeFails
    PROVE  TypeOK'
<1>0. /\ SlotsOK /\ faults \in 0 .. MaxFaults /\ prs \in Seq(PR)
      /\ Len(prs) \in Nat
  BY DEF TypeOK
<1>a. 0 \in 0 .. MaxRetries
  BY PullRequestsAssumption
<1>1. CASE BeginMerge
  <2>1. merge' \in Merge /\ merge'.pc = "fetch" /\ lock' = Merger /\ lock = Free
    BY <1>1, <1>a DEF BeginMerge, Merge
  <2>2. SlotsOK'
    BY <1>0, <1>1, <2>1, MergeMove DEF BeginMerge, github
  <2>3. QED
    BY <1>1, <2>2 DEF TypeOK, BeginMerge, task, github, history
<1>2. CASE CheckFresh
  <2>1. CASE Leave
    <3>1. SlotsOK'
      BY <1>0, <1>2, <2>1, LeaveTyped DEF CheckFresh, github
    <3>2. QED
      BY <1>2, <3>1 DEF TypeOK, CheckFresh, task, github, history
  <2>2. CASE merge' = [pc |-> "put", tries |-> 0] /\ lock' = lock
    <3>1. merge' \in Merge /\ merge'.pc = "put" /\ lock = Merger
      BY <1>0, <1>2, <2>2, <1>a DEF CheckFresh, Merge, SlotsOK
    <3>2. SlotsOK'
      BY <1>0, <1>2, <2>2, <3>1, MergeMove DEF CheckFresh, github
    <3>3. QED
      BY <1>2, <3>2 DEF TypeOK, CheckFresh, task, github, history
  <2>3. QED
    BY <1>2, <2>1, <2>2 DEF CheckFresh
<1>3. CASE PutMerge
  <2>1. CASE GitHubMerges
    <3>1. /\ prs' \in Seq(PR) /\ Len(prs') = Len(prs) /\ base' \in Nat
          /\ landed' \in Seq([commit : Commits, round : Commits])
      BY <2>1, GitHubTyped
    <3>2. CASE PutUnanswered
      <4>1. SlotsOK' /\ faults' \in 0 .. MaxFaults
        BY <1>0, <1>3, <3>1, <3>2, PutUnansweredTyped DEF PutMerge
      <4>2. QED
        BY <1>3, <3>1, <4>1 DEF TypeOK, PutMerge, task
    <3>3. CASE /\ merge' = [pc |-> "record", tries |-> 0] /\ lock' = lock
               /\ faults' = faults
      <4>1. merge' \in Merge /\ merge'.pc = "record" /\ lock = Merger
        BY <1>0, <1>3, <3>3, <1>a DEF PutMerge, Merge, SlotsOK
      <4>2. SlotsOK'
        BY <1>0, <1>3, <3>1, <3>3, <4>1, MergeMove DEF PutMerge
      <4>3. QED
        BY <1>3, <3>1, <3>3, <4>2 DEF TypeOK, PutMerge, task
    <3>4. CASE Leave /\ UNCHANGED <<prs, base, landed, faults>>
      <4>1. SlotsOK'
        BY <1>0, <1>3, <3>4, LeaveTyped DEF PutMerge
      <4>2. QED
        BY <1>3, <3>4, <4>1 DEF TypeOK, PutMerge, task
    <3>5. QED
      BY <1>3, <3>2, <3>3, <3>4 DEF PutMerge
  <2>2. CASE Leave /\ UNCHANGED <<prs, base, landed, faults>>
    <3>1. SlotsOK'
      BY <1>0, <1>3, <2>2, LeaveTyped DEF PutMerge
    <3>2. QED
      BY <1>3, <2>2, <3>1 DEF TypeOK, PutMerge, task
  <2>3. CASE PutUnanswered /\ UNCHANGED <<prs, base, landed>>
    <3>1. SlotsOK' /\ faults' \in 0 .. MaxFaults
      BY <1>0, <1>3, <2>3, PutUnansweredTyped DEF PutMerge
    <3>2. QED
      BY <1>3, <2>3, <3>1 DEF TypeOK, PutMerge, task
  <2>4. QED
    BY <1>3, <2>1, <2>2, <2>3 DEF PutMerge
<1>4. CASE RecordMerge
  <2>1. SlotsOK'
    BY <1>0, <1>4, LeaveTyped DEF RecordMerge, github
  <2>2. row' \in Row /\ row'.number = row.number
    BY <1>4 DEF TypeOK, RecordMerge, Row
  <2>3. QED
    BY <1>4, <2>1, <2>2 DEF TypeOK, RecordMerge, task, github, history
<1>5. CASE MergeFails
  <2>1. SlotsOK'
    BY <1>0, <1>5, LeaveTyped DEF MergeFails, github
  <2>2. faults' \in 0 .. MaxFaults
    BY <1>0, <1>5, FaultEffect DEF MergeFails
  <2>3. QED
    BY <1>5, <2>1, <2>2 DEF TypeOK, MergeFails, task, github, history
<1>6. QED
  BY <1>1, <1>2, <1>3, <1>4, <1>5 DEF MergeStep

LEMMA StutterTyped ==
    ASSUME TypeOK, UNCHANGED vars
    PROVE  TypeOK'
  BY DEF TypeOK, SlotsOK, vars, task, github, history

LEMMA TypeStep == TypeOK /\ [Next]_vars => TypeOK'
<1> SUFFICES ASSUME TypeOK, [Next]_vars
             PROVE  TypeOK'
  OBVIOUS
<1>1. CASE \E w \in Workers : Agent(w) \/ AgentFault(w)
  BY <1>1, AgentTyped, AgentFaultTyped
<1>2. CASE Human \/ Elsewhere
  BY <1>2, OutsideTyped
<1>3. CASE BeginMerge \/ MergeStep \/ MergeFails
  BY <1>3, MergeTyped
<1>4. CASE UNCHANGED vars
  BY <1>4, StutterTyped
<1>5. QED
  BY <1>1, <1>2, <1>3, <1>4 DEF Next

(* The variables keep their types, and the row lock is held by an agent    *)
(* that pushes or by the merge request, for any number of agents at once.  *)
THEOREM TypeCorrect == Spec => []TypeOK
<1>1. QED
  BY TypeInit, TypeStep, PTL DEF Spec
-----------------------------------------------------------------------------
(* What is merged.  While a merge is under way the task stays COMPLETED,   *)
(* because the request holds the row; while an agent pushes, the task      *)
(* stays in PR_CREATION for the same reason; so between the approval and   *)
(* the merge no agent moves the branch, only a push that nobody waits for. *)
BranchIsHeld ==
    /\ merge.pc # "idle" => status = "COMPLETED"
    /\ lock \in Workers => status = "PR_CREATION"
    /\ status = "COMPLETED" =>
          decision = "approve" /\ (fork = reviewed \/ strayed)

LEMMA HeldInit == Init => BranchIsHeld
  BY PullRequestsAssumption DEF Init, BranchIsHeld, NoMerge

LEMMA HeldByAgent ==
    ASSUME TypeOK, BranchIsHeld, NEW w \in Workers, Agent(w) \/ AgentFault(w)
    PROVE  BranchIsHeld'
<1>0. /\ SlotsOK /\ Free \notin Workers /\ Free # Merger
      /\ merge.pc # "idle" <=> lock = Merger
      /\ wk[w].pc = "push" <=> lock = w
  BY PullRequestsAssumption DEF TypeOK, SlotsOK
<1>1. CASE Load(w)
  BY <1>0, <1>1 DEF Load, BranchIsHeld, task, github, history
<1>2. CASE Push(w)
  BY <1>0, <1>2 DEF Push, BranchIsHeld, task
<1>3. CASE FindOpenPR(w)
  BY <1>3 DEF FindOpenPR, BranchIsHeld, task, github, history
<1>4. CASE CreatePR(w)
  BY <1>4 DEF CreatePR, BranchIsHeld, task, history
<1>5. CASE Persist(w)
  BY <1>5 DEF Persist, BranchIsHeld, task, github, history
<1>6. CASE Apply(w)
  BY <1>0, <1>6 DEF Apply, BranchIsHeld, github
<1>7. CASE PersistFails(w)
  BY <1>7 DEF PersistFails, BranchIsHeld, task, github, history
<1>8. CASE WorkerCrash(w)
  BY <1>0, <1>8 DEF WorkerCrash, BranchIsHeld, task, history
<1>9. CASE Deadline(w)
  BY <1>0, <1>9 DEF Deadline, BranchIsHeld
<1>10. CASE JobDies(w)
  BY <1>0, <1>10 DEF JobDies, BranchIsHeld, history
<1>11. CASE Restart(w)
  BY <1>11 DEF Restart, BranchIsHeld, github, history
<1>12. QED
  BY <1>1, <1>2, <1>3, <1>4, <1>5, <1>6, <1>7, <1>8, <1>9, <1>10, <1>11
     DEF Agent, AgentFault

LEMMA HeldByOthers ==
    ASSUME TypeOK, BranchIsHeld,
           Human \/ Elsewhere \/ BeginMerge \/ MergeStep \/ MergeFails
    PROVE  BranchIsHeld'
<1>0. /\ SlotsOK /\ Free \notin Workers /\ Free # Merger
      /\ Merger \notin Workers
      /\ merge.pc # "idle" <=> lock = Merger
  BY PullRequestsAssumption DEF TypeOK, SlotsOK
<1>1. CASE Human
  BY <1>0, <1>1 DEF Human, Approve, Reject, Cancel, BranchIsHeld, github,
                    history
<1>2. CASE Elsewhere
  BY <1>0, <1>2 DEF Elsewhere, TimeoutMark, Resume, LateCommit, StrayPush,
                    ClosePR, BaseMoves, BranchIsHeld, task, github, history
<1>3. CASE BeginMerge
  BY <1>0, <1>3 DEF BeginMerge, BranchIsHeld, task, github, history
<1>4. CASE MergeStep \/ MergeFails
  <2>1. lock = Merger /\ status = "COMPLETED" /\ merge.pc # "idle"
    BY <1>0, <1>4 DEF MergeStep, CheckFresh, PutMerge, RecordMerge,
                      MergeFails, BranchIsHeld
  <2>2. UNCHANGED <<status, decision, fork, reviewed, strayed>>
    BY <1>4 DEF MergeStep, CheckFresh, PutMerge, RecordMerge, MergeFails,
                task, github, history
  <2>3. lock' \in {Merger, Free}
    BY <2>1, <1>4 DEF MergeStep, CheckFresh, PutMerge, PutUnanswered,
                      RecordMerge, MergeFails, Leave
  <2>4. QED
    BY <1>0, <2>1, <2>2, <2>3 DEF BranchIsHeld
<1>5. QED
  BY <1>1, <1>2, <1>3, <1>4

LEMMA HeldStep == TypeOK /\ BranchIsHeld /\ [Next]_vars => BranchIsHeld'
<1> SUFFICES ASSUME TypeOK, BranchIsHeld, [Next]_vars
             PROVE  BranchIsHeld'
  OBVIOUS
<1>1. CASE \E w \in Workers : Agent(w) \/ AgentFault(w)
  BY <1>1, HeldByAgent
<1>2. CASE UNCHANGED vars
  BY <1>2 DEF BranchIsHeld, vars, task, github, history
<1>3. QED
  BY <1>1, <1>2, HeldByOthers DEF Next

(* The landing step itself.                                                *)
LEMMA Landing ==
    ASSUME TypeOK, BranchIsHeld, [Next]_vars, landed' # landed
    PROVE  /\ decision = "approve"
           /\ Len(landed') = Len(landed) + 1
           /\ landed'[Len(landed')].commit = reviewed \/ strayed
<1> DEFINE merged == [commit |-> fork, round |-> round]
<1>1. PutMerge /\ GitHubMerges
  BY DEF Next, Agent, AgentFault, Human, Elsewhere, MergeStep, Load, Push,
         FindOpenPR, CreatePR, Persist, Apply, PersistFails, JobDies, Restart,
         WorkerCrash, Deadline, Approve, Reject, Cancel, TimeoutMark, Resume,
         LateCommit, StrayPush, ClosePR, BaseMoves, BeginMerge, CheckFresh,
         PutMerge, RecordMerge, MergeFails, vars, history
<1>2. decision = "approve" /\ (fork = reviewed \/ strayed)
  BY <1>1 DEF PutMerge, BranchIsHeld
<1>3. merged \in [commit : Commits, round : Commits]
  BY DEF TypeOK
<1>4. /\ landed \in Seq([commit : Commits, round : Commits])
      /\ landed' = Append(landed, merged)
  BY <1>1 DEF TypeOK, GitHubMerges
<1>5. Len(landed') = Len(landed) + 1
  BY <1>3, <1>4
<1>6. landed'[Len(landed')] = merged
  BY <1>3, <1>4
<1>7. QED
  BY <1>2, <1>5, <1>6

(* For any number of agents at once, whatever is lost or dies on the way:  *)
(* every merge has the latest approval behind it, and it is the approved   *)
(* commit that lands, unless a push that nobody waits for (one abandoned   *)
(* by its job, a late duplicate developer's) has reached GitHub since the  *)
(* approval; the agents themselves cannot move the branch between the two  *)
(* (github_tools.py, GitHubMergePrTool; git_tools.py, PushTool).           *)
THEOREM Approved == Spec => LandsWhatWasApproved
<1>1. TypeOK /\ BranchIsHeld /\ [Next]_vars
         => [landed' # landed =>
               /\ decision = "approve"
               /\ Len(landed') = Len(landed) + 1
               /\ landed'[Len(landed')].commit = reviewed \/ strayed]_vars
  BY Landing
<1>2. QED
  BY <1>1, TypeInit, TypeStep, HeldInit, HeldStep, PTL
     DEF Spec, LandsWhatWasApproved
-----------------------------------------------------------------------------
(* What holds as long as one job at a time runs the GitHub agent: what the *)
(* human is offered is fresh, no approval is merged twice, and PR creation *)
(* fails for faults of its own time only.  With two agents each of them    *)
(* can fail.                                                               *)

(* At most one job runs the agent.                                         *)
OneSlot == \A v, w \in Workers : v = w

-----------------------------------------------------------------------------
(* The offer.  An agent at work is the task's, unless the user has         *)
(* cancelled meanwhile, so the branch it has pushed stays at the round's   *)
(* commit, or has been moved by a stray push or a late commit; the agent   *)
(* opens a pull request only where none is open, so an open one is the     *)
(* newest; and nothing is merged before the approval.                      *)

Newest(n) == n = Len(prs) /\ n # 0 /\ ~prs[n].merged

AgentIsCurrent(w) ==
    /\ wk[w].pc # "idle" => status = "PR_CREATION" \/ stopped
    /\ wk[w].pc \in {"find", "post", "persist", "offer"} =>
          fork = round \/ strayed
    /\ wk[w].pc = "persist" => Newest(wk[w].number)
    /\ wk[w].pc = "offer" => Newest(row.number) /\ ~row.merged

OpenIsNewest ==
    \A n \in DOMAIN prs : prs[n].open => n = Len(prs) /\ ~prs[n].merged

OfferStands ==
    status = "AWAITING_APPROVAL" =>
       (fork = round \/ strayed) /\ Newest(row.number) /\ ~row.merged

Fresh ==
    /\ stopped => status = "FAILED"
    /\ \A w \in Workers : AgentIsCurrent(w)
    /\ OpenIsNewest
    /\ OfferStands

(* Where a slot goes.                                                      *)
LEMMA GotoPc ==
    ASSUME wk \in [Workers -> Slot], NEW w \in Workers,
           NEW pc \in {"idle", "push", "find", "post", "persist", "offer",
                       "fail"},
           Goto(w, pc)
    PROVE  wk'[w].pc = pc
<1>1. wk'[w] = [wk[w] EXCEPT !.pc = pc, !.tries = 0] /\ wk[w] \in Slot
  BY GotoEffect
<1>2. QED
  BY <1>1 DEF Slot

LEMMA FreshInit == Init => Fresh
  BY DEF Init, Fresh, AgentIsCurrent, OpenIsNewest, OfferStands, IdleSlot

LEMMA FreshMeansOffer == Fresh => OfferIsFresh
  BY DEF Fresh, OpenIsNewest, OfferStands, OfferIsFresh, Newest, OpenPRs

LEMMA Opened ==
    ASSUME prs \in Seq(PR), OpenIsNewest, OpenPRs = {},
           prs' = Append(prs, [open |-> TRUE, merged |-> FALSE])
    PROVE  /\ OpenIsNewest'
           /\ Len(prs') = Len(prs) + 1 /\ Len(prs) \in Nat
           /\ ~prs'[Len(prs')].merged
<1>1. /\ Len(prs) \in Nat
      /\ Len(prs') = Len(prs) + 1
      /\ DOMAIN prs = 1 .. Len(prs) /\ DOMAIN prs' = 1 .. Len(prs')
      /\ \A n \in 1 .. Len(prs) : prs'[n] = prs[n]
      /\ prs'[Len(prs')] = [open |-> TRUE, merged |-> FALSE]
  BY DEF PR
<1>2. \A n \in 1 .. Len(prs) : ~prs'[n].open
  BY <1>1 DEF OpenPRs
<1>3. \A n \in DOMAIN prs' : n # Len(prs') => n \in 1 .. Len(prs)
  BY <1>1
<1>4. OpenIsNewest'
  BY <1>1, <1>2, <1>3 DEF OpenIsNewest
<1>5. QED
  BY <1>1, <1>4

LEMMA FreshByAgent ==
    ASSUME OneSlot, TypeOK, BranchIsHeld, Fresh, NEW w \in Workers, Agent(w)
    PROVE  Fresh'
<1>0. /\ wk \in [Workers -> Slot] /\ faults \in 0 .. MaxFaults
      /\ prs \in Seq(PR) /\ Len(prs) \in Nat /\ base \in Nat
      /\ AgentIsCurrent(w) /\ OpenIsNewest /\ OfferStands
      /\ stopped => status = "FAILED"
  BY DEF TypeOK, SlotsOK, Fresh
<1>a. SUFFICES /\ stopped' => status' = "FAILED"
               /\ AgentIsCurrent(w)'
               /\ OpenIsNewest'
               /\ OfferStands'
  BY DEF OneSlot, Fresh, AgentIsCurrent, Newest
<1>1. CASE Load(w)
  <2>1. wk'[w].pc = "push"
    BY <1>0, <1>1, GotoPc DEF Load
  <2>2. QED
    BY <1>0, <1>1, <2>1 DEF Load, AgentIsCurrent, OpenIsNewest, OfferStands,
                            Newest, task, github
<1>2. CASE Push(w)
  <2>1. status = "PR_CREATION"
    BY <1>2 DEF Push, TypeOK, SlotsOK, BranchIsHeld
  <2>2. wk'[w].pc \in {"find", "fail"}
    BY <1>0, <1>2, GotoPc DEF Push
  <2>3. wk'[w].pc = "find" => fork' = round' \/ strayed'
    BY <1>0, <1>2, GotoPc DEF Push, task
  <2>4. QED
    BY <1>0, <1>2, <2>1, <2>2, <2>3
       DEF Push, AgentIsCurrent, OpenIsNewest, OfferStands, task
<1>3. CASE FindOpenPR(w)
  <2>1. /\ wk[w].pc = "find"
        /\ UNCHANGED <<status, stopped, round, row, fork, prs, strayed>>
    BY <1>3 DEF FindOpenPR, task, github, history
  <2>2. OpenIsNewest' /\ OfferStands'
    BY <1>0, <2>1 DEF OpenIsNewest, OfferStands, Newest
  <2>3. (fork = round \/ strayed) /\ (status = "PR_CREATION" \/ stopped)
    BY <1>0, <2>1 DEF AgentIsCurrent
  <2>4. CASE \E n \in OpenPRs : Keep(w, n, base)
    <3>1. PICK n \in OpenPRs : Keep(w, n, base)
      BY <2>4
    <3>2. n \in Nat /\ Newest(n)
      BY <1>0 DEF OpenPRs, OpenIsNewest, Newest
    <3>3. wk'[w] = [pc |-> "persist", tries |-> 0, number |-> n,
                    base |-> base]
      BY <1>0, <3>1, <3>2, KeepEffect
    <3>4. wk'[w].pc = "persist" /\ wk'[w].number = n
      BY <3>3
    <3>5. QED
      BY <1>0, <2>1, <2>2, <2>3, <3>2, <3>4 DEF AgentIsCurrent, Newest
  <2>5. CASE Goto(w, "post") \/ NoAnswer(w)
    <3>1. wk'[w].pc \in {"find", "post", "fail"}
      BY <1>0, <2>1, <2>5, GotoPc, NoAnswerEffect
    <3>2. QED
      BY <1>0, <2>1, <2>2, <2>3, <3>1 DEF AgentIsCurrent
  <2>6. QED
    BY <1>3, <2>4, <2>5 DEF FindOpenPR
<1>4. CASE CreatePR(w)
  <2>1. /\ wk[w].pc = "post"
        /\ UNCHANGED <<status, stopped, round, row, fork, strayed>>
    BY <1>4 DEF CreatePR, task, history
  <2>2. (fork = round \/ strayed) /\ (status = "PR_CREATION" \/ stopped)
    BY <1>0, <2>1 DEF AgentIsCurrent
  <2>3. status # "AWAITING_APPROVAL"
    BY <1>0, <2>2
  <2>4. CASE /\ OpenPRs = {}
             /\ prs' = Append(prs, [open |-> TRUE, merged |-> FALSE])
    <3>1. /\ OpenIsNewest'
          /\ Len(prs') = Len(prs) + 1
          /\ ~prs'[Len(prs')].merged
      BY <1>0, <2>4, Opened
    <3>2. CASE Keep(w, Len(prs'), base)
      <4>1. Len(prs') \in Nat /\ Len(prs') # 0
        BY <1>0, <3>1
      <4>2. wk'[w] = [pc |-> "persist", tries |-> 0, number |-> Len(prs'),
                      base |-> base]
        BY <1>0, <3>2, <4>1, KeepEffect
      <4>3. wk'[w].pc = "persist" /\ wk'[w].number = Len(prs')
        BY <4>2
      <4>4. QED
        BY <1>0, <2>1, <2>2, <2>3, <3>1, <4>1, <4>3
           DEF AgentIsCurrent, OfferStands, Newest
    <3>3. CASE NoAnswer(w)
      <4>1. wk'[w].pc \in {"post", "fail"}
        BY <1>0, <2>1, <3>3, NoAnswerEffect
      <4>2. QED
        BY <1>0, <2>1, <2>2, <2>3, <3>1, <4>1
           DEF AgentIsCurrent, OfferStands
    <3>4. CASE prs' = prs
      BY <1>0, <3>1, <3>4
    <3>5. QED
      BY <1>4, <3>2, <3>3, <3>4 DEF CreatePR
  <2>5. CASE prs' = prs /\ (Goto(w, "fail") \/ NoAnswer(w))
    <3>1. wk'[w].pc \in {"post", "fail"}
      BY <1>0, <2>1, <2>5, GotoPc, NoAnswerEffect
    <3>2. OpenIsNewest'
      BY <1>0, <2>5 DEF OpenIsNewest
    <3>3. QED
      BY <1>0, <2>1, <2>2, <2>3, <3>1, <3>2 DEF AgentIsCurrent, OfferStands
  <2>6. QED
    BY <1>4, <2>4, <2>5 DEF CreatePR
<1>5. CASE Persist(w)
  <2>1. wk'[w].pc = "offer"
    BY <1>0, <1>5, GotoPc DEF Persist
  <2>2. /\ row'.number = wk[w].number /\ ~row'.merged
        /\ UNCHANGED <<status, stopped, round, fork, prs, strayed>>
        /\ wk[w].pc = "persist"
    BY <1>5 DEF Persist, task, github, history
  <2>3. status # "AWAITING_APPROVAL"
    BY <1>0, <2>2 DEF AgentIsCurrent
  <2>4. QED
    BY <1>0, <2>1, <2>2, <2>3
       DEF AgentIsCurrent, OpenIsNewest, OfferStands, Newest
<1>6. CASE Apply(w)
  <2>1. wk'[w].pc = "idle"
    BY <1>0, <1>6, IdleEffect DEF Apply, IdleSlot
  <2>2. UNCHANGED <<stopped, round, fork, prs, row, strayed>>
    BY <1>6 DEF Apply, github
  <2>3. status' # status => status = "PR_CREATION" /\ ~stopped
    BY <1>0, <1>6 DEF Apply
  <2>4. status' # status /\ status' = "AWAITING_APPROVAL"
           => wk[w].pc = "offer"
    BY <1>6 DEF Apply
  <2>5. QED
    BY <1>0, <2>1, <2>2, <2>3, <2>4
       DEF AgentIsCurrent, OpenIsNewest, OfferStands, Newest
<1>7. QED
  BY <1>1, <1>2, <1>3, <1>4, <1>5, <1>6 DEF Agent

LEMMA FreshByAgentFault ==
    ASSUME OneSlot, TypeOK, Fresh, NEW w \in Workers, AgentFault(w)
    PROVE  Fresh'
<1>0. /\ wk \in [Workers -> Slot] /\ wk[w] \in Slot
      /\ AgentIsCurrent(w) /\ OpenIsNewest /\ OfferStands
      /\ stopped => status = "FAILED"
  BY DEF TypeOK, SlotsOK, Fresh
<1>1. CASE PersistFails(w)
  <2>1. wk'[w].pc = "fail"
    BY <1>0, <1>1, GotoPc DEF PersistFails
  <2>2. /\ wk[w].pc # "idle"
        /\ UNCHANGED <<status, stopped, round, row, fork, prs, strayed>>
    BY <1>1 DEF PersistFails, task, github, history
  <2>3. AgentIsCurrent(w)' /\ OpenIsNewest' /\ OfferStands'
    BY <1>0, <2>1, <2>2
       DEF AgentIsCurrent, OpenIsNewest, OfferStands, Newest
  <2>4. QED
    BY <1>0, <2>2, <2>3 DEF OneSlot, Fresh, AgentIsCurrent, Newest
<1>2. CASE JobDies(w) \/ WorkerCrash(w) \/ Deadline(w)
  <2>1. wk'[w].pc = "idle"
    BY <1>0, <1>2, IdleEffect DEF JobDies, WorkerCrash, Deadline, IdleSlot
  <2>2. /\ UNCHANGED <<stopped, round, row, fork, prs, strayed>>
        /\ status' # status => status' = "FAILED"
    BY <1>2 DEF JobDies, WorkerCrash, Deadline, task, history
  <2>3. AgentIsCurrent(w)' /\ OpenIsNewest' /\ OfferStands'
    BY <1>0, <2>1, <2>2
       DEF AgentIsCurrent, OpenIsNewest, OfferStands, Newest
  <2>4. QED
    BY <1>0, <2>2, <2>3 DEF OneSlot, Fresh, AgentIsCurrent, Newest
<1>3. CASE Restart(w)
  <2>1. UNCHANGED <<status, stopped, round, row, fork, prs, strayed, wk>>
    BY <1>3 DEF Restart, github, history
  <2>2. QED
    BY <2>1 DEF Fresh, AgentIsCurrent, OpenIsNewest, OfferStands, Newest
<1>4. QED
  BY <1>1, <1>2, <1>3 DEF AgentFault

(* Nobody else's step disturbs an agent or an offer.                       *)
LEMMA FreshByOthers ==
    ASSUME TypeOK, BranchIsHeld, Fresh,
           Human \/ Elsewhere \/ BeginMerge \/ MergeStep \/ MergeFails
    PROVE  Fresh'
<1>0. /\ prs \in Seq(PR) /\ wk' = wk
      /\ \A w \in Workers : AgentIsCurrent(w)
      /\ OpenIsNewest /\ OfferStands
      /\ stopped => status = "FAILED"
      /\ stopped \in BOOLEAN
  BY DEF TypeOK, Fresh, Human, Approve, Reject, Cancel, Elsewhere,
         TimeoutMark, Resume, LateCommit, StrayPush, ClosePR, BaseMoves,
         BeginMerge, MergeStep, CheckFresh, PutMerge, RecordMerge, MergeFails
<1>1. CASE Human
  <2>1. /\ UNCHANGED <<round, row, fork, prs>>
        /\ status' \in {"COMPLETED", "FAILED"}
        /\ stopped' \in {stopped, TRUE}
        /\ stopped' # stopped => status' = "FAILED"
        /\ ~stopped' => status = "AWAITING_APPROVAL"
        /\ status \in {"PR_CREATION", "AWAITING_APPROVAL"}
    BY <1>0, <1>1 DEF Human, Approve, Reject, Cancel, github
  <2>2. \A w \in Workers : AgentIsCurrent(w)'
    <3>1. CASE Approve
      <4>1. status = "AWAITING_APPROVAL"
        BY <3>1 DEF Approve
      <4>2. \A w \in Workers : wk[w].pc = "idle"
        BY <1>0, <4>1 DEF AgentIsCurrent
      <4>3. QED
        BY <1>0, <4>2 DEF AgentIsCurrent
    <3>2. CASE Reject \/ Cancel
      <4>1. strayed' = strayed
        BY <3>2 DEF Reject, Cancel, history
      <4>2. QED
        BY <1>0, <2>1, <4>1 DEF AgentIsCurrent, Newest
    <3>3. QED
      BY <1>1, <3>1, <3>2 DEF Human
  <2>3. OpenIsNewest' /\ OfferStands' /\ (stopped' => status' = "FAILED")
    BY <1>0, <2>1 DEF OpenIsNewest, OfferStands
  <2>4. QED
    BY <2>2, <2>3 DEF Fresh
<1>2. CASE TimeoutMark \/ Resume
  <2>1. /\ UNCHANGED <<stopped, row, prs>>
        /\ status' \in {"PR_CREATION", "FAILED"}
        /\ ~stopped
        /\ status # "PR_CREATION"
    BY <1>0, <1>2 DEF TimeoutMark, Resume, github
  <2>2. \A w \in Workers : wk[w].pc = "idle"
    BY <1>0, <2>1 DEF AgentIsCurrent
  <2>3. \A w \in Workers : AgentIsCurrent(w)'
    BY <1>0, <2>2 DEF AgentIsCurrent
  <2>4. OpenIsNewest' /\ OfferStands'
    BY <1>0, <2>1 DEF OpenIsNewest, OfferStands
  <2>5. QED
    BY <2>1, <2>3, <2>4 DEF Fresh
<1>3. CASE ClosePR
  <2>1. PICK n \in OpenPRs : prs' = [prs EXCEPT ![n].open = FALSE]
    BY <1>3 DEF ClosePR
  <2>2. /\ DOMAIN prs' = DOMAIN prs /\ Len(prs') = Len(prs)
        /\ \A m \in DOMAIN prs : /\ prs'[m].merged = prs[m].merged
                                 /\ prs'[m].open => prs[m].open
    <3>1. /\ DOMAIN prs = 1 .. Len(prs) /\ Len(prs) \in Nat
          /\ \A m \in DOMAIN prs : prs[m] \in PR
      BY <1>0
    <3>2. /\ prs' = [m \in DOMAIN prs |->
                        IF m = n THEN [prs[m] EXCEPT !.open = FALSE]
                        ELSE prs[m]]
      BY <2>1
    <3>3. \A m \in DOMAIN prs :
             prs'[m] = IF m = n THEN [prs[m] EXCEPT !.open = FALSE]
                       ELSE prs[m]
      BY <3>2
    <3>4. DOMAIN prs' = 1 .. Len(prs)
      BY <3>1, <3>2
    <3>5. [prs[n] EXCEPT !.open = FALSE] \in PR
      BY <2>1, <3>1 DEF PR, OpenPRs
    <3>6. prs' = [prs EXCEPT ![n] = [prs[n] EXCEPT !.open = FALSE]]
      BY <2>1
    <3>7. Len(prs') = Len(prs)
      BY <1>0, <3>5, <3>6, ChangePR
    <3>8. QED
      BY <3>1, <3>3, <3>4, <3>7 DEF PR
  <2>3. UNCHANGED <<status, stopped, round, row, fork, strayed>>
    BY <1>3 DEF ClosePR, task, history
  <2>4. \A m : Newest(m) => m \in DOMAIN prs
    <3>1. DOMAIN prs = 1 .. Len(prs) /\ Len(prs) \in Nat
      BY <1>0
    <3>2. QED
      BY <3>1 DEF Newest
  <2>5. \A m : Newest(m) => Newest(m)'
    BY <2>2, <2>4 DEF Newest
  <2>6. \A w \in Workers : AgentIsCurrent(w)'
    BY <1>0, <2>3, <2>5 DEF AgentIsCurrent
  <2>7. OpenIsNewest' /\ OfferStands'
    BY <1>0, <2>2, <2>3, <2>5 DEF OpenIsNewest, OfferStands
  <2>8. QED
    BY <1>0, <2>3, <2>6, <2>7 DEF Fresh
<1>4. CASE BaseMoves \/ BeginMerge \/ LateCommit \/ StrayPush
  <2>1. /\ UNCHANGED <<status, stopped, round, row, prs>>
        /\ UNCHANGED <<fork, strayed>> \/ strayed'
    BY <1>4 DEF BaseMoves, BeginMerge, LateCommit, StrayPush, task, github,
                history
  <2>2. QED
    BY <1>0, <2>1 DEF Fresh, AgentIsCurrent, OpenIsNewest, OfferStands, Newest
<1>5. CASE MergeStep \/ MergeFails
  <2>1. /\ status = "COMPLETED" /\ ~stopped
        /\ UNCHANGED <<status, stopped, round>>
    BY <1>0, <1>5 DEF MergeStep, CheckFresh, PutMerge, RecordMerge, MergeFails,
                      BranchIsHeld, task, github
  <2>2. \A w \in Workers : wk[w].pc = "idle"
    BY <1>0, <2>1 DEF AgentIsCurrent
  <2>3. \A w \in Workers : AgentIsCurrent(w)'
    BY <1>0, <2>2 DEF AgentIsCurrent
  <2>4. CASE GitHubMerges
    <3>1. /\ DOMAIN prs = 1 .. Len(prs)
          /\ Len(prs') = Len(prs) /\ DOMAIN prs' = DOMAIN prs
      <4>1. [open |-> FALSE, merged |-> TRUE] \in PR
        BY DEF PR
      <4>2. prs' = [prs EXCEPT ![row.number] = [open |-> FALSE, merged |-> TRUE]]
        BY <2>4 DEF GitHubMerges
      <4>3. QED
        BY <1>0, <4>1, <4>2, ChangePR
    <3>2. \A m \in DOMAIN prs :
             \/ prs'[m] = prs[m]
             \/ prs'[m] = [open |-> FALSE, merged |-> TRUE]
      BY <2>4 DEF GitHubMerges
    <3>3. OpenIsNewest'
      BY <1>0, <3>1, <3>2 DEF OpenIsNewest
    <3>4. QED
      BY <2>1, <2>3, <3>3 DEF Fresh, OfferStands
  <2>5. CASE prs' = prs
    BY <1>0, <2>1, <2>3, <2>5 DEF Fresh, OpenIsNewest, OfferStands
  <2>6. QED
    BY <1>5, <2>4, <2>5 DEF MergeStep, CheckFresh, PutMerge, RecordMerge,
                            MergeFails, github
<1>6. QED
  BY <1>1, <1>2, <1>3, <1>4, <1>5 DEF Elsewhere

LEMMA FreshStep ==
    ASSUME OneSlot
    PROVE  TypeOK /\ BranchIsHeld /\ Fresh /\ [Next]_vars => Fresh'
<1> SUFFICES ASSUME TypeOK, BranchIsHeld, Fresh, [Next]_vars
             PROVE  Fresh'
  OBVIOUS
<1>1. CASE \E w \in Workers : Agent(w) \/ AgentFault(w)
  BY <1>1, FreshByAgent, FreshByAgentFault
<1>2. CASE UNCHANGED vars
  BY <1>2 DEF Fresh, AgentIsCurrent, OpenIsNewest, OfferStands, Newest, vars,
              task, github, history
<1>3. QED
  BY <1>1, <1>2, FreshByOthers DEF Next

(* While one job at a time runs the agent, what the human is asked about   *)
(* is the verified commit, unless a stray push or a late commit has come   *)
(* in between, in the branch's newest pull request, the only one that may  *)
(* be open and one that nobody has merged: GitHubAgent's adoption of an    *)
(* open pull request never offers a stale one.                             *)
THEOREM Offer ==
    ASSUME OneSlot
    PROVE  Spec => []OfferIsFresh
<1>1. QED
  BY TypeInit, TypeStep, HeldInit, HeldStep, FreshInit, FreshStep,
     FreshMeansOffer, PTL DEF Spec

-----------------------------------------------------------------------------
(* The merges.  A round ends while the task is COMPLETED with the merge    *)
(* that closes its pull request; a task that comes back from there does so *)
(* through FAILED, and Resume begins the next round.                       *)

Unspent == \A i \in DOMAIN landed : landed[i].round < round

Spent ==
    /\ round <= head
    /\ \A i \in DOMAIN landed : landed[i].round <= round
    /\ status \in {"PR_CREATION", "AWAITING_APPROVAL"} => Unspent
    /\ status = "COMPLETED" =>
         /\ row.number \in DOMAIN prs
         /\ prs[row.number].open => Unspent
    /\ MergedOnce

LEMMA SpentInit == Init => Spent
  BY DEF Init, Spent, Unspent, MergedOnce

(* The numbers the comparisons are about.                                  *)
LEMMA Numbers ==
    ASSUME TypeOK
    PROVE  /\ landed \in Seq([commit : Commits, round : Commits])
           /\ DOMAIN landed = 1 .. Len(landed) /\ Len(landed) \in Nat
           /\ \A i \in DOMAIN landed : landed[i].round \in Nat
           /\ round \in Nat /\ head \in Nat
           /\ DOMAIN prs = 1 .. Len(prs) /\ Len(prs) \in Nat
<1>1. /\ landed \in Seq([commit : Commits, round : Commits])
      /\ prs \in Seq(PR)
      /\ round \in Commits /\ head \in Commits
  BY DEF TypeOK
<1>2. Commits \subseteq Nat
  BY PullRequestsAssumption DEF Commits
<1>3. /\ DOMAIN landed = 1 .. Len(landed) /\ Len(landed) \in Nat
      /\ DOMAIN prs = 1 .. Len(prs) /\ Len(prs) \in Nat
  BY <1>1, LenProperties
<1>4. \A i \in 1 .. Len(landed) :
         landed[i] \in [commit : Commits, round : Commits]
  BY <1>1, ElementOfSeq
<1>5. \A i \in DOMAIN landed : landed[i].round \in Nat
  BY <1>2, <1>3, <1>4
<1>6. QED
  BY <1>1, <1>2, <1>3, <1>5

LEMMA SpentByAgent ==
    ASSUME TypeOK, BranchIsHeld, Fresh, Spent,
           NEW w \in Workers, Agent(w) \/ AgentFault(w)
    PROVE  Spent'
<1>1. UNCHANGED <<stopped, head, round, landed>>
  BY DEF Agent, AgentFault, Load, Push, FindOpenPR, CreatePR, Persist, Apply,
         PersistFails, JobDies, Restart, WorkerCrash, Deadline, task, history
<1>2. status' = status \/ (status = "PR_CREATION" /\ status' # "COMPLETED")
  BY DEF Agent, AgentFault, Load, Push, FindOpenPR, CreatePR, Persist, Apply,
         PersistFails, JobDies, Restart, WorkerCrash, Deadline, task
<1>3. CASE status = "COMPLETED"
  <2>1. wk[w].pc = "idle"
    BY <1>3 DEF Fresh, AgentIsCurrent
  <2>2. Restart(w)
    BY <1>3, <2>1
       DEF Agent, AgentFault, Load, Push, FindOpenPR, CreatePR, Persist,
           Apply, PersistFails, JobDies, WorkerCrash, Deadline
  <2>3. UNCHANGED <<status, row, prs>>
    BY <2>2 DEF Restart, github
  <2>4. QED
    BY <1>1, <2>3 DEF Spent, Unspent, MergedOnce
<1>4. CASE status # "COMPLETED"
  BY <1>1, <1>2, <1>4 DEF Spent, Unspent, MergedOnce
<1>5. QED
  BY <1>3, <1>4

LEMMA SpentByOthers ==
    ASSUME TypeOK, Fresh, Spent, Human \/ Elsewhere
    PROVE  Spent'
<1> USE Numbers
<1>1. CASE Human
  <2>1. UNCHANGED <<head, round, row, prs, landed>>
    BY <1>1 DEF Human, Approve, Reject, Cancel, github, history
  <2>2. status' = "COMPLETED"
           => /\ row.number \in DOMAIN prs /\ Unspent
    BY <1>1 DEF Human, Approve, Reject, Cancel, Fresh, OfferStands, Newest,
                Spent
  <2>3. status' \in {"COMPLETED", "FAILED"}
    BY <1>1 DEF Human, Approve, Reject, Cancel
  <2>4. QED
    BY <2>1, <2>2, <2>3 DEF Spent, Unspent, MergedOnce
<1>2. CASE TimeoutMark
  BY <1>2 DEF TimeoutMark, Spent, Unspent, MergedOnce, history
<1>3. CASE Resume
  <2>1. /\ head' = head + 1 /\ round' = head'
        /\ landed' = landed /\ status' = "PR_CREATION"
    BY <1>3 DEF Resume, history
  <2>2. Unspent'
    BY <2>1 DEF Spent, Unspent
  <2>3. QED
    BY <2>1, <2>2 DEF Spent, Unspent, MergedOnce
<1>4. CASE ClosePR
  <2>1. PICK n \in OpenPRs : prs' = [prs EXCEPT ![n].open = FALSE]
    BY <1>4 DEF ClosePR
  <2>2. /\ DOMAIN prs' = DOMAIN prs
        /\ \A m \in DOMAIN prs : prs'[m].open => prs[m].open
    <3>1. \A m \in DOMAIN prs : prs[m] \in PR
      BY DEF TypeOK
    <3>2. \A m \in DOMAIN prs :
             prs'[m] = IF m = n THEN [prs[m] EXCEPT !.open = FALSE]
                       ELSE prs[m]
      BY <2>1
    <3>3. DOMAIN prs' = DOMAIN prs
      BY <2>1
    <3>4. QED
      BY <3>1, <3>2, <3>3 DEF PR
  <2>3. UNCHANGED <<status, head, round, row, landed>>
    BY <1>4 DEF ClosePR, task, history
  <2>4. QED
    BY <2>2, <2>3 DEF Spent, Unspent, MergedOnce
<1>5. CASE BaseMoves
  BY <1>5 DEF BaseMoves, Spent, Unspent, MergedOnce, task, history
<1>6. CASE LateCommit \/ StrayPush
  <2>1. /\ UNCHANGED <<status, round, row, prs, landed>>
        /\ head' \in {head, head + 1}
    BY <1>6 DEF LateCommit, StrayPush, task, history
  <2>2. QED
    BY <2>1 DEF Spent, Unspent, MergedOnce
<1>7. QED
  BY <1>1, <1>2, <1>3, <1>4, <1>5, <1>6 DEF Elsewhere

LEMMA SpentByMerge ==
    ASSUME TypeOK, BranchIsHeld, Fresh, Spent,
           BeginMerge \/ MergeStep \/ MergeFails
    PROVE  Spent'
<1> USE Numbers
<1>1. /\ UNCHANGED <<status, head, round>>
      /\ row'.number = row.number
  BY DEF BeginMerge, MergeStep, CheckFresh, PutMerge, RecordMerge, MergeFails,
         task, TypeOK, Row
<1>2. CASE PutMerge /\ GitHubMerges
  <2> DEFINE merged == [commit |-> fork, round |-> round]
  <2>1. status = "COMPLETED"
    BY <1>2 DEF PutMerge, BranchIsHeld
  <2>2. row.number \in DOMAIN prs /\ Unspent
    BY <1>2, <2>1 DEF Spent, GitHubMerges
  <2>3. prs' = [prs EXCEPT ![row.number] = [open |-> FALSE, merged |-> TRUE]]
    BY <1>2 DEF GitHubMerges
  <2>4. row.number \in DOMAIN prs' /\ ~prs'[row.number].open
    BY <2>2, <2>3
  <2>5. merged \in [commit : Commits, round : Commits]
    BY DEF TypeOK
  <2>6. /\ landed' = Append(landed, merged)
        /\ DOMAIN landed' = 1 .. Len(landed) + 1
        /\ \A i \in 1 .. Len(landed) : landed'[i] = landed[i]
        /\ landed'[Len(landed) + 1].round = round
    BY <1>2, <2>5 DEF GitHubMerges
  <2>7. \A i \in DOMAIN landed' : i = Len(landed) + 1 \/ i \in DOMAIN landed
    BY <2>6
  <2>8. \A i \in DOMAIN landed' : landed'[i].round <= round
    BY <2>2, <2>6, <2>7 DEF Unspent
  <2>9. MergedOnce'
    <3>1. SUFFICES ASSUME NEW i \in DOMAIN landed', NEW j \in DOMAIN landed',
                          landed'[i].round = landed'[j].round
                   PROVE  i = j
      BY DEF MergedOnce
    <3>2. CASE i = Len(landed) + 1 \/ j = Len(landed) + 1
      BY <2>2, <2>6, <2>7, <3>1, <3>2 DEF Unspent
    <3>3. CASE i \in DOMAIN landed /\ j \in DOMAIN landed
      BY <2>6, <3>1, <3>3 DEF Spent, MergedOnce
    <3>4. QED
      BY <2>7, <3>2, <3>3
  <2>10. QED
    BY <1>1, <2>1, <2>2, <2>4, <2>8, <2>9 DEF Spent
<1>3. CASE UNCHANGED <<prs, landed>>
  BY <1>1, <1>3 DEF Spent, Unspent, MergedOnce
<1>4. QED
  BY <1>2, <1>3 DEF BeginMerge, MergeStep, CheckFresh, PutMerge, RecordMerge,
                    MergeFails, github, history

LEMMA SpentStep ==
    TypeOK /\ BranchIsHeld /\ Fresh /\ Spent /\ [Next]_vars => Spent'
<1> SUFFICES ASSUME TypeOK, BranchIsHeld, Fresh, Spent, [Next]_vars
             PROVE  Spent'
  OBVIOUS
<1>1. CASE \E w \in Workers : Agent(w) \/ AgentFault(w)
  BY <1>1, SpentByAgent
<1>2. CASE UNCHANGED vars
  BY <1>2 DEF Spent, Unspent, MergedOnce, vars, task, github, history
<1>3. QED
  BY <1>1, <1>2, SpentByOthers, SpentByMerge DEF Next

(* While one job at a time runs the agent, nothing is merged twice for one *)
(* verified commit, although the row may lack the record of a merge that   *)
(* happened: what stops the second is that the pull request is no longer   *)
(* open.                                                                   *)
THEOREM OneMerge ==
    ASSUME OneSlot
    PROVE  Spec => []MergedOnce
<1>1. Spent => MergedOnce
  BY DEF Spent
<1>2. QED
  BY <1>1, TypeInit, TypeStep, HeldInit, HeldStep, FreshInit, FreshStep,
     SpentInit, SpentStep, PTL DEF Spec

-----------------------------------------------------------------------------
(* The failures.  An agent about to fail has met a fault nobody has paid   *)
(* for, and so has one that is about to open a second pull request: the    *)
(* first is its own, and the answer was lost.                              *)

Paid ==
    /\ failures <= faults
    /\ \A w \in Workers :
         wk[w].pc = "fail" \/ (wk[w].pc = "post" /\ OpenPRs # {})
           => failures < faults

LEMMA PaidInit == Init => Paid
  BY DEF Init, Paid, IdleSlot

LEMMA PaidByAgent ==
    ASSUME OneSlot, TypeOK, Paid, NEW w \in Workers, Agent(w)
    PROVE  Paid'
<1>0. /\ wk \in [Workers -> Slot] /\ prs \in Seq(PR)
      /\ faults \in 0 .. MaxFaults /\ faults \in Nat /\ failures \in Nat
      /\ base \in Nat
      /\ failures <= faults
  BY PullRequestsAssumption DEF TypeOK, SlotsOK, Paid
<1>1. CASE Apply(w)
  <2>1. wk'[w].pc = "idle" /\ faults' = faults
    BY <1>0, <1>1, IdleEffect DEF Apply, IdleSlot
  <2>2. failures' <= faults
    BY <1>0, <1>1 DEF Apply, Paid
  <2>3. QED
    BY <1>0, <2>1, <2>2 DEF OneSlot, Paid
<1>2. CASE Load(w) \/ Persist(w)
  <2>1. wk'[w].pc \in {"push", "offer"}
    <3>1. CASE Load(w)
      BY <1>0, <3>1, GotoPc DEF Load
    <3>2. CASE Persist(w)
      BY <1>0, <3>2, GotoPc DEF Persist
    <3>3. QED
      BY <1>2, <3>1, <3>2
  <2>2. failures' = failures /\ faults' = faults
    BY <1>2 DEF Load, Persist, history
  <2>3. QED
    BY <1>0, <2>1, <2>2 DEF OneSlot, Paid
<1>3. CASE Push(w)
  <2>1. failures' = failures
    BY <1>3 DEF Push
  <2>2. CASE Goto(w, "find") /\ faults' = faults
    <3>1. wk'[w].pc = "find"
      BY <1>0, <2>2, GotoPc
    <3>2. QED
      BY <1>0, <2>1, <2>2, <3>1 DEF OneSlot, Paid
  <2>3. CASE Fault("push_fails")
    BY <1>0, <2>1, <2>3, FaultEffect DEF Paid
  <2>4. QED
    BY <1>3, <2>2, <2>3 DEF Push
<1>4. CASE NoAnswer(w) /\ (FindOpenPR(w) \/ CreatePR(w))
  <2>1. failures' = failures /\ faults' = faults + 1
    BY <1>0, <1>4, NoAnswerEffect DEF FindOpenPR, CreatePR, history
  <2>2. QED
    BY <1>0, <2>1 DEF Paid
<1>5. CASE FindOpenPR(w) /\ ~NoAnswer(w)
  <2>1. UNCHANGED <<failures, faults, prs>>
    BY <1>5 DEF FindOpenPR, history, github
  <2>2. CASE \E n \in OpenPRs : Keep(w, n, base)
    <3>1. PICK n \in OpenPRs : Keep(w, n, base)
      BY <2>2
    <3>2. n \in Nat
      BY <1>0 DEF OpenPRs
    <3>3. wk'[w] = [pc |-> "persist", tries |-> 0, number |-> n,
                    base |-> base]
      BY <1>0, <3>1, <3>2, KeepEffect
    <3>4. wk'[w].pc = "persist"
      BY <3>3
    <3>5. QED
      BY <1>0, <2>1, <3>4 DEF OneSlot, Paid
  <2>3. CASE OpenPRs = {} /\ Goto(w, "post")
    <3>1. wk'[w].pc = "post" /\ OpenPRs' = {}
      BY <1>0, <2>1, <2>3, GotoPc DEF OpenPRs
    <3>2. QED
      BY <1>0, <2>1, <3>1 DEF OneSlot, Paid
  <2>4. QED
    BY <1>5, <2>2, <2>3 DEF FindOpenPR
<1>6. CASE CreatePR(w) /\ ~NoAnswer(w)
  <2>1. UNCHANGED <<failures, faults>> /\ wk[w].pc = "post"
    BY <1>6 DEF CreatePR, history
  <2>2. CASE /\ prs' = Append(prs, [open |-> TRUE, merged |-> FALSE])
             /\ Keep(w, Len(prs'), base)
    <3>1. Len(prs') \in Nat
      BY <1>0, <2>2
    <3>2. wk'[w] = [pc |-> "persist", tries |-> 0, number |-> Len(prs'),
                    base |-> base]
      BY <1>0, <2>2, <3>1, KeepEffect
    <3>3. wk'[w].pc = "persist"
      BY <3>2
    <3>4. QED
      BY <1>0, <2>1, <3>3 DEF OneSlot, Paid
  <2>3. CASE OpenPRs # {} /\ Goto(w, "fail")
    <3>1. failures < faults
      BY <2>1, <2>3 DEF Paid
    <3>2. QED
      BY <1>0, <2>1, <3>1 DEF Paid
  <2>4. QED
    BY <1>6, <2>2, <2>3 DEF CreatePR
<1>7. QED
  BY <1>1, <1>2, <1>3, <1>4, <1>5, <1>6 DEF Agent

LEMMA PaidByOthers ==
    ASSUME TypeOK, Paid,
           \/ \E w \in Workers : AgentFault(w)
           \/ Human \/ Elsewhere \/ BeginMerge \/ MergeStep \/ MergeFails
    PROVE  Paid'
<1>0. /\ wk \in [Workers -> Slot] /\ prs \in Seq(PR)
      /\ faults \in 0 .. MaxFaults /\ faults \in Nat /\ failures \in Nat
      /\ failures <= faults
  BY PullRequestsAssumption DEF TypeOK, SlotsOK, Paid
<1>1. CASE \E w \in Workers : AgentFault(w)
  <2>1. PICK w \in Workers : AgentFault(w)
    BY <1>1
  <2>2. CASE Restart(w)
    BY <2>2 DEF Paid, OpenPRs, Restart, github, history
  <2>3. CASE PersistFails(w)
    <3>1. faults' = faults + 1
      BY <1>0, <2>3, FaultEffect DEF PersistFails
    <3>2. QED
      BY <1>0, <2>3, <3>1 DEF Paid, PersistFails, history
  <2>4. CASE JobDies(w) \/ WorkerCrash(w)
    <3>1. faults' = faults + 1
      BY <1>0, <2>4, FaultEffect DEF JobDies, WorkerCrash
    <3>2. QED
      BY <1>0, <2>4, <3>1 DEF Paid, JobDies, WorkerCrash, history
  <2>5. CASE Deadline(w)
    <3>0. faults' = faults + 1
      BY <1>0, <2>5, FaultEffect DEF Deadline
    <3>1. UNCHANGED prs
      BY <2>5 DEF Deadline
    <3>2. \A v \in Workers : wk'[v].pc = "idle" \/ wk'[v] = wk[v]
      BY <1>0, <2>1, <2>5, IdleEffect DEF Deadline, IdleSlot, Others
    <3>3. failures' \in {failures, failures + 1}
      BY <2>5 DEF Deadline
    <3>4. \A v \in Workers :
             wk[v].pc = "fail" \/ (wk[v].pc = "post" /\ OpenPRs # {})
               => failures + 1 < faults'
      BY <1>0, <3>0 DEF Paid
    <3>5. QED
      BY <1>0, <3>0, <3>1, <3>2, <3>3, <3>4 DEF Paid, OpenPRs
  <2>6. QED
    BY <2>1, <2>2, <2>3, <2>4, <2>5 DEF AgentFault
<1>2. CASE Human \/ Elsewhere \/ BeginMerge \/ MergeStep \/ MergeFails
  <2>1. wk' = wk /\ failures' = failures
    BY <1>2 DEF Human, Approve, Reject, Cancel, Elsewhere, TimeoutMark, Resume,
                LateCommit, StrayPush, ClosePR, BaseMoves, BeginMerge,
                MergeStep, CheckFresh, PutMerge, RecordMerge, MergeFails,
                history
  <2>2. faults' = faults \/ faults' = faults + 1
    BY <1>0, <1>2, FaultEffect
       DEF Human, Approve, Reject, Cancel, Elsewhere, TimeoutMark, Resume,
           LateCommit, StrayPush, ClosePR, BaseMoves, BeginMerge, MergeStep,
           CheckFresh, PutMerge, PutUnanswered, RecordMerge, MergeFails
  <2>3. OpenPRs' \subseteq OpenPRs
    <3>1. CASE ClosePR
      <4>1. PICK n \in OpenPRs : prs' = [prs EXCEPT ![n].open = FALSE]
        BY <3>1 DEF ClosePR
      <4>2. \A m \in DOMAIN prs :
               prs'[m] = IF m = n THEN [prs[m] EXCEPT !.open = FALSE]
                         ELSE prs[m]
        BY <4>1
      <4>3. DOMAIN prs' = DOMAIN prs
        BY <4>1
      <4>4. prs[n] \in PR
        BY <1>0 DEF OpenPRs
      <4>5. QED
        BY <4>2, <4>3, <4>4 DEF OpenPRs, PR
    <3>2. CASE GitHubMerges
      <4>1. \A m \in DOMAIN prs :
               \/ prs'[m] = prs[m]
               \/ prs'[m] = [open |-> FALSE, merged |-> TRUE]
        BY <3>2 DEF GitHubMerges
      <4>2. DOMAIN prs' = DOMAIN prs
        BY <3>2 DEF GitHubMerges
      <4>3. QED
        BY <4>1, <4>2 DEF OpenPRs
    <3>3. CASE prs' = prs
      BY <3>3 DEF OpenPRs
    <3>4. QED
      BY <1>2, <3>1, <3>2, <3>3
         DEF Human, Approve, Reject, Cancel, Elsewhere, TimeoutMark, Resume,
             LateCommit, StrayPush, BaseMoves, BeginMerge, MergeStep, CheckFresh, PutMerge,
             RecordMerge, MergeFails, github
  <2>4. QED
    BY <1>0, <2>1, <2>2, <2>3 DEF Paid
<1>3. QED
  BY <1>1, <1>2

LEMMA PaidStep ==
    ASSUME OneSlot
    PROVE  TypeOK /\ Paid /\ [Next]_vars => Paid'
<1> SUFFICES ASSUME TypeOK, Paid, [Next]_vars
             PROVE  Paid'
  OBVIOUS
<1>1. CASE \E w \in Workers : Agent(w)
  BY <1>1, PaidByAgent
<1>2. CASE UNCHANGED vars
  BY <1>2 DEF Paid, OpenPRs, vars, task, github, history
<1>3. QED
  BY <1>1, <1>2, PaidByOthers DEF Next

(* While one job at a time runs the agent, PR creation does not fail more  *)
(* often than faults have happened: no leftover of an earlier round, of a  *)
(* crash or of an unanswered call fails a later one (detect and reuse).    *)
THEOREM CostOfFailures ==
    ASSUME OneSlot
    PROVE  Spec => []FailuresAreFaults
<1>1. Paid => FailuresAreFaults
  BY DEF Paid, FailuresAreFaults
<1>2. QED
  BY <1>1, TypeInit, TypeStep, PaidInit, PaidStep, PTL DEF Spec
=============================================================================
