--------------------------- MODULE LLMCallProofs ---------------------------
(***************************************************************************)
(* The request to the model: its two retry loops are bounded, and it is    *)
(* given up for an availability error only when the whole chain was tried. *)
(* LLMCall has no specification of its own; the lemmas are about its       *)
(* steps, for ToolLoopProofs to put together.                              *)
(***************************************************************************)
EXTENDS LLMCall, TLAPS

(* What one pass over the chain costs the model that is asked to the end.  *)
Spent == llm.pass * (MaxRetries + 1)

(* How often the models have been asked in this pass, and in those before. *)
Asked(m) ==
    IF m < llm.model THEN MaxRetries + 1
    ELSE IF m > llm.model THEN 0
    ELSE llm.attempt + (IF llm.pc = "ended" THEN 1 ELSE 0)

(* The last model of a real chain has spent its budget in every pass that  *)
(* was followed by another, and the passes have reached every model.       *)
LLMInv ==
    /\ LLMTypeOK
    /\ llm.attempt <= MaxRetries
    /\ llm.pass <= MaxRetries
    /\ chain < 2 => llm.attempt = 0
    /\ llm.pc = "idle" => llm = NoCall
    /\ \A m \in Models : asks[m] <= Spent + Asked(m)
    /\ llm.pc = "asking" =>
          /\ \A m \in 1 .. chain :
                asks[m] >= llm.pass + (IF m < llm.model THEN 1 ELSE 0)
          /\ chain > 1 =>
                asks[chain] = Spent + (IF llm.model = chain THEN llm.attempt
                                       ELSE 0)
    /\ GivenUpLast

-----------------------------------------------------------------------------
(* Arithmetic.                                                             *)
LEMMA OneMorePass ==
    ASSUME NEW a \in Nat, NEW b \in Nat
    PROVE  /\ a * b \in Nat
           /\ (a + 1) * b = a * b + b
           /\ b * b \in Nat
  OBVIOUS

LEMMA FewerPasses ==
    ASSUME NEW a \in Nat, NEW b \in Nat, NEW c \in Nat, a <= b
    PROVE  a * c <= b * c
  OBVIOUS

LEMMA LLMInvBounds == LLMInv => RequestsAreBounded /\ GivenUpLast
<1> SUFFICES ASSUME LLMInv PROVE RequestsAreBounded
  BY DEF LLMInv
<1>1. /\ llm.pass \in Nat /\ MaxRetries \in Nat /\ llm.attempt \in Nat
      /\ llm.model \in Nat
  BY LLMAssumption DEF LLMInv, LLMTypeOK, Call
<1>2. (llm.pass + 1) * (MaxRetries + 1) = Spent + (MaxRetries + 1)
  BY <1>1, OneMorePass DEF Spent
<1>3. ASSUME NEW m \in Models PROVE asks[m] <= Spent + (MaxRetries + 1)
  <2>1. asks[m] <= Spent + Asked(m) /\ asks[m] \in Nat
    BY DEF LLMInv, LLMTypeOK
  <2>2. Asked(m) \in Nat /\ Asked(m) <= MaxRetries + 1
    BY <1>1 DEF Asked, LLMInv, Models
  <2>3. Spent \in Nat
    BY <1>1, OneMorePass DEF Spent
  <2>4. QED
    BY <1>1, <2>1, <2>2, <2>3
<1>4. QED
  BY <1>2, <1>3 DEF RequestsAreBounded, LLMInv

-----------------------------------------------------------------------------
(* The steps.                                                              *)
LEMMA LLMInit == BuildProvider => LLMInv
<1> SUFFICES ASSUME BuildProvider PROVE LLMInv
  OBVIOUS
<1>1. /\ llm.pc = "idle" /\ llm.model = 1 /\ llm.attempt = 0
      /\ llm.pass = 0 /\ llm.hops = 0 /\ llm.result = "none"
      /\ llm \in Call
  BY DEF BuildProvider, NoCall, Call
<1>2. Spent = 0
  BY <1>1, LLMAssumption DEF Spent
<1>3. QED
  BY <1>1, <1>2, LLMAssumption
     DEF LLMInv, LLMTypeOK, BuildProvider, GivenUpLast, Asked, Models,
         TransientError

LEMMA LLMAsk ==
    ASSUME LLMInv, Ask
    PROVE  LLMInv' /\ llm'.pc = "asking"
<1>1. llm = NoCall /\ llm' = [NoCall EXCEPT !.pc = "asking"]
  BY DEF Ask, LLMInv
<1>2. /\ llm'.pc = "asking" /\ llm'.model = 1 /\ llm'.attempt = 0
      /\ llm'.pass = 0 /\ llm'.hops = 0 /\ llm'.result = "none"
      /\ llm' \in Call
  BY <1>1 DEF NoCall, Call
<1>3. UNCHANGED <<chain, strict, asks>>
  BY DEF Ask
<1>4. Spent = 0 /\ Spent' = 0
  BY <1>1, <1>2, LLMAssumption DEF Spent, NoCall
<1>5. \A m \in Models : asks[m] = 0
  <2>1. ASSUME NEW m \in Models PROVE asks[m] \in Nat /\ asks[m] <= Asked(m)
    <3>1. asks[m] \in Nat /\ asks[m] <= 0 + Asked(m)
      BY <1>4 DEF LLMInv, LLMTypeOK
    <3>2. Asked(m) \in Nat
      BY <1>1, LLMAssumption DEF Asked, NoCall
    <3>3. QED
      BY <3>1, <3>2
  <2>2. ASSUME NEW m \in Models PROVE Asked(m) = 0
    BY <1>1, LLMAssumption DEF Asked, NoCall, Models
  <2>3. QED
    BY <2>1, <2>2
<1>6. QED
  BY <1>2, <1>3, <1>4, <1>5, LLMAssumption
     DEF LLMInv, LLMTypeOK, GivenUpLast, Asked, Models, TransientError

LEMMA LLMTakes ==
    ASSUME LLMInv, NEW R, Takes(R)
    PROVE  LLMInv' /\ llm'.pc = "idle" /\ llm.pc = "ended" /\ llm.result \in R
<1>1. /\ llm'.pc = "idle" /\ llm'.model = 1 /\ llm'.attempt = 0
      /\ llm'.pass = 0 /\ llm'.hops = 0 /\ llm'.result = "none"
      /\ llm' \in Call /\ llm' = NoCall
  BY DEF Takes, NoCall, Call
<1>2. Spent' = 0
  BY <1>1, LLMAssumption DEF Spent
<1>3. QED
  BY <1>1, <1>2, LLMAssumption
     DEF LLMInv, LLMTypeOK, Takes, GivenUpLast, Asked, Models, TransientError

(* What a reply finds, and what it has done to the counts.                 *)
LEMMA LLMReply ==
    ASSUME LLMInv, Reply
    PROVE  /\ llm \in Call /\ llm.pc = "asking" /\ llm.result = "none"
           /\ chain \in Nat /\ chain > 0 /\ chain <= MaxChain
           /\ llm.model \in 1 .. chain
           /\ llm.attempt \in 0 .. MaxRetries /\ llm.pass \in 0 .. MaxRetries
           /\ Spent \in Nat
           /\ asks' \in [Models -> Nat]
           /\ asks'[llm.model] = asks[llm.model] + 1
           /\ \A m \in Models \ {llm.model} : asks'[m] = asks[m]
           /\ asks'[llm.model] <= Spent + llm.attempt + 1
           /\ \A m \in Models : asks'[m] <= Spent + (MaxRetries + 1)
           /\ \A m \in Models : m > llm.model => asks'[m] <= Spent
           /\ \A m \in 1 .. chain :
                 asks'[m] >= llm.pass + (IF m <= llm.model THEN 1 ELSE 0)
           /\ chain > 1 =>
                 asks'[chain] = Spent + (IF llm.model = chain
                                         THEN llm.attempt + 1 ELSE 0)
           /\ chain' = chain /\ strict' = strict
<1>1. /\ llm \in Call /\ llm.pc = "asking" /\ llm.result = "none"
      /\ chain \in Nat /\ chain > 0 /\ chain <= MaxChain
      /\ llm.model \in 1 .. chain
      /\ llm.attempt \in 0 .. MaxRetries /\ llm.pass \in 0 .. MaxRetries
      /\ chain' = chain /\ strict' = strict
  BY LLMAssumption DEF LLMInv, LLMTypeOK, Reply, Call
<1>2. Spent \in Nat
  BY <1>1, LLMAssumption, OneMorePass DEF Spent
<1>3. llm.model \in Models /\ 1 .. chain \subseteq Models
  BY <1>1, LLMAssumption DEF Models
<1>4. /\ asks \in [Models -> Nat]
      /\ asks' = [asks EXCEPT ![llm.model] = @ + 1]
  BY DEF Reply, LLMInv, LLMTypeOK
<1>5. /\ asks' \in [Models -> Nat]
      /\ asks'[llm.model] = asks[llm.model] + 1
      /\ \A m \in Models \ {llm.model} : asks'[m] = asks[m]
  BY <1>3, <1>4
<1>6. ASSUME NEW m \in Models
      PROVE  /\ asks[m] <= Spent + Asked(m) /\ asks[m] \in Nat
             /\ m \in Nat
  BY <1>4 DEF LLMInv, Models
<1>7. asks'[llm.model] <= Spent + llm.attempt + 1
  <2>1. Asked(llm.model) = llm.attempt
    BY <1>1 DEF Asked
  <2>2. QED
    BY <1>1, <1>2, <1>3, <1>5, <1>6, <2>1
<1>8. ASSUME NEW m \in Models, m > llm.model PROVE asks'[m] <= Spent
  <2>1. Asked(m) = 0
    BY <1>1, <1>6, <1>8 DEF Asked
  <2>2. QED
    BY <1>1, <1>2, <1>5, <1>6, <1>8, <2>1
<1>9. ASSUME NEW m \in Models PROVE asks'[m] <= Spent + (MaxRetries + 1)
  <2>1. CASE m < llm.model
    <3>1. Asked(m) = MaxRetries + 1
      BY <1>1, <2>1 DEF Asked
    <3>2. QED
      BY <1>1, <1>5, <1>6, <2>1, <3>1
  <2>2. CASE m = llm.model
    BY <1>1, <1>2, <1>5, <1>6, <1>7, <2>2, LLMAssumption
  <2>3. CASE m > llm.model
    BY <1>1, <1>2, <1>5, <1>8, <2>3, LLMAssumption
  <2>4. QED
    BY <1>1, <1>6, <2>1, <2>2, <2>3
<1>10. ASSUME NEW m \in 1 .. chain
       PROVE  asks'[m] >= llm.pass + (IF m <= llm.model THEN 1 ELSE 0)
  <2>1. asks[m] >= llm.pass + (IF m < llm.model THEN 1 ELSE 0)
    BY <1>1 DEF LLMInv
  <2>2. m \in Models /\ m \in Nat
    BY <1>3
  <2>3. CASE m = llm.model
    BY <1>1, <1>5, <1>6, <2>1, <2>2, <2>3
  <2>4. CASE m # llm.model
    BY <1>1, <1>5, <1>6, <2>1, <2>2, <2>4
  <2>5. QED
    BY <2>3, <2>4
<1>11. chain > 1 => asks'[chain] = Spent + (IF llm.model = chain
                                            THEN llm.attempt + 1 ELSE 0)
  <2>1. chain \in Models
    BY <1>1, LLMAssumption DEF Models
  <2>2. chain > 1 =>
           asks[chain] = Spent + (IF llm.model = chain THEN llm.attempt ELSE 0)
    BY <1>1 DEF LLMInv
  <2>3. QED
    BY <1>1, <1>2, <1>5, <1>6, <2>1, <2>2
<1>12. QED
  BY <1>1, <1>2, <1>5, <1>7, <1>8, <1>9, <1>10, <1>11

(* The request ends: with a result that is no availability error, or with  *)
(* one after the last model of the last pass.                              *)
LEMMA LLMEnds ==
    ASSUME LLMInv, Reply, NEW r \in LLMError \cup {"ok"}, EndWith(r),
           r \in TransientError =>
              /\ llm.model = chain /\ llm.pass = MaxRetries
              /\ chain > 1 => llm.attempt = MaxRetries
    PROVE  LLMInv' /\ llm'.pc = "ended"
<1>0. USE LLMReply, LLMAssumption
<1>1. /\ llm' = [llm EXCEPT !.pc = "ended", !.result = r]
      /\ llm'.pc = "ended" /\ llm'.result = r /\ r # "none"
      /\ llm'.model = llm.model /\ llm'.attempt = llm.attempt
      /\ llm'.pass = llm.pass /\ llm'.hops = llm.hops
      /\ llm' \in Call
  BY DEF EndWith, Call, LLMError, TransientError
<1>2. Spent' = Spent
  BY <1>1 DEF Spent
<1>3. LLMTypeOK'
  BY <1>1 DEF LLMTypeOK, LLMInv
<1>4. ASSUME NEW m \in Models PROVE asks'[m] <= Spent' + Asked(m)'
  <2>1. m \in Nat
    BY DEF Models
  <2>2. CASE m < llm.model
    BY <1>1, <1>2, <2>1, <2>2 DEF Asked
  <2>3. CASE m = llm.model
    <3>1. Asked(m)' = llm.attempt + 1
      BY <1>1, <2>3 DEF Asked
    <3>2. asks'[m] <= Spent + llm.attempt + 1
      BY <2>3
    <3>3. QED
      BY <1>2, <3>1, <3>2
  <2>4. CASE m > llm.model
    <3>1. Asked(m)' = 0
      BY <1>1, <2>1, <2>4 DEF Asked
    <3>2. QED
      BY <1>2, <2>4, <3>1
  <2>5. QED
    BY <2>1, <2>2, <2>3, <2>4
<1>5. GivenUpLast'
  <2>1. SUFFICES ASSUME r \in TransientError PROVE GivenUpLast'
    BY <1>1 DEF GivenUpLast
  <2>2. \A m \in 1 .. chain : asks'[m] >= MaxRetries + 1
    BY <2>1
  <2>3. chain > 1 => asks'[chain] = (MaxRetries + 1) * (MaxRetries + 1)
    <3>1. SUFFICES ASSUME chain > 1
                   PROVE  asks'[chain] = (MaxRetries + 1) * (MaxRetries + 1)
      OBVIOUS
    <3>2. asks'[chain] = Spent + (MaxRetries + 1)
      BY <2>1, <3>1
    <3>3. Spent = MaxRetries * (MaxRetries + 1)
      BY <2>1 DEF Spent
    <3>4. QED
      BY <3>2, <3>3, OneMorePass
  <2>4. QED
    BY <1>1, <2>1, <2>2, <2>3 DEF GivenUpLast
<1>6. chain' < 2 => llm'.attempt = 0
  BY <1>1 DEF LLMInv
<1>7. QED
  BY <1>1, <1>3, <1>4, <1>5, <1>6 DEF LLMInv

(* structured_output_with_retries asks the chain once more.                *)
LEMMA LLMPasses ==
    ASSUME LLMInv, Reply, llm.pass < MaxRetries, llm.model = chain,
           chain > 1 => llm.attempt = MaxRetries,
           llm' = [llm EXCEPT !.pass = @ + 1, !.model = 1, !.attempt = 0,
                              !.hops = 0]
    PROVE  LLMInv' /\ llm'.pc = "asking"
<1>0. USE LLMReply, LLMAssumption
<1>1. /\ llm'.pc = "asking" /\ llm'.result = "none" /\ llm'.model = 1
      /\ llm'.attempt = 0 /\ llm'.pass = llm.pass + 1 /\ llm'.hops = 0
      /\ llm' \in Call
  <2>1. llm \in Call /\ llm.pc = "asking" /\ llm.result = "none"
        /\ llm.pass + 1 \in Nat
    OBVIOUS
  <2>2. QED
    BY ONLY <2>1, llm' = [llm EXCEPT !.pass = @ + 1, !.model = 1,
                                     !.attempt = 0, !.hops = 0] DEF Call
<1>2. Spent' = Spent + (MaxRetries + 1)
  BY <1>1, OneMorePass DEF Spent
<1>3. LLMTypeOK'
  BY <1>1 DEF LLMTypeOK, LLMInv
<1>4. ASSUME NEW m \in Models PROVE asks'[m] <= Spent' + Asked(m)'
  <2>1. Asked(m)' \in Nat
    BY <1>1 DEF Asked
  <2>2. asks'[m] <= Spent'
    BY <1>2
  <2>3. asks'[m] \in Nat /\ Spent' \in Nat
    BY <1>2
  <2>4. QED
    BY <2>1, <2>2, <2>3
<1>5. ASSUME NEW m \in 1 .. chain
      PROVE  asks'[m] >= llm'.pass + (IF m < llm'.model THEN 1 ELSE 0)
  BY <1>1
<1>6. chain > 1 =>
         asks'[chain] = Spent' + (IF llm'.model = chain THEN llm'.attempt
                                  ELSE 0)
  BY <1>1, <1>2
<1>7. GivenUpLast'
  BY <1>1 DEF GivenUpLast, TransientError
<1>8. QED
  BY <1>1, <1>3, <1>4, <1>5, <1>6, <1>7 DEF LLMInv

(* The next model of the chain.                                            *)
LEMMA LLMHops ==
    ASSUME LLMInv, Reply, llm.model < chain, NEW h \in Nat,
           llm' = [llm EXCEPT !.model = @ + 1, !.attempt = 0, !.hops = h]
    PROVE  LLMInv' /\ llm'.pc = "asking"
<1>0. USE LLMReply, LLMAssumption
<1>1. /\ llm'.pc = "asking" /\ llm'.result = "none"
      /\ llm'.model = llm.model + 1 /\ llm'.attempt = 0
      /\ llm'.pass = llm.pass /\ llm'.hops = h /\ llm' \in Call
  <2>1. llm \in Call /\ llm.pc = "asking" /\ llm.result = "none"
        /\ llm.model + 1 \in Nat
    OBVIOUS
  <2>2. QED
    BY ONLY <2>1, h \in Nat,
       llm' = [llm EXCEPT !.model = @ + 1, !.attempt = 0, !.hops = h]
       DEF Call
<1>2. Spent' = Spent
  BY <1>1 DEF Spent
<1>3. LLMTypeOK'
  BY <1>1 DEF LLMTypeOK, LLMInv
<1>4. ASSUME NEW m \in Models PROVE asks'[m] <= Spent' + Asked(m)'
  <2>1. m \in Nat /\ asks'[m] \in Nat
    BY DEF Models
  <2>2. CASE m <= llm.model
    <3>1. Asked(m)' = MaxRetries + 1
      BY <1>1, <2>1, <2>2 DEF Asked
    <3>2. QED
      BY <1>2, <3>1
  <2>3. CASE m > llm.model
    <3>1. Asked(m)' = 0
      BY <1>1, <2>1, <2>3 DEF Asked
    <3>2. asks'[m] <= Spent
      BY <2>3
    <3>3. QED
      BY <1>2, <3>1, <3>2
  <2>4. QED
    BY <2>1, <2>2, <2>3
<1>5. ASSUME NEW m \in 1 .. chain
      PROVE  asks'[m] >= llm'.pass + (IF m < llm'.model THEN 1 ELSE 0)
  BY <1>1
<1>6. chain > 1 =>
         asks'[chain] = Spent' + (IF llm'.model = chain THEN llm'.attempt
                                  ELSE 0)
  BY <1>1, <1>2
<1>7. GivenUpLast'
  BY <1>1 DEF GivenUpLast, TransientError
<1>8. QED
  BY <1>1, <1>3, <1>4, <1>5, <1>6, <1>7 DEF LLMInv

(* The same model again.                                                   *)
LEMMA LLMRetries ==
    ASSUME LLMInv, Reply, chain > 1, llm.attempt < MaxRetries,
           llm' = [llm EXCEPT !.attempt = @ + 1]
    PROVE  LLMInv' /\ llm'.pc = "asking"
<1>0. USE LLMReply, LLMAssumption
<1>1. /\ llm'.pc = "asking" /\ llm'.result = "none"
      /\ llm'.model = llm.model /\ llm'.attempt = llm.attempt + 1
      /\ llm'.pass = llm.pass /\ llm'.hops = llm.hops /\ llm' \in Call
  BY DEF Call
<1>2. Spent' = Spent
  BY <1>1 DEF Spent
<1>3. LLMTypeOK'
  BY <1>1 DEF LLMTypeOK, LLMInv
<1>4. ASSUME NEW m \in Models PROVE asks'[m] <= Spent' + Asked(m)'
  <2>1. m \in Nat /\ asks'[m] \in Nat
    BY DEF Models
  <2>2. CASE m < llm.model
    <3>1. Asked(m)' = MaxRetries + 1
      BY <1>1, <2>1, <2>2 DEF Asked
    <3>2. QED
      BY <1>2, <3>1
  <2>3. CASE m = llm.model
    <3>1. Asked(m)' = llm.attempt + 1
      BY <1>1, <2>3 DEF Asked
    <3>2. asks'[m] <= Spent + llm.attempt + 1
      BY <2>3
    <3>3. QED
      BY <1>2, <2>1, <3>1, <3>2
  <2>4. CASE m > llm.model
    <3>1. Asked(m)' = 0
      BY <1>1, <2>1, <2>4 DEF Asked
    <3>2. asks'[m] <= Spent
      BY <2>4
    <3>3. QED
      BY <1>2, <3>1, <3>2
  <2>5. QED
    BY <2>1, <2>2, <2>3, <2>4
<1>5. ASSUME NEW m \in 1 .. chain
      PROVE  asks'[m] >= llm'.pass + (IF m < llm'.model THEN 1 ELSE 0)
  <2>1. m \in Models /\ m \in Nat
    BY DEF Models
  <2>2. asks'[m] \in Nat
    BY <2>1
  <2>3. asks'[m] >= llm.pass + (IF m <= llm.model THEN 1 ELSE 0)
    OBVIOUS
  <2>4. QED
    BY <1>1, <2>1, <2>2, <2>3
<1>6. chain > 1 =>
         asks'[chain] = Spent' + (IF llm'.model = chain THEN llm'.attempt
                                  ELSE 0)
  BY <1>1, <1>2
<1>7. GivenUpLast'
  BY <1>1 DEF GivenUpLast, TransientError
<1>8. QED
  BY <1>1, <1>3, <1>4, <1>5, <1>6, <1>7 DEF LLMInv

(* Every step of the request.                                              *)
LEMMA LLMHopsOrRaises ==
    ASSUME LLMInv, Reply, NEW error \in LLMError, NEW h \in Nat,
           Hop(error, h),
           error \in TransientError => (chain > 1 => llm.attempt = MaxRetries)
    PROVE  LLMInv' /\ llm'.pc # "idle"
<1>1. llm.model \in 1 .. chain /\ chain \in Nat /\ llm.pass \in 0 .. MaxRetries
      /\ MaxRetries \in Nat
  BY LLMReply, LLMAssumption
<1>2. CASE llm.model < chain
  BY <1>2, LLMHops DEF Hop
<1>3. CASE ~(llm.model < chain)
  <2>1. llm.model = chain /\ Raise(error)
    BY <1>1, <1>3 DEF Hop
  <2>2. CASE error \in TransientError /\ llm.pass < MaxRetries
    BY <2>1, <2>2, LLMPasses DEF Raise
  <2>3. CASE ~(error \in TransientError /\ llm.pass < MaxRetries)
    <3>1. EndWith(error)
      BY <2>1, <2>3 DEF Raise
    <3>2. error \in TransientError => llm.pass = MaxRetries
      BY <1>1, <2>3
    <3>3. QED
      BY <2>1, <3>1, <3>2, LLMEnds
  <2>4. QED
    BY <2>2, <2>3
<1>4. QED
  BY <1>2, <1>3

LEMMA LLMSteps ==
    ASSUME LLMInv, LLMNext
    PROVE  LLMInv' /\ llm.pc = "asking" /\ llm'.pc # "idle"
<1>0. {"malformed", "error"} \subseteq LLMError
      /\ TransientError \subseteq LLMError
      /\ "malformed" \notin TransientError /\ "error" \notin TransientError
  BY DEF LLMError, TransientError
<1>1. CASE NoModel
  <2>1. /\ EndWith("error") /\ llm.pc = "asking"
        /\ UNCHANGED <<chain, strict, asks>>
    BY <1>0, <1>1 DEF NoModel, Raise
  <2>2. llm \in Call /\ llm.result = "none"
    BY <2>1 DEF LLMInv, LLMTypeOK
  <2>3. /\ llm'.pc = "ended" /\ llm'.result = "error"
        /\ llm'.model = llm.model /\ llm'.attempt = llm.attempt
        /\ llm'.pass = llm.pass /\ llm' \in Call
    BY <2>1, <2>2 DEF EndWith, Call, LLMError
  <2>4. Spent' = Spent /\ Spent \in Nat
    BY <2>2, <2>3, OneMorePass, LLMAssumption DEF Spent, Call
  <2>5. ASSUME NEW m \in Models PROVE asks'[m] <= Spent' + Asked(m)'
    <3>1. asks'[m] = asks[m] /\ asks[m] <= Spent + Asked(m) /\ asks[m] \in Nat
      BY <2>1 DEF LLMInv, LLMTypeOK
    <3>2. Asked(m) \in Nat /\ Asked(m)' \in Nat /\ Asked(m)' >= Asked(m)
      BY <2>1, <2>2, <2>3, LLMAssumption DEF Asked, Call, Models
    <3>3. QED
      BY <2>4, <3>1, <3>2
  <2>6. GivenUpLast' /\ LLMTypeOK'
    BY <1>0, <2>1, <2>3 DEF GivenUpLast, LLMInv, LLMTypeOK
  <2>7. QED
    BY <2>1, <2>3, <2>5, <2>6 DEF LLMInv
<1>2. CASE Answer
  <2>1. Reply /\ EndWith("ok")
    BY <1>2 DEF Answer
  <2>2. "ok" \notin TransientError
    BY DEF TransientError
  <2>3. QED
    BY <2>1, <2>2, LLMEnds, LLMReply
<1>3. ASSUME Reply, NEW error \in {"malformed", "error"}, Raise(error)
      PROVE  LLMInv' /\ llm.pc = "asking" /\ llm'.pc # "idle"
  <2>1. EndWith(error)
    BY <1>0, <1>3 DEF Raise
  <2>2. QED
    BY <1>0, <1>3, <2>1, LLMEnds, LLMReply
<1>4. CASE Malformed
  <2>1. Reply /\ llm.hops + 1 \in Nat
    BY <1>4, LLMReply DEF Malformed, Call
  <2>2. CASE \E error \in {"malformed", "error"} : Raise(error)
    BY <1>3, <2>1, <2>2
  <2>3. CASE Hop("malformed", llm.hops + 1)
    BY <1>0, <2>1, <2>3, LLMHopsOrRaises, LLMReply
  <2>4. QED
    BY <1>4, <2>2, <2>3 DEF Malformed
<1>5. CASE Deprecated
  <2>1. Reply /\ llm.hops \in Nat /\ Hop("error", llm.hops)
    BY <1>5, LLMReply DEF Deprecated, Call
  <2>2. QED
    BY <1>0, <2>1, LLMHopsOrRaises, LLMReply
<1>6. CASE Permanent
  BY <1>3, <1>6 DEF Permanent
<1>7. CASE Transient
  <2>1. Reply /\ llm.hops \in Nat /\ llm.attempt \in 0 .. MaxRetries
        /\ MaxRetries \in Nat
    BY <1>7, LLMReply, LLMAssumption DEF Transient, Call
  <2>2. PICK error \in TransientError :
           \/ /\ chain > 1
              /\ llm.attempt < MaxRetries
              /\ llm' = [llm EXCEPT !.attempt = @ + 1]
           \/ /\ chain = 1 \/ llm.attempt >= MaxRetries
              /\ Hop(error, llm.hops)
    BY <1>7 DEF Transient
  <2>3. CASE chain > 1 /\ llm.attempt < MaxRetries
    <3>1. llm' = [llm EXCEPT !.attempt = @ + 1]
      BY <2>1, <2>2, <2>3
    <3>2. QED
      BY <2>1, <2>3, <3>1, LLMRetries, LLMReply
  <2>4. CASE ~(chain > 1 /\ llm.attempt < MaxRetries)
    <3>1. Hop(error, llm.hops) /\ (chain > 1 => llm.attempt = MaxRetries)
      BY <2>1, <2>2, <2>4
    <3>2. QED
      BY <1>0, <2>1, <3>1, LLMHopsOrRaises, LLMReply
  <2>5. QED
    BY <2>3, <2>4
<1>8. QED
  BY <1>1, <1>2, <1>4, <1>5, <1>6, <1>7 DEF LLMNext

LEMMA LLMKeeps ==
    ASSUME LLMInv, UNCHANGED llmVars
    PROVE  LLMInv'
  BY DEF LLMInv, llmVars, LLMTypeOK, Spent, Asked, GivenUpLast
=============================================================================
