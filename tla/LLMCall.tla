------------------------------ MODULE LLMCall ------------------------------
(***************************************************************************)
(* One structured request of an agent to its language model: the retries   *)
(* of structured_output_with_retries around the chain of models of         *)
(* FallbackLLMProvider.  Both loops take their bound from one setting,     *)
(* llm_max_retries.                                                        *)
(*                                                                         *)
(* A model's reply is what the code tells apart: an object of the schema,  *)
(* malformed output (an LLMMalformedOutputError, or HTTP 400 about JSON),  *)
(* a retired model (404), a transient failure (a timeout, or an HTTP       *)
(* status worth a retry), or any other failure.                            *)
(***************************************************************************)
EXTENDS Naturals

CONSTANTS
    MaxChain,    \* bound: models configured for a role
    MaxRetries,  \* llm_max_retries
    MaxHops      \* llm_max_malformed_hops

ASSUME LLMAssumption ==
    /\ MaxChain \in Nat
    /\ MaxRetries \in Nat
    /\ MaxHops \in Nat

VARIABLES
    chain,   \* how many models the agent's provider has
    strict,  \* malformed output is raised as it is, without a hop
    llm,     \* the request under way
    asks     \* history: how often each model was asked in this request

llmVars == <<chain, strict, llm, asks>>

Models == 1 .. MaxChain
TransientError == {"timeout", "unavailable"}
LLMError == TransientError \cup {"malformed", "error"}

(* attempt counts the retries of one model, pass those of the whole chain, *)
(* hops the hops over malformed output within one pass.                    *)
Call == [pc : {"idle", "asking", "ended"}, model : Nat, attempt : Nat,
         pass : Nat, hops : Nat, result : LLMError \cup {"none", "ok"}]

NoCall == [pc |-> "idle", model |-> 1, attempt |-> 0, pass |-> 0,
           hops |-> 0, result |-> "none"]

(* build_provider: the models configured for the role that are set; none   *)
(* of them gives a provider without a model, one a plain provider.         *)
BuildProvider ==
    /\ chain \in 0 .. MaxChain
    /\ strict \in {s \in BOOLEAN : chain < 2 => s}
    /\ llm = NoCall
    /\ asks = [m \in Models |-> 0]

-----------------------------------------------------------------------------
(* The agent asks ...                                                      *)
Ask ==
    /\ llm.pc = "idle"
    /\ llm' = [llm EXCEPT !.pc = "asking"]
    /\ UNCHANGED <<chain, strict, asks>>

(* ... and takes one of these results.                                     *)
Takes(outcomes) ==
    /\ llm.pc = "ended"
    /\ llm.result \in outcomes
    /\ llm' = NoCall
    /\ asks' = [m \in Models |-> 0]
    /\ UNCHANGED <<chain, strict>>

EndWith(result) ==
    llm' = [llm EXCEPT !.pc = "ended", !.result = result]

(* Mutant: a pass over the chain is not counted.                           *)
RaiseUncounted(error) ==
    IF error \in TransientError /\ llm.pass < MaxRetries
    THEN llm' = [llm EXCEPT !.model = 1, !.attempt = 0, !.hops = 0]
    ELSE EndWith(error)

(* structured_output_with_retries: an error leaves the provider.           *)
Raise(error) ==
    IF error \in TransientError /\ llm.pass < MaxRetries
    THEN llm' = [llm EXCEPT !.pass = @ + 1, !.model = 1, !.attempt = 0,
                            !.hops = 0]
    ELSE EndWith(error)

(* Mutant: the hop counts the model that failed, not the one to come.      *)
HopOffByOne(error, hops) ==
    IF llm.model + 1 < chain
    THEN llm' = [llm EXCEPT !.model = @ + 1, !.attempt = 0, !.hops = hops]
    ELSE Raise(error)

(* On to the next model of the chain, with a budget of its own; past the   *)
(* last one the error of the last one is raised.                           *)
Hop(error, hops) ==
    IF llm.model < chain
    THEN llm' = [llm EXCEPT !.model = @ + 1, !.attempt = 0, !.hops = hops]
    ELSE Raise(error)

-----------------------------------------------------------------------------
(* The replies of the model that is asked.                                 *)
Reply ==
    /\ llm.pc = "asking"
    /\ chain > 0
    /\ asks' = [asks EXCEPT ![llm.model] = @ + 1]
    /\ UNCHANGED <<chain, strict>>

(* _chat without a model: an error before anything is sent.                *)
NoModel ==
    /\ llm.pc = "asking"
    /\ chain = 0
    /\ Raise("error")
    /\ UNCHANGED <<chain, strict, asks>>

Answer ==
    /\ Reply
    /\ EndWith("ok")

(* parse_and_validate fails, or HTTP 400 about JSON.  Strict mode and the  *)
(* plain provider raise either as it is, so that the agent takes the 400   *)
(* for any other error; else it is a hop, and malformed when none is left. *)
Malformed ==
    /\ Reply
    /\ \/ /\ strict
          /\ \E error \in {"malformed", "error"} : Raise(error)
       \/ /\ ~strict
          /\ llm.hops >= MaxHops
          /\ Raise("malformed")
       \/ /\ ~strict
          /\ llm.hops < MaxHops
          /\ Hop("malformed", llm.hops + 1)

(* is_model_deprecated_error: no retry, the next model at once.            *)
Deprecated ==
    /\ Reply
    /\ Hop("error", llm.hops)

(* Any failure that is neither malformed nor transient.                    *)
Permanent ==
    /\ Reply
    /\ Raise("error")

(* Mutant: the retries are counted from one.                               *)
TransientOnceMore ==
    /\ Reply
    /\ \E error \in TransientError :
          \/ /\ chain > 1
             /\ llm.attempt <= MaxRetries
             /\ llm' = [llm EXCEPT !.attempt = @ + 1]
          \/ /\ chain = 1 \/ llm.attempt > MaxRetries
             /\ Hop(error, llm.hops)

(* A timeout, or 0/408/429/5xx, an answer without content among them: the  *)
(* same model again until its budget is spent, then the next one.  A plain *)
(* provider has no budget of its own.                                      *)
Transient ==
    /\ Reply
    /\ \E error \in TransientError :
          \/ /\ chain > 1
             /\ llm.attempt < MaxRetries
             /\ llm' = [llm EXCEPT !.attempt = @ + 1]
          \/ /\ chain = 1 \/ llm.attempt >= MaxRetries
             /\ Hop(error, llm.hops)

LLMNext ==
    NoModel \/ Answer \/ Malformed \/ Deprecated \/ Permanent \/ Transient

-----------------------------------------------------------------------------
(* The types of the variables above.                                       *)
LLMTypeOK ==
    /\ chain \in 0 .. MaxChain
    /\ strict \in BOOLEAN
    /\ llm \in Call
    /\ llm.model \in 1 .. chain \/ llm.model = 1
    /\ llm.pc = "ended" <=> llm.result # "none"
    /\ asks \in [Models -> Nat]

(* The retries of the two loops multiply, and no more than that: no model  *)
(* is asked more than (llm_max_retries + 1)^2 times for one request.       *)
RequestsAreBounded ==
    /\ \A m \in Models : asks[m] <= (llm.pass + 1) * (MaxRetries + 1)
    /\ llm.pass <= MaxRetries

(* "Only when EVERY model in the chain is exhausted does the call raise"   *)
(* (llm/fallback.py): a request is given up for an availability error only *)
(* after every pass has asked each model, and the last model as often as   *)
(* its budget allows.                                                      *)
GivenUpLast ==
    llm.result \in TransientError =>
       /\ llm.pass = MaxRetries
       /\ \A m \in 1 .. chain : asks[m] >= MaxRetries + 1
       /\ chain > 1 => asks[chain] = (MaxRetries + 1) * (MaxRetries + 1)
=============================================================================
