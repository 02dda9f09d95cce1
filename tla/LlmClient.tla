----------------------------- MODULE LlmClient -----------------------------
(***************************************************************************)
(* LiteLLMClient.complete_json (backend/app/llm/litellm_client.py): one    *)
(* request to a chain of models, with a budget of attempts per model, the  *)
(* rotation of API keys, the models known to reject response_format, and   *)
(* one repair of an answer that is not JSON.  A worker runs one review at  *)
(* a time and awaits each request, so there is one request in progress.    *)
(*                                                                         *)
(* What the provider does is a choice at each call:                        *)
(*   json       text that extract_json can use                             *)
(*   garbage    any other text                                             *)
(*   rejects    an error that names response_format                        *)
(*   limited    a rate limit                                               *)
(*   transient  a timeout, a lost connection, a server error               *)
(*   refused    any other error                                            *)
(***************************************************************************)
EXTENDS Integers, Sequences, FiniteSets, Functions

CONSTANTS
    Models,
    Keys,          \* API keys
    Fallbacks,     \* settings.fallback_model, split
    EnvKeys,       \* per model: its provider's keys in the settings, split
    MaxAttempts,   \* settings.llm_max_attempts
    NoKey          \* no key is passed to the provider

ASSUME ModelsAssumption   == Fallbacks \in Seq(Models)
ASSUME KeysAssumption     == EnvKeys \in [Models -> Seq(Keys)] /\ NoKey \notin Keys
ASSUME AttemptsAssumption == MaxAttempts \in Nat \ {0}

VARIABLES
    noJson,    \* LiteLLMClient._no_json_mode
    counter,   \* LiteLLMClient._counter
    call,      \* the request in progress
    tried      \* history: the <<model, key>> pairs it has called, in order

lvars == <<noJson, counter, call, tried>>

Answers == {"json", "garbage", "rejects", "limited", "transient", "refused"}

NoCall == [at |-> "idle", byok |-> <<>>, chain |-> <<>>, pos |-> 0, keys |-> <<>>,
           start |-> 0, attempt |-> 0, error |-> "none"]

ClientInit ==
    /\ noJson = {}
    /\ counter = 0
    /\ call = NoCall
    /\ tried = <<>>

\* An explicit key (BYOK, possibly several) goes before the settings' keys.
KeyList(m, byok) ==
    LET keys == IF byok # <<>> THEN byok ELSE EnvKeys[m]
    IN  IF keys = <<>> THEN <<NoKey>> ELSE keys

\* The fallbacks that are in the chain: each once, if there is a key for it.
InChain(i, model) ==
    /\ Fallbacks[i] # model
    /\ \A j \in DOMAIN Fallbacks : Fallbacks[j] = Fallbacks[i] => j >= i
    /\ EnvKeys[Fallbacks[i]] # <<>>

\* The primary model at 0, then the fallbacks at their places in the settings.
ModelChain(model) ==
    [i \in {0} \union {j \in DOMAIN Fallbacks : InChain(j, model)} |->
        IF i = 0 THEN model ELSE Fallbacks[i]]

OneModel(model) == [i \in {0} |-> model]

Model == call.chain[call.pos]

\* Seeded fault: the length of the key list does not extend the budget.
Attempts_Settings == MaxAttempts

\* Attempts for one model: enough to use each of its keys once.
Budget(keys) == IF Len(keys) > MaxAttempts THEN Len(keys) ELSE MaxAttempts

Attempts == Budget(call.keys)

Key == call.keys[((call.start + call.attempt) % Len(call.keys)) + 1]

\* Seeded fault: the fallbacks are tried with an explicit key too.
Request_AlwaysChain(model, byok) ==
    /\ call.at = "idle"
    /\ call' = [NoCall EXCEPT !.at = "open", !.byok = byok, !.chain = ModelChain(model)]
    /\ tried' = <<>>
    /\ UNCHANGED <<noJson, counter>>

\* complete_json: an explicit key is for one specific model.
Request(model, byok) ==
    /\ call.at = "idle"
    /\ call' = [NoCall EXCEPT !.at = "open", !.byok = byok,
                              !.chain = IF byok # <<>> THEN OneModel(model)
                                        ELSE ModelChain(model)]
    /\ tried' = <<>>
    /\ UNCHANGED <<noJson, counter>>

\* _complete_one begins: take the next starting point in the key list.
OpenModel ==
    /\ call.at = "open"
    /\ counter' = counter + 1
    /\ call' = [call EXCEPT !.at = "ask", !.keys = KeyList(Model, call.byok),
                            !.start = counter + 1, !.attempt = 0]
    /\ UNCHANGED <<noJson, tried>>

\* The model is given up with an LLMError: go on with the next one, or raise.
GiveUpModel(error) ==
    LET later == {i \in DOMAIN call.chain : i > call.pos} IN
    \/ /\ later = {}
       /\ call' = [call EXCEPT !.at = "raised", !.error = error]
    \/ \E next \in later :
          /\ \A i \in later : next <= i
          /\ call' = [call EXCEPT !.at = "open", !.pos = next, !.error = error]

\* The next turn of the attempt loop, if there is one.
NextAttempt(error) ==
    IF call.attempt + 1 < Attempts
    THEN call' = [call EXCEPT !.attempt = @ + 1]
    ELSE GiveUpModel(error)

\* _call with the key of this attempt, and what _complete_one does with the
\* provider's answer.  A rejection of response_format takes up an attempt, and
\* is an ordinary error once the model is known not to support it.
Ask(answer) ==
    /\ call.at = "ask"
    /\ tried' = Append(tried, <<Model, Key>>)
    /\ \/ /\ answer = "json"
          /\ call' = [call EXCEPT !.at = "returned"]
          /\ UNCHANGED noJson
       \/ /\ answer = "garbage"
          /\ call' = [call EXCEPT !.at = "repair"]
          /\ UNCHANGED noJson
       \/ /\ answer = "rejects" /\ Model \notin noJson
          /\ noJson' = noJson \union {Model}
          /\ NextAttempt("failed")
       \/ /\ answer = "limited"
          /\ NextAttempt("limited")
          /\ UNCHANGED noJson
       \/ /\ answer = "transient"
          /\ NextAttempt("failed")
          /\ UNCHANGED noJson
       \/ /\ answer = "refused"
          /\ GiveUpModel("failed")
          /\ UNCHANGED noJson
    /\ UNCHANGED counter

\* Seeded fault: an answer that could not be repaired is asked for again.
Repair_TryAgain(answer) ==
    /\ call.at = "repair"
    /\ tried' = Append(tried, <<Model, Key>>)
    /\ IF answer = "json" THEN call' = [call EXCEPT !.at = "returned"]
       ELSE IF call.attempt + 1 < Attempts
       THEN call' = [call EXCEPT !.at = "ask", !.attempt = @ + 1]
       ELSE GiveUpModel("failed")
    /\ UNCHANGED <<noJson, counter>>

\* _repair asks once more, with the same key and without response_format; any
\* error and any other text end the model.
Repair(answer) ==
    /\ call.at = "repair"
    /\ tried' = Append(tried, <<Model, Key>>)
    /\ IF answer = "json" THEN call' = [call EXCEPT !.at = "returned"]
                          ELSE GiveUpModel("failed")
    /\ UNCHANGED <<noJson, counter>>

ClientStep ==
    \/ OpenModel
    \/ \E answer \in Answers : Ask(answer)
    \/ \E answer \in {"json", "garbage", "refused"} : Repair(answer)

-----------------------------------------------------------------------------
(* Correctness.                                                             *)

CallsTo(m) == Cardinality({i \in DOMAIN tried : tried[i][1] = m})
KeysTried(m) == {tried[i][2] : i \in {j \in DOMAIN tried : tried[j][1] = m}}

\* An explicit key goes to no other model than the one it was given for, and a
\* key of the settings only to models of its provider, along fallback and
\* rotation: "BYOK (explicit key) targets one specific model".
KeysMatch ==
    \A i \in DOMAIN tried :
        IF call.byok # <<>>
        THEN tried[i][1] = call.chain[0] /\ tried[i][2] \in Range(call.byok)
        ELSE tried[i][2] \in Range(EnvKeys[tried[i][1]]) \union {NoKey}

\* The calls one request makes are bounded by its budget: the repair is not
\* one of the attempts, but happens at most once per model.
CallsBounded ==
    \A i \in DOMAIN call.chain :
        LET m == call.chain[i]
        IN  CallsTo(m) <= 1 + Budget(KeyList(m, call.byok))

\* A request fails only after every model of its chain was called, and fails
\* for a rate limit only after its last model was called with each of its keys:
\* "rotated round-robin and advanced on rate-limit to spread quota".
FailsOnlyExhausted ==
    call.at = "raised" =>
        /\ \A i \in DOMAIN call.chain : CallsTo(call.chain[i]) > 0
        /\ call.error = "limited" => KeysTried(Model) = Range(call.keys)

=============================================================================
