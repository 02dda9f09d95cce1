--------------------------- MODULE GradingProofs ---------------------------
(***************************************************************************)
(* That a submission is accepted only if every gate was graded and passed, *)
(* for every rubric, every configuration, every set of models and keys and *)
(* every behaviour of the provider.                                        *)
(***************************************************************************)
EXTENDS Grading, DataLemmas

\* A criterion is being graded only while one is missing, so the grades stand
\* still once the decision is taken; and the grades have one of four verdicts.
GradesInOrder ==
    /\ rubric \in Rubrics
    /\ "at" \in DOMAIN call
    /\ graded \in Seq(Grades)
    /\ Len(graded) <= Len(rubric)
    /\ call.at # "idle" => Len(graded) < Len(rubric)

\* The decision to accept was taken on the grades that are still there.
AcceptedOnGrades ==
    result.decision = "accept" =>
        Len(graded) = Len(rubric) /\ \A i \in Gates : graded[i].verdict = "pass"

CertifiedInv == GradesInOrder /\ AcceptedOnGrades

\* The client keeps its record's shape and works only while it is busy.
LEMMA ClientKeepsShape ==
    ASSUME "at" \in DOMAIN call, ClientStep
    PROVE  "at" \in DOMAIN call' /\ call.at # "idle"
<1>1. ASSUME OpenModel PROVE "at" \in DOMAIN call' /\ call.at # "idle"
  BY <1>1 DEF OpenModel
<1>2. ASSUME NEW error, GiveUpModel(error) PROVE "at" \in DOMAIN call'
  BY <1>2 DEF GiveUpModel
<1>3. ASSUME NEW error, NextAttempt(error) PROVE "at" \in DOMAIN call'
  BY <1>2, <1>3 DEF NextAttempt
<1>4. ASSUME NEW answer \in Answers, Ask(answer)
      PROVE  "at" \in DOMAIN call' /\ call.at # "idle"
  <2>1. call.at # "idle" BY <1>4 DEF Ask
  <2>2. \/ call' = [call EXCEPT !.at = "returned"]
        \/ call' = [call EXCEPT !.at = "repair"]
        \/ \E error : NextAttempt(error)
        \/ \E error : GiveUpModel(error)
    BY <1>4 DEF Ask
  <2> QED BY <2>1, <2>2, <1>2, <1>3
<1>5. ASSUME NEW answer, Repair(answer) PROVE "at" \in DOMAIN call' /\ call.at # "idle"
  <2>1. call.at # "idle" BY <1>5 DEF Repair
  <2>2. call' = [call EXCEPT !.at = "returned"] \/ GiveUpModel("failed")
    BY <1>5 DEF Repair
  <2> QED BY <2>1, <2>2, <1>2
<1> QED BY <1>1, <1>4, <1>5 DEF ClientStep

\* The policy accepts only when no gate is failed, partial or errored.
LEMMA DecideAccepts ==
    ASSUME NEW rub, NEW cfg, NEW grades, Decide(rub, cfg, grades).decision = "accept"
    PROVE  \A i \in OfType("gate", rub) : grades[i].verdict \notin {"fail", "partial", "error"}
BY DEF Decide

LEMMA CertifiedInit == Init => CertifiedInv
<1> SUFFICES ASSUME Init PROVE CertifiedInv
  OBVIOUS
<1>1. rubric \in Seq([type : {"gate", "scored"}, weight : Nat])
  BY RubricsAssumption DEF Init
<1> QED BY <1>1 DEF Init, ClientInit, NoCall, NoResult, CertifiedInv, GradesInOrder,
               AcceptedOnGrades

LEMMA CertifiedStep == CertifiedInv /\ [Next]_vars => CertifiedInv'
<1> SUFFICES ASSUME CertifiedInv, [Next]_vars PROVE CertifiedInv'
  OBVIOUS
<1> USE DEF CertifiedInv
<1>0. Len(rubric) \in Nat /\ Len(graded) \in Nat /\ DOMAIN rubric = 1..Len(rubric)
  BY RubricsAssumption DEF GradesInOrder
<1>1. CASE StartCriterion
  BY <1>0, <1>1 DEF StartCriterion, Request, Review, NoCall, GradesInOrder,
                    AcceptedOnGrades, Gates, OfType
<1>2. CASE AskModel
  <2>1. "at" \in DOMAIN call' /\ call.at # "idle"
    BY <1>2, ClientKeepsShape DEF AskModel, GradesInOrder
  <2> QED BY <1>2, <2>1 DEF AskModel, Review, GradesInOrder, AcceptedOnGrades, Gates, OfType
<1>3. ASSUME NEW grade \in Grades, TakeGrade(grade), call.at # "idle"
      PROVE  CertifiedInv'
  <2>1. Len(graded) < Len(rubric) BY <1>3 DEF GradesInOrder
  <2>2. result.decision # "accept" BY <1>0, <2>1 DEF AcceptedOnGrades
  <2>3. graded' \in Seq(Grades) /\ Len(graded') = Len(graded) + 1
    BY <1>3 DEF TakeGrade, GradesInOrder
  <2>4. "at" \in DOMAIN call' /\ call'.at = "idle"
    BY <1>3 DEF TakeGrade, GradesInOrder
  <2>5. UNCHANGED <<rubric, result>> BY <1>3 DEF TakeGrade, Review
  <2>6. rubric' \in Rubrics /\ Len(rubric') = Len(rubric)
    BY <2>5 DEF GradesInOrder
  <2>7. GradesInOrder' BY <1>0, <2>1, <2>3, <2>4, <2>6 DEF GradesInOrder
  <2>8. AcceptedOnGrades' BY <2>2, <2>5 DEF AcceptedOnGrades
  <2> QED BY <2>7, <2>8
<1>4. CASE TakeJudgment
  BY <1>3, <1>4 DEF TakeJudgment
<1>5. CASE TakeError
  BY <1>3, <1>5 DEF TakeError, Grades
<1>6. CASE DecideReview
  <2>1. UNCHANGED <<rubric, graded, call>> /\ Len(graded) = Len(rubric)
    BY <1>6 DEF DecideReview, Review, lvars
  <2>2. ASSUME result'.decision = "accept", NEW i \in Gates
        PROVE  graded[i].verdict = "pass"
    <3>1. graded[i].verdict \notin {"fail", "partial", "error"}
      BY <1>6, <2>2, DecideAccepts DEF DecideReview, Gates
    <3>2. i \in 1..Len(graded) BY <1>0, <2>1, <2>2 DEF Gates, OfType
    <3>3. graded[i] \in Grades BY <3>2 DEF GradesInOrder
    <3>4. graded[i].verdict \in {"pass", "fail", "partial", "error"}
      BY <3>3 DEF Grades, Judgments, ErrorGrade
    <3> QED BY <3>1, <3>4
  <2> QED BY <2>1, <2>2 DEF GradesInOrder, AcceptedOnGrades, Gates, OfType
<1>7. CASE UNCHANGED vars
  BY <1>7 DEF vars, lvars, GradesInOrder, AcceptedOnGrades, Gates, OfType
<1> QED BY <1>1, <1>2, <1>4, <1>5, <1>6, <1>7 DEF Next

\* A submission is accepted only if every gate was graded and passed, whatever
\* the provider did meanwhile (engine/policy.py, engine/grader.py).
THEOREM AcceptanceCertified == Spec => []AcceptedIsCertified
<1>1. CertifiedInv => AcceptedIsCertified
  BY DEF CertifiedInv, AcceptedOnGrades, AcceptedIsCertified
<1> QED BY <1>1, CertifiedInit, CertifiedStep, PTL DEF Spec

-----------------------------------------------------------------------------
(* The requests of the client.                                              *)

Chains == {<<>>} \union {OneModel(m) : m \in Models} \union {ModelChain(m) : m \in Models}

SomeKeys == Keys \union {NoKey}

Calls == [at : {"idle", "open", "ask", "repair", "returned", "raised"}, byok : Seq(Keys),
          chain : Chains, pos : Nat, keys : Seq(SomeKeys), start : Nat, attempt : Nat,
          error : {"none", "failed", "limited"}]

\* A busy client is at a place of its chain, which an explicit key keeps to one
\* model; while it asks, it has the keys of the model and an attempt of its budget.
ClientOK ==
    /\ call \in Calls
    /\ counter \in Nat
    /\ tried \in Seq(Models \X SomeKeys)
    /\ call.at # "idle" => call.pos \in DOMAIN call.chain
    /\ call.byok # <<>> => call.chain \in {<<>>} \union {OneModel(m) : m \in Models}
    /\ call.at \in {"ask", "repair"} =>
          call.keys = KeyList(Model, call.byok) /\ call.attempt < Attempts

\* The keys of the first n attempts.
Turns(n) == {call.keys[((call.start + j) % Len(call.keys)) + 1] : j \in 0..(n - 1)}

\* Of the model in hand every attempt was a call, with the next key in turn; those
\* before it in the chain were called, those behind it were not.
CallsInOrder ==
    /\ call.at # "idle" =>
          \A i \in DOMAIN call.chain :
              /\ i > call.pos => CallsTo(call.chain[i]) = 0
              /\ i < call.pos => CallsTo(call.chain[i]) > 0
    /\ call.at = "open" => CallsTo(Model) = 0
    /\ call.at = "ask" => CallsTo(Model) = call.attempt /\ KeysTried(Model) = Turns(call.attempt)
    /\ call.at = "repair" => CallsTo(Model) = call.attempt + 1
    /\ call.at = "raised" =>
          /\ CallsTo(Model) > 0
          /\ \A i \in DOMAIN call.chain : i <= call.pos
          /\ call.error = "limited" => KeysTried(Model) = Range(call.keys)

ClientInv == ClientOK /\ KeysMatch /\ CallsBounded /\ CallsInOrder

\* A model is in a chain once.
LEMMA ChainShape ==
  ASSUME NEW c \in Chains
  PROVE  /\ DOMAIN c \subseteq Nat
         /\ \A i \in DOMAIN c : c[i] \in Models
         /\ \A i, j \in DOMAIN c : c[i] = c[j] => i = j
<1>1. CASE c = <<>>
  BY <1>1
<1>2. CASE \E m \in Models : c = OneModel(m)
  BY <1>2 DEF OneModel
<1>3. ASSUME NEW m \in Models, c = ModelChain(m)
      PROVE  /\ DOMAIN c \subseteq Nat
             /\ \A i \in DOMAIN c : c[i] \in Models
             /\ \A i, j \in DOMAIN c : c[i] = c[j] => i = j
  <2>1. /\ DOMAIN Fallbacks = 1..Len(Fallbacks) /\ Len(Fallbacks) \in Nat
        /\ \A i \in DOMAIN Fallbacks : Fallbacks[i] \in Models
    BY ModelsAssumption
  <2>2. /\ DOMAIN c = {0} \union {j \in DOMAIN Fallbacks : InChain(j, m)}
        /\ \A i \in DOMAIN c : c[i] = IF i = 0 THEN m ELSE Fallbacks[i]
    BY <1>3 DEF ModelChain
  <2>3. \A i \in DOMAIN c : i # 0 => i \in DOMAIN Fallbacks /\ InChain(i, m)
    BY <2>2
  <2>4. ASSUME NEW i \in DOMAIN c, NEW j \in DOMAIN c, c[i] = c[j]
        PROVE  i = j
    <3>1. CASE i = 0 \/ j = 0
      BY <2>2, <2>3, <2>4, <3>1 DEF InChain
    <3>2. CASE i # 0 /\ j # 0
      <4>1. i >= j /\ j >= i
        BY <2>2, <2>3, <2>4, <3>2 DEF InChain
      <4> QED  BY <2>1, <2>3, <3>2, <4>1
    <3> QED  BY <3>1, <3>2
  <2> QED  BY <2>1, <2>2, <2>3, <2>4
<1> QED  BY <1>1, <1>2, <1>3 DEF Chains

\* There is something to rotate over: an explicit key, a key of the model's provider,
\* or none.
LEMMA KeyListShape ==
  ASSUME NEW m \in Models, NEW byok \in Seq(Keys), NEW keys, keys = KeyList(m, byok)
  PROVE  /\ keys \in Seq(SomeKeys) /\ Len(keys) \in Nat \ {0}
         /\ \A i \in 1..Len(keys) :
               IF byok # <<>> THEN keys[i] \in Range(byok)
               ELSE keys[i] \in Range(EnvKeys[m]) \union {NoKey}
<1>1. EnvKeys[m] \in Seq(Keys)
  BY KeysAssumption
<1>2. ASSUME NEW s \in Seq(Keys), s # <<>>
      PROVE  /\ s \in Seq(SomeKeys) /\ Len(s) \in Nat \ {0}
             /\ \A i \in 1..Len(s) : s[i] \in Range(s)
  BY <1>2 DEF SomeKeys, Range
<1>3. CASE byok # <<>>
  BY <1>2, <1>3 DEF KeyList
<1>4. CASE byok = <<>> /\ EnvKeys[m] # <<>>
  BY <1>1, <1>2, <1>4 DEF KeyList
<1>5. CASE byok = <<>> /\ EnvKeys[m] = <<>>
  BY <1>5 DEF KeyList, SomeKeys
<1> QED  BY <1>3, <1>4, <1>5

LEMMA BudgetShape ==
  ASSUME NEW keys, Len(keys) \in Nat \ {0}
  PROVE  Budget(keys) \in Nat \ {0} /\ Budget(keys) >= Len(keys)
<1> QED  BY AttemptsAssumption DEF Budget

\* Rotating n times over n places from any of them comes to each.
LEMMA Rotation ==
  ASSUME NEW n \in Nat \ {0}, NEW s \in Nat, NEW k \in 0..(n - 1)
  PROVE  \E j \in 0..(n - 1) : (s + j) % n = k
<1> DEFINE q == s \div n
           m == s % n
<1>1. q \in Int /\ m \in 0..(n - 1) /\ s = n * q + m
  BY SMTT(30)
<1>2. \A x \in Int : (n * x + k) % n = k
  BY SMTT(30)
<1> HIDE DEF q, m
<1>3. CASE k >= m
  <2>1. k - m \in 0..(n - 1)  BY <1>1, <1>3
  <2>2. s + (k - m) = n * q + k  BY <1>1
  <2> QED  BY <1>1, <1>2, <2>1, <2>2
<1>4. CASE k < m
  <2>1. n + k - m \in 0..(n - 1)  BY <1>1, <1>4
  <2>2. s + (n + k - m) = n * (q + 1) + k  BY <1>1
  <2>3. q + 1 \in Int  BY <1>1
  <2> QED  BY <1>2, <2>1, <2>2, <2>3
<1> QED  BY <1>1, <1>3, <1>4

\* The budget is enough to come to each key.
LEMMA TurnsReachAll ==
  ASSUME NEW n \in Nat, call.keys \in Seq(SomeKeys), Len(call.keys) \in Nat \ {0},
         n >= Len(call.keys), call.start \in Nat
  PROVE  Turns(n) = Range(call.keys)
<1> DEFINE keys == call.keys
           len  == Len(keys)
<1>1. DOMAIN keys = 1..len  OBVIOUS
<1> HIDE DEF keys
<1>2. ASSUME NEW j \in 0..(n - 1) PROVE keys[((call.start + j) % len) + 1] \in Range(keys)
  <2>1. call.start + j \in Nat  OBVIOUS
  <2>2. (call.start + j) % len \in 0..(len - 1)
    BY <2>1, SMTT(30) DEF keys
  <2>3. ((call.start + j) % len) + 1 \in 1..len  BY <2>2 DEF keys
  <2> QED  BY <1>1, <2>3 DEF Range
<1>3. ASSUME NEW i \in 1..len
      PROVE  \E j \in 0..(n - 1) : ((call.start + j) % len) + 1 = i
  <2>1. i - 1 \in 0..(len - 1)  BY <1>3 DEF keys
  <2>2. PICK j \in 0..(len - 1) : (call.start + j) % len = i - 1
    BY <2>1, Rotation DEF keys
  <2>3. j \in 0..(n - 1)  BY DEF keys
  <2>4. ((call.start + j) % len) + 1 = i  BY <1>3, <2>2 DEF keys
  <2> QED  BY <2>3, <2>4
<1>4. ASSUME NEW i \in 1..len PROVE keys[i] \in Turns(n)
  BY <1>3 DEF Turns, keys
<1>5. Turns(n) \subseteq Range(keys)
  BY <1>2 DEF Turns, keys
<1>6. Range(keys) \subseteq Turns(n)
  BY <1>1, <1>4 DEF Range
<1> QED  BY <1>5, <1>6 DEF keys

\* What one more call does to the counts.
LEMMA OneMoreCall ==
  ASSUME tried \in Seq(Models \X SomeKeys), NEW m, NEW k, tried' = Append(tried, <<m, k>>)
  PROVE  /\ \A x : CallsTo(x) \in Nat
         /\ \A x : x # m => CallsTo(x)' = CallsTo(x) /\ KeysTried(x)' = KeysTried(x)
         /\ CallsTo(m)' = CallsTo(m) + 1
         /\ KeysTried(m)' = KeysTried(m) \union {k}
<1> DEFINE n     == Len(tried)
           At(x) == {i \in DOMAIN tried : tried[i][1] = x}
<1>1. /\ n \in Nat /\ DOMAIN tried = 1..n /\ DOMAIN tried' = 1..(n + 1)
      /\ \A i \in 1..n : tried'[i] = tried[i]
      /\ tried'[n + 1] = <<m, k>>
  OBVIOUS
<1> HIDE DEF n
<1>2. ASSUME NEW x PROVE IsFiniteSet(At(x)) /\ Cardinality(At(x)) \in Nat
  <2>1. IsFiniteSet(1..n)  BY <1>1, FS_Interval
  <2>2. At(x) \subseteq 1..n  BY <1>1
  <2> QED  BY <2>1, <2>2, FS_Subset, FS_CardinalityType
<1>3. ASSUME NEW x, x # m PROVE CallsTo(x)' = CallsTo(x) /\ KeysTried(x)' = KeysTried(x)
  <2>1. {i \in DOMAIN tried' : tried'[i][1] = x} = At(x)
    BY <1>1, <1>3
  <2>2. {tried'[i][2] : i \in At(x)} = {tried[i][2] : i \in At(x)}
    BY <1>1
  <2> QED  BY <2>1, <2>2 DEF CallsTo, KeysTried
<1>4. {i \in DOMAIN tried' : tried'[i][1] = m} = At(m) \union {n + 1}
  BY <1>1
<1>5. CallsTo(m)' = CallsTo(m) + 1
  <2>1. n + 1 \notin At(m)  BY <1>1
  <2>2. Cardinality(At(m) \union {n + 1}) = Cardinality(At(m)) + 1
    <3>1. IsFiniteSet(At(m))  BY <1>2
    <3> HIDE DEF At
    <3> QED  BY <2>1, <3>1, FS_AddElement
  <2> QED  BY <1>4, <2>2 DEF CallsTo
<1>6. KeysTried(m)' = KeysTried(m) \union {k}
  <2>1. {tried'[i][2] : i \in At(m) \union {n + 1}} = {tried[i][2] : i \in At(m)} \union {k}
    BY <1>1
  <2> QED  BY <1>4, <2>1 DEF KeysTried
<1> QED  BY <1>2, <1>3, <1>5, <1>6 DEF CallsTo

-----------------------------------------------------------------------------
(* The steps of the client.                                                 *)

LEMMA ClientStart ==
  ASSUME Init
  PROVE  ClientInv
<1>1. call = NoCall /\ counter = 0 /\ tried = <<>>
  BY DEF Init, ClientInit
<1>2. ClientOK
  BY <1>1 DEF ClientOK, Calls, Chains, NoCall
<1> QED  BY <1>1, <1>2 DEF ClientInv, NoCall, KeysMatch, CallsBounded, CallsInOrder

\* A new request forgets the calls of the one before.
LEMMA ClientRequest ==
  ASSUME ClientInv, NEW model \in Models, NEW byok \in Seq(Keys), Request(model, byok)
  PROVE  ClientInv'
<1> DEFINE chain == IF byok # <<>> THEN OneModel(model) ELSE ModelChain(model)
<1>1. chain \in Chains /\ 0 \in DOMAIN chain
  BY DEF Chains, OneModel, ModelChain
<1>2. call' = [NoCall EXCEPT !.at = "open", !.byok = byok, !.chain = chain]
      /\ tried' = <<>> /\ counter' = counter
  BY DEF Request
<1>3. byok # <<>> => chain \in {OneModel(m) : m \in Models}
  OBVIOUS
<1> HIDE DEF chain
<1>4. /\ call' \in Calls /\ call'.at = "open" /\ call'.byok = byok /\ call'.chain = chain
      /\ call'.pos = 0
  BY <1>1, <1>2 DEF Calls, NoCall
<1>5. \A i \in DOMAIN chain : i \in Nat
  BY <1>1, ChainShape
<1>6. \A x : CallsTo(x)' = 0
  <2> SUFFICES ASSUME NEW x PROVE CallsTo(x)' = 0  OBVIOUS
  <2>1. {i \in DOMAIN tried' : tried'[i][1] = x} = {}  BY <1>2
  <2> QED  BY <2>1, FS_EmptySet DEF CallsTo
<1>7. \A m \in Models : Budget(KeyList(m, byok)) \in Nat
  <2> SUFFICES ASSUME NEW m \in Models, NEW keys, keys = KeyList(m, byok)
               PROVE  Budget(keys) \in Nat
    OBVIOUS
  <2>1. Len(keys) \in Nat \ {0}  BY KeyListShape
  <2> QED  BY <2>1, BudgetShape
<1>8. \A i \in DOMAIN chain : chain[i] \in Models
  BY <1>1, ChainShape
<1>9. ClientOK'
  BY <1>1, <1>2, <1>3, <1>4 DEF ClientInv, ClientOK
<1>10. KeysMatch'
  BY <1>2 DEF KeysMatch
<1>11. CallsBounded'
  BY <1>4, <1>6, <1>7, <1>8 DEF CallsBounded, KeyList, Budget
<1>12. CallsInOrder'
  BY <1>4, <1>5, <1>6 DEF CallsInOrder, Model
<1> QED  BY <1>9, <1>10, <1>11, <1>12 DEF ClientInv

LEMMA ClientOpens ==
  ASSUME ClientInv, OpenModel
  PROVE  ClientInv'
<1> DEFINE keys == KeyList(Model, call.byok)
<1>0. /\ call \in Calls /\ call.at = "open" /\ counter \in Nat /\ call.pos \in DOMAIN call.chain
      /\ Model \in Models /\ tried' = tried /\ counter' \in Nat
  <2>1. call \in Calls /\ call.at = "open" /\ call.pos \in DOMAIN call.chain /\ counter \in Nat
    BY DEF ClientInv, ClientOK, OpenModel
  <2> QED  BY <2>1, ChainShape DEF Calls, Model, OpenModel
<1>1. keys \in Seq(SomeKeys) /\ Len(keys) \in Nat \ {0}
  BY <1>0, KeyListShape DEF Calls
<1>2. call' = [call EXCEPT !.at = "ask", !.keys = keys, !.start = counter + 1, !.attempt = 0]
  BY DEF OpenModel
<1>3. /\ call' \in Calls /\ call'.at = "ask" /\ call'.keys = keys /\ call'.attempt = 0
      /\ UNCHANGED <<call.pos, call.chain, call.byok>>
  <2>1. counter + 1 \in Nat  BY <1>0
  <2> HIDE DEF keys
  <2>2. call' \in Calls  BY <1>0, <1>1, <1>2, <2>1 DEF Calls
  <2> QED  BY <1>0, <1>2, <2>2 DEF Calls
<1>4. Model' = Model /\ keys = KeyList(Model, call.byok)'
  BY <1>3 DEF Model, KeyList
<1> HIDE DEF keys
<1>5. Attempts' \in Nat \ {0}
  BY <1>1, <1>3, BudgetShape DEF Attempts
<1>6. \A x : CallsTo(x)' = CallsTo(x) /\ KeysTried(x)' = KeysTried(x)
  BY <1>0 DEF CallsTo, KeysTried
<1>7. KeysTried(Model) = {} /\ Turns(0)' = {}
  <2>1. CallsTo(Model) = 0  BY <1>0 DEF ClientInv, CallsInOrder
  <2>2. {i \in DOMAIN tried : tried[i][1] = Model} = {}
    <3>1. DOMAIN tried = 1..Len(tried) /\ Len(tried) \in Nat  BY DEF ClientInv, ClientOK
    <3>2. IsFiniteSet(1..Len(tried))  BY <3>1, FS_Interval
    <3>3. IsFiniteSet({i \in DOMAIN tried : tried[i][1] = Model})  BY <3>1, <3>2, FS_Subset
    <3> QED  BY <2>1, <3>3, FS_EmptySet DEF CallsTo
  <2> QED  BY <2>2 DEF KeysTried, Turns
<1>8. ClientOK'
  BY <1>0, <1>3, <1>4, <1>5 DEF ClientInv, ClientOK
<1>9. KeysMatch'
  BY <1>0, <1>3 DEF ClientInv, KeysMatch
<1>10. CallsBounded'
  BY <1>0, <1>3, <1>6 DEF ClientInv, CallsBounded, KeyList
<1>11. CallsInOrder'
  BY <1>0, <1>3, <1>4, <1>6, <1>7 DEF ClientInv, CallsInOrder
<1> QED  BY <1>8, <1>9, <1>10, <1>11 DEF ClientInv

\* What a call leaves, whatever is made of its answer.
Called(m) ==
    /\ m = Model /\ m \in Models /\ call.at \in {"ask", "repair"}
    /\ tried' \in Seq(Models \X SomeKeys)
    /\ UNCHANGED counter
    /\ \A x : x # m => CallsTo(x)' = CallsTo(x)
    /\ CallsTo(m)' \in 1..(1 + Budget(KeyList(m, call.byok)))
    /\ call.at = "ask" =>
          /\ CallsTo(m)' = call.attempt + 1
          /\ KeysTried(m)' = Turns(call.attempt + 1)
    /\ \A i \in DOMAIN tried' :
          IF call.byok # <<>>
          THEN tried'[i][1] = call.chain[0] /\ tried'[i][2] \in Range(call.byok)
          ELSE tried'[i][2] \in Range(EnvKeys[tried'[i][1]]) \union {NoKey}

LEMMA CallCounts ==
  ASSUME ClientInv, call.at \in {"ask", "repair"}, UNCHANGED counter,
         tried' = Append(tried, <<Model, Key>>)
  PROVE  \E m : Called(m)
<1> DEFINE keys == call.keys
<1>0. PICK m, k : m = Model /\ k = Key
  OBVIOUS
<1>1. /\ call \in Calls /\ call.pos \in DOMAIN call.chain /\ tried \in Seq(Models \X SomeKeys)
      /\ keys = KeyList(m, call.byok) /\ call.attempt < Attempts
  BY <1>0 DEF ClientInv, ClientOK
<1>2. m \in Models
  BY <1>0, <1>1, ChainShape DEF Calls, Model
<1>3. /\ keys \in Seq(SomeKeys) /\ Len(keys) \in Nat \ {0}
      /\ \A i \in 1..Len(keys) :
            IF call.byok # <<>> THEN keys[i] \in Range(call.byok)
            ELSE keys[i] \in Range(EnvKeys[m]) \union {NoKey}
  BY <1>1, <1>2, KeyListShape DEF Calls
<1>4. \E i \in 1..Len(keys) : k = keys[i]
  <2>1. call.start + call.attempt \in Nat  BY <1>1 DEF Calls
  <2>2. (call.start + call.attempt) % Len(keys) \in 0..(Len(keys) - 1)
    BY <1>3, <2>1, SMTT(30)
  <2>3. ((call.start + call.attempt) % Len(keys)) + 1 \in 1..Len(keys)
    BY <1>3, <2>2
  <2> QED  BY <1>0, <2>3 DEF Key
<1>5. k \in SomeKeys
  BY <1>3, <1>4
<1>6. IF call.byok # <<>> THEN k \in Range(call.byok) ELSE k \in Range(EnvKeys[m]) \union {NoKey}
  BY <1>3, <1>4
<1>7. call.byok # <<>> => m = call.chain[0]
  BY <1>0, <1>1 DEF ClientInv, ClientOK, OneModel, Model
<1>8. tried' = Append(tried, <<m, k>>)
  BY <1>0
<1>9. call.attempt \in Nat /\ Budget(keys) \in Nat \ {0} /\ call.attempt < Budget(keys)
  BY <1>1, <1>3, BudgetShape DEF Calls, Attempts
<1>10. /\ call.at = "ask" => CallsTo(m) = call.attempt /\ KeysTried(m) = Turns(call.attempt)
       /\ call.at = "repair" => CallsTo(m) = call.attempt + 1
  BY <1>0 DEF ClientInv, CallsInOrder
<1>11. Turns(call.attempt + 1) = Turns(call.attempt) \union {k}
  <2>1. 0..((call.attempt + 1) - 1) = (0..(call.attempt - 1)) \union {call.attempt}
    BY <1>9
  <2> QED  BY <1>0, <2>1 DEF Turns, Key
<1>12. \A i \in DOMAIN tried : 
          IF call.byok # <<>>
          THEN tried[i][1] = call.chain[0] /\ tried[i][2] \in Range(call.byok)
          ELSE tried[i][2] \in Range(EnvKeys[tried[i][1]]) \union {NoKey}
  BY DEF ClientInv, KeysMatch
<1> HIDE DEF keys
<1>13. /\ \A x : x # m => CallsTo(x)' = CallsTo(x)
       /\ CallsTo(m)' = CallsTo(m) + 1
       /\ KeysTried(m)' = KeysTried(m) \union {k}
  BY <1>1, <1>8, OneMoreCall
<1>14. tried' \in Seq(Models \X SomeKeys)
  BY <1>1, <1>2, <1>5, <1>8
<1>15. \A i \in DOMAIN tried' : tried'[i] = <<m, k>> \/ (i \in DOMAIN tried /\ tried'[i] = tried[i])
  BY <1>1, <1>8
<1>16. \A i \in DOMAIN tried' :
          IF call.byok # <<>>
          THEN tried'[i][1] = call.chain[0] /\ tried'[i][2] \in Range(call.byok)
          ELSE tried'[i][2] \in Range(EnvKeys[tried'[i][1]]) \union {NoKey}
  BY <1>6, <1>7, <1>12, <1>15
<1>17. CallsTo(m)' \in 1..(1 + Budget(KeyList(m, call.byok)))
  BY <1>1, <1>9, <1>10, <1>13
<1>18. call.at = "ask" => CallsTo(m)' = call.attempt + 1 /\ KeysTried(m)' = Turns(call.attempt + 1)
  BY <1>10, <1>11, <1>13
<1>19. Called(m)
  BY <1>0, <1>2, <1>13, <1>14, <1>16, <1>17, <1>18 DEF Called
<1> QED  BY <1>19

\* A call counts for its model, and so keeps to the budgets and the order of the chain.
LEMMA CallKeeps ==
  ASSUME ClientInv, NEW m, Called(m), UNCHANGED <<call.chain, call.byok>>
  PROVE  /\ KeysMatch' /\ CallsBounded' /\ CallsTo(m)' > 0
         /\ \A i \in DOMAIN call.chain :
               /\ i > call.pos => CallsTo(call.chain[i])' = 0
               /\ i <= call.pos => CallsTo(call.chain[i])' > 0
<1>1. /\ call \in Calls /\ call.pos \in DOMAIN call.chain /\ m = call.chain[call.pos]
      /\ call.pos \in Nat /\ DOMAIN call.chain \subseteq Nat
      /\ \A i, j \in DOMAIN call.chain : call.chain[i] = call.chain[j] => i = j
  <2>1. call \in Calls /\ call.pos \in DOMAIN call.chain /\ m = call.chain[call.pos]
    BY DEF ClientInv, ClientOK, Called, Model
  <2> QED  BY <2>1, ChainShape DEF Calls
<1>2. /\ \A x : x # m => CallsTo(x)' = CallsTo(x)
      /\ CallsTo(m)' > 0
      /\ CallsTo(m)' <= 1 + Budget(KeyList(m, call.byok))
  <2>1. KeyList(m, call.byok) \in Seq(SomeKeys) /\ Len(KeyList(m, call.byok)) \in Nat \ {0}
    BY <1>1, KeyListShape DEF Calls, Called
  <2>2. Budget(KeyList(m, call.byok)) \in Nat  BY <2>1, BudgetShape
  <2> QED  BY <2>2 DEF Called
<1>3. KeysMatch'
  BY DEF Called, KeysMatch
<1>4. CallsBounded'
  <2> SUFFICES ASSUME NEW i \in DOMAIN call.chain, NEW x, x = call.chain[i]
               PROVE  CallsTo(x)' <= 1 + Budget(KeyList(x, call.byok))
    BY DEF CallsBounded, KeyList, Budget
  <2>1. CallsTo(x) <= 1 + Budget(KeyList(x, call.byok))
    BY DEF ClientInv, CallsBounded
  <2> QED  BY <1>2, <2>1
<1>5. ASSUME NEW i \in DOMAIN call.chain, NEW x, x = call.chain[i]
      PROVE  /\ i > call.pos => CallsTo(x)' = 0
             /\ i <= call.pos => CallsTo(x)' > 0
  <2>1. x = m => i = call.pos
    BY <1>1, <1>5
  <2>2. /\ i > call.pos => CallsTo(x) = 0
        /\ i < call.pos => CallsTo(x) > 0
    BY <1>5 DEF ClientInv, CallsInOrder, Called
  <2>3. i \in Nat  BY <1>1
  <2>4. CASE x = m  BY <1>1, <1>2, <2>1, <2>4
  <2>5. CASE x # m
    <3>1. i # call.pos  BY <1>1, <1>5, <2>5
    <3> QED  BY <1>1, <1>2, <2>2, <2>3, <2>5, <3>1
  <2> QED  BY <2>4, <2>5
<1>6. \A i \in DOMAIN call.chain :
         /\ i > call.pos => CallsTo(call.chain[i])' = 0
         /\ i <= call.pos => CallsTo(call.chain[i])' > 0
  <2> SUFFICES ASSUME NEW i \in DOMAIN call.chain
               PROVE  /\ i > call.pos => CallsTo(call.chain[i])' = 0
                      /\ i <= call.pos => CallsTo(call.chain[i])' > 0
    OBVIOUS
  <2>1. PICK x : x = call.chain[i]  OBVIOUS
  <2>2. x = call'.chain[i]  BY <2>1
  <2>3. CallsTo(call.chain[i])' = CallsTo(x)'  BY <2>2 DEF CallsTo
  <2> QED  BY <1>5, <2>1, <2>3
<1> QED  BY <1>2, <1>3, <1>4, <1>6

\* The answer is used, or has to be repaired.
LEMMA AnswerTaken ==
  ASSUME ClientInv, NEW m, Called(m), NEW at \in {"returned", "repair"},
         at = "repair" => call.at = "ask", call' = [call EXCEPT !.at = at]
  PROVE  ClientInv'
<1>1. call \in Calls /\ call.pos \in DOMAIN call.chain /\ call.at \in {"ask", "repair"}
  BY DEF ClientInv, ClientOK, Called
<1>2. /\ call' \in Calls /\ call'.at = at
      /\ UNCHANGED <<call.chain, call.byok, call.pos, call.keys, call.attempt>>
  <2>1. call' \in Calls  BY <1>1 DEF Calls
  <2> QED  BY <1>1, <2>1 DEF Calls
<1>3. m = Model /\ Model' = Model /\ Attempts' = Attempts
  BY <1>2 DEF Called, Model, Attempts, Budget
<1>4. /\ KeysMatch' /\ CallsBounded'
      /\ \A i \in DOMAIN call.chain :
            /\ i > call.pos => CallsTo(call.chain[i])' = 0
            /\ i <= call.pos => CallsTo(call.chain[i])' > 0
  BY <1>2, CallKeeps
<1>5. ClientOK'
  BY <1>1, <1>2, <1>3 DEF ClientInv, ClientOK, Called, KeyList
<1>6. CallsInOrder'
  <2>1. at = "repair" => CallsTo(m)' = call.attempt + 1
    BY DEF Called
  <2>2. CallsTo(Model)' = CallsTo(m)'
    <3>1. Model' = m  BY <1>3
    <3> QED  BY <3>1 DEF CallsTo
  <2>3. \A i \in DOMAIN call.chain : i < call.pos => i <= call.pos
    BY <1>1, ChainShape DEF Calls
  <2> QED  BY <1>2, <1>4, <2>1, <2>2, <2>3 DEF CallsInOrder
<1> QED  BY <1>4, <1>5, <1>6 DEF ClientInv

\* The model is given up: the next one of the chain is in hand, not called yet, or
\* every model was called.
LEMMA AnswerGivesUp ==
  ASSUME ClientInv, NEW m, Called(m), NEW error \in {"failed", "limited"}, GiveUpModel(error),
         error = "limited" => KeysTried(m)' = Range(call.keys)
  PROVE  ClientInv'
<1> DEFINE later == {i \in DOMAIN call.chain : i > call.pos}
<1>1. /\ call \in Calls /\ call.pos \in DOMAIN call.chain /\ call.at \in {"ask", "repair"}
      /\ m = Model /\ DOMAIN call.chain \subseteq Nat
  <2>1. /\ call \in Calls /\ call.pos \in DOMAIN call.chain /\ call.at \in {"ask", "repair"}
        /\ m = Model
    BY DEF ClientInv, ClientOK, Called
  <2> QED  BY <2>1, ChainShape DEF Calls
<1>2. CASE later = {} /\ call' = [call EXCEPT !.at = "raised", !.error = error]
  <2>1. /\ call' \in Calls /\ call'.at = "raised" /\ call'.error = error
        /\ UNCHANGED <<call.chain, call.byok, call.pos, call.keys>>
    <3>1. call' \in Calls  BY <1>1, <1>2 DEF Calls
    <3> QED  BY <1>1, <1>2, <3>1 DEF Calls
  <2>2. /\ KeysMatch' /\ CallsBounded' /\ CallsTo(m)' > 0
        /\ \A i \in DOMAIN call.chain : i <= call.pos => CallsTo(call.chain[i])' > 0
    BY <2>1, CallKeeps
  <2>3. CallsTo(Model)' = CallsTo(m)' /\ KeysTried(Model)' = KeysTried(m)'
    <3>1. Model' = m  BY <1>1, <2>1 DEF Model
    <3> QED  BY <3>1 DEF CallsTo, KeysTried
  <2>4. \A i \in DOMAIN call.chain : i <= call.pos
    BY <1>1, <1>2 DEF Calls
  <2>5. ClientOK'
    BY <1>1, <2>1 DEF ClientInv, ClientOK, Called
  <2>6. CallsInOrder'
    BY <1>1, <2>1, <2>2, <2>3, <2>4 DEF CallsInOrder, Calls, Range
  <2> QED  BY <2>2, <2>5, <2>6 DEF ClientInv
<1>3. ASSUME NEW next \in later, \A i \in later : next <= i,
             call' = [call EXCEPT !.at = "open", !.pos = next, !.error = error]
      PROVE  ClientInv'
  <2>0. next \in DOMAIN call.chain /\ next \in Nat /\ next > call.pos
    BY <1>1
  <2>1. /\ call' \in Calls /\ call'.at = "open" /\ call'.pos = next
        /\ UNCHANGED <<call.chain, call.byok>>
    <3>1. call' \in Calls  BY <1>1, <1>3, <2>0 DEF Calls
    <3> QED  BY <1>1, <1>3, <3>1 DEF Calls
  <2>2. /\ KeysMatch' /\ CallsBounded'
        /\ \A i \in DOMAIN call.chain :
              /\ i > call.pos => CallsTo(call.chain[i])' = 0
              /\ i <= call.pos => CallsTo(call.chain[i])' > 0
    BY <2>1, CallKeeps
  <2>3. \A i \in DOMAIN call.chain :
           /\ i > next => i > call.pos
           /\ i < next => i <= call.pos
    BY <1>1, <1>3, <2>0 DEF Calls
  <2>4. ClientOK'
    BY <1>1, <2>0, <2>1 DEF ClientInv, ClientOK, Called
  <2>5. CallsTo(Model)' = 0
    <3>1. CallsTo(call.chain[next])' = 0  BY <2>0, <2>2
    <3>2. Model' = call'.chain[next]  BY <2>1 DEF Model
    <3> QED  BY <3>1, <3>2 DEF CallsTo
  <2>6. CallsInOrder'
    BY <2>1, <2>2, <2>3, <2>5 DEF CallsInOrder
  <2> QED  BY <2>2, <2>4, <2>6 DEF ClientInv
<1> QED  BY <1>2, <1>3 DEF GiveUpModel

\* The attempt loop goes on, or has come to every key.
LEMMA AnswerRetried ==
  ASSUME ClientInv, NEW m, Called(m), NEW error \in {"failed", "limited"}, NextAttempt(error),
         call.at = "ask"
  PROVE  ClientInv'
<1>1. /\ call \in Calls /\ call.pos \in DOMAIN call.chain /\ m = Model /\ m \in Models
      /\ call.keys = KeyList(m, call.byok) /\ call.attempt < Attempts /\ call.attempt \in Nat
  BY DEF ClientInv, ClientOK, Called, Calls
<1>2. call.keys \in Seq(SomeKeys) /\ Len(call.keys) \in Nat \ {0}
  BY <1>1, KeyListShape DEF Calls
<1>3. Attempts \in Nat \ {0} /\ Attempts >= Len(call.keys)
  BY <1>2, BudgetShape DEF Attempts
<1>4. KeysTried(m)' = Turns(call.attempt + 1) /\ CallsTo(m)' = call.attempt + 1
  BY DEF Called
<1>5. CASE call.attempt + 1 < Attempts
  <2>1. call' = [call EXCEPT !.attempt = call.attempt + 1]
    BY <1>5 DEF NextAttempt
  <2>2. /\ call' \in Calls /\ call'.attempt = call.attempt + 1 /\ call'.at = "ask"
        /\ UNCHANGED <<call.chain, call.byok, call.pos, call.keys, call.start>>
    <3>1. call.attempt + 1 \in Nat  BY <1>1
    <3>2. call' \in Calls  BY <1>1, <2>1, <3>1 DEF Calls
    <3> QED  BY <1>1, <2>1, <3>2 DEF Calls
  <2>3. /\ KeysMatch' /\ CallsBounded'
        /\ \A i \in DOMAIN call.chain :
              /\ i > call.pos => CallsTo(call.chain[i])' = 0
              /\ i <= call.pos => CallsTo(call.chain[i])' > 0
    BY <2>2, CallKeeps
  <2>4. Model' = m /\ Attempts' = Attempts
    BY <1>1, <2>2 DEF Model, Attempts, Budget
  <2>5. CallsTo(Model)' = CallsTo(m)' /\ KeysTried(Model)' = KeysTried(m)'
    BY <2>4 DEF CallsTo, KeysTried
  <2>6. Turns(call.attempt)' = Turns(call.attempt + 1)
    BY <2>2 DEF Turns
  <2>7. \A i \in DOMAIN call.chain : i < call.pos => i <= call.pos
    BY <1>1, ChainShape DEF Calls
  <2>8. ClientOK'
    BY <1>1, <1>5, <2>2, <2>4 DEF ClientInv, ClientOK, Called, KeyList
  <2>9. CallsInOrder'
    BY <1>4, <2>2, <2>3, <2>5, <2>6, <2>7 DEF CallsInOrder
  <2> QED  BY <2>3, <2>8, <2>9 DEF ClientInv
<1>6. CASE ~(call.attempt + 1 < Attempts)
  <2>1. call.attempt + 1 \in Nat /\ call.attempt + 1 >= Len(call.keys)
    BY <1>1, <1>2, <1>3, <1>6
  <2>2. Turns(call.attempt + 1) = Range(call.keys)
    BY <1>1, <1>2, <2>1, TurnsReachAll DEF Calls
  <2> QED  BY <1>4, <1>6, <2>2, AnswerGivesUp DEF NextAttempt
<1> QED  BY <1>5, <1>6

LEMMA ClientSteps ==
  ASSUME ClientInv, ClientStep
  PROVE  ClientInv'
<1>1. ASSUME NEW answer \in Answers, Ask(answer) PROVE ClientInv'
  <2>1. call.at = "ask"
    BY <1>1 DEF Ask
  <2>2. PICK m : Called(m)
    BY <1>1, CallCounts DEF Ask
  <2>3. \/ call' = [call EXCEPT !.at = "returned"]
        \/ call' = [call EXCEPT !.at = "repair"]
        \/ NextAttempt("failed")
        \/ NextAttempt("limited")
        \/ GiveUpModel("failed")
    BY <1>1 DEF Ask
  <2> QED  BY <2>1, <2>2, <2>3, AnswerTaken, AnswerRetried, AnswerGivesUp
<1>2. ASSUME NEW answer, Repair(answer) PROVE ClientInv'
  <2>1. PICK m : Called(m)
    BY <1>2, CallCounts DEF Repair
  <2>2. call' = [call EXCEPT !.at = "returned"] \/ GiveUpModel("failed")
    BY <1>2 DEF Repair
  <2> QED  BY <2>1, <2>2, AnswerTaken, AnswerGivesUp
<1> QED  BY <1>1, <1>2, ClientOpens DEF ClientStep

\* Steps that leave the request alone, or end it.
LEMMA ClientFrame ==
  ASSUME ClientInv, UNCHANGED <<counter, tried>>,
         call' = call \/ call' = [call EXCEPT !.at = "idle"]
  PROVE  ClientInv'
<1>1. call \in Calls /\ counter \in Nat
  BY DEF ClientInv, ClientOK
<1>2. CASE call' = call
  <2>1. /\ \A x : CallsTo(x)' = CallsTo(x) /\ KeysTried(x)' = KeysTried(x)
        /\ \A n : Turns(n)' = Turns(n)
        /\ Model' = Model /\ Attempts' = Attempts
    BY <1>2 DEF CallsTo, KeysTried, Turns, Model, Attempts, Budget
  <2>2. ClientOK'
    BY <1>2, <2>1 DEF ClientInv, ClientOK, KeyList
  <2>3. KeysMatch'
    BY <1>2 DEF ClientInv, KeysMatch
  <2>4. CallsBounded'
    BY <1>2, <2>1 DEF ClientInv, CallsBounded, KeyList, Budget
  <2>5. CallsInOrder'
    <3>1. CallsTo(Model)' = CallsTo(Model) /\ KeysTried(Model)' = KeysTried(Model)
      BY <1>2, <2>1 DEF CallsTo, KeysTried
    <3>2. Turns(call.attempt)' = Turns(call.attempt)
      BY <1>2 DEF Turns
    <3> QED  BY <1>2, <2>1, <3>1, <3>2 DEF ClientInv, CallsInOrder, Range
  <2> QED  BY <2>2, <2>3, <2>4, <2>5 DEF ClientInv
<1>3. CASE call' = [call EXCEPT !.at = "idle"]
  <2>1. call' \in Calls /\ call'.at = "idle" /\ UNCHANGED <<call.chain, call.byok>>
    <3>1. call' \in Calls  BY <1>1, <1>3 DEF Calls
    <3> QED  BY <1>1, <1>3, <3>1 DEF Calls
  <2>2. ClientOK'
    BY <2>1 DEF ClientInv, ClientOK
  <2>3. KeysMatch' /\ CallsBounded'
    BY <2>1 DEF ClientInv, KeysMatch, CallsBounded, CallsTo, KeyList, Budget
  <2>4. CallsInOrder'
    BY <2>1 DEF CallsInOrder
  <2> QED  BY <2>2, <2>3, <2>4 DEF ClientInv
<1> QED  BY <1>2, <1>3

\* The explicit key of a review is resolved once.
ReviewClientInv == ClientInv /\ api_key \in KeyChoices

LEMMA ReviewClientNext == ReviewClientInv /\ [Next]_vars => ReviewClientInv'
<1> SUFFICES ASSUME ReviewClientInv, [Next]_vars PROVE ReviewClientInv'
  OBVIOUS
<1>1. api_key' = api_key /\ api_key \in Seq(Keys) /\ Requested \in Models
  BY RequestAssumption
     DEF ReviewClientInv, Next, vars, Review, StartCriterion, AskModel, TakeJudgment, TakeError,
         TakeGrade, DecideReview
<1>2. ClientInv'
  <2>1. CASE StartCriterion
    BY <1>1, <2>1, ClientRequest DEF StartCriterion, ReviewClientInv
  <2>2. CASE AskModel
    BY <2>2, ClientSteps DEF AskModel, ReviewClientInv
  <2>3. CASE TakeJudgment \/ TakeError
    BY <2>3, ClientFrame DEF TakeJudgment, TakeError, TakeGrade, ReviewClientInv
  <2>4. CASE DecideReview \/ UNCHANGED vars
    BY <2>4, ClientFrame DEF DecideReview, vars, lvars, ReviewClientInv
  <2> QED  BY <2>1, <2>2, <2>3, <2>4 DEF Next
<1> QED  BY <1>1, <1>2 DEF ReviewClientInv

LEMMA ClientInvariant == Spec => []ReviewClientInv
<1>1. Init => ReviewClientInv
  BY ClientStart DEF ReviewClientInv, Init
<1> QED  BY <1>1, ReviewClientNext, PTL DEF Spec

\* An explicit key goes to the model it was given for and to no other, and a key of
\* the settings only to models of its provider (llm/litellm_client.py, _key_list and
\* complete_json).
THEOREM KeysGoToTheirModels == Spec => []KeysMatch
<1>1. ReviewClientInv => KeysMatch
  BY DEF ReviewClientInv, ClientInv
<1> QED  BY <1>1, ClientInvariant, PTL

\* One request calls each model of its chain at most once per attempt of its budget,
\* and once more for a repair (llm/litellm_client.py, _complete_one).
THEOREM RequestsAreBounded == Spec => []CallsBounded
<1>1. ReviewClientInv => CallsBounded
  BY DEF ReviewClientInv, ClientInv
<1> QED  BY <1>1, ClientInvariant, PTL

\* A request fails only after each model of its chain was called, and for a rate limit
\* only after the last was called with each of its keys: the rotation from any starting
\* point comes to all of them (llm/litellm_client.py, _complete_one).
THEOREM FailureIsExhaustion == Spec => []FailsOnlyExhausted
<1>1. ASSUME ReviewClientInv PROVE FailsOnlyExhausted
  <2> SUFFICES ASSUME call.at = "raised"
               PROVE  /\ \A i \in DOMAIN call.chain : CallsTo(call.chain[i]) > 0
                      /\ call.error = "limited" => KeysTried(Model) = Range(call.keys)
    BY DEF FailsOnlyExhausted
  <2>1. ClientOK /\ CallsInOrder
    BY <1>1 DEF ReviewClientInv, ClientInv
  <2>2. call.pos \in DOMAIN call.chain /\ DOMAIN call.chain \subseteq Nat
    BY <2>1, ChainShape DEF ClientOK, Calls
  <2>3. ASSUME NEW i \in DOMAIN call.chain PROVE CallsTo(call.chain[i]) > 0
    <3>1. i = call.pos \/ i < call.pos
      BY <2>1, <2>2 DEF CallsInOrder
    <3> QED  BY <2>1, <3>1 DEF CallsInOrder, Model
  <2> QED  BY <2>1, <2>3 DEF CallsInOrder
<1>2. ReviewClientInv => FailsOnlyExhausted
  BY <1>1
<1> QED  BY <1>2, ClientInvariant, PTL

-----------------------------------------------------------------------------
(* The sums of the policy.  MapThenSumSet is a recursive function on the    *)
(* subsets of the set.                                                      *)

\* The two sums of the policy, as such functions.
WeightSum(rub, S) == MapThenSumSet(LAMBDA i : rub[i].weight, S)

ScoreSum(rub, grades, S) == MapThenSumSet(LAMBDA i : rub[i].weight * Effective(grades[i]), S)

LEMMA WeightsSum ==
  ASSUME NEW rub, NEW S, IsFiniteSet(S), NEW F, \A i \in S : F[i] = rub[i].weight
  PROVE  \E g : Sums(g, SUBSET S, F) /\ WeightSum(rub, S) = g[S]
<1> DEFINE iter[s \in SUBSET S] ==
             IF s = {} THEN 0 ELSE rub[Some(s)].weight + iter[s \ {Some(s)}]
<1>1. \A s \in SUBSET S : s # {} => F[Some(s)] = rub[Some(s)].weight
  BY DEF Some
<1>2. PICK g : Sums(g, SUBSET S, F)
  BY SumsExist
<1>3. g = [s \in SUBSET S |-> IF s = {} THEN 0 ELSE rub[Some(s)].weight + g[s \ {Some(s)}]]
  BY <1>1, <1>2 DEF Sums, Rest
<1>4. iter = [s \in SUBSET S |-> IF s = {} THEN 0 ELSE rub[Some(s)].weight + iter[s \ {Some(s)}]]
  BY <1>3
<1>5. WeightSum(rub, S) = iter[S]
  BY DEF WeightSum, MapThenSumSet, MapThenFoldSet, Some
<1> HIDE DEF iter
<1>6. Sums(iter, SUBSET S, F)
  BY <1>1, <1>4 DEF Sums, Rest
<1> QED  BY <1>5, <1>6

LEMMA ScoresSum ==
  ASSUME NEW rub, NEW grades, NEW S, IsFiniteSet(S), NEW F,
         \A i \in S : F[i] = rub[i].weight * Effective(grades[i])
  PROVE  \E g : Sums(g, SUBSET S, F) /\ ScoreSum(rub, grades, S) = g[S]
<1> DEFINE iter[s \in SUBSET S] ==
             IF s = {} THEN 0
             ELSE rub[Some(s)].weight * Effective(grades[Some(s)]) + iter[s \ {Some(s)}]
<1>1. \A s \in SUBSET S : s # {} =>
         F[Some(s)] = rub[Some(s)].weight * Effective(grades[Some(s)])
  BY DEF Some
<1>2. PICK g : Sums(g, SUBSET S, F)
  BY SumsExist
<1>3. g = [s \in SUBSET S |->
             IF s = {} THEN 0
             ELSE rub[Some(s)].weight * Effective(grades[Some(s)]) + g[s \ {Some(s)}]]
  BY <1>1, <1>2 DEF Sums, Rest
<1>4. iter = [s \in SUBSET S |->
                IF s = {} THEN 0
                ELSE rub[Some(s)].weight * Effective(grades[Some(s)]) + iter[s \ {Some(s)}]]
  BY <1>3
<1>5. ScoreSum(rub, grades, S) = iter[S]
  BY DEF ScoreSum, MapThenSumSet, MapThenFoldSet, Some
<1> HIDE DEF iter
<1>6. Sums(iter, SUBSET S, F)
  BY <1>1, <1>4 DEF Sums, Rest
<1> QED  BY <1>5, <1>6

-----------------------------------------------------------------------------
(* Better grades do not lead to a worse decision.                           *)

LEMMA EffectiveShape ==
  ASSUME NEW grade \in Grades
  PROVE  Effective(grade) \in 0..100
<1>1. CASE grade.score = NoScore \/ grade.verdict = "error"
  BY <1>1 DEF Effective
<1>2. CASE ~(grade.score = NoScore \/ grade.verdict = "error")
  <2>1. grade.score \in Scores
    BY <1>2 DEF Grades, Judgments, ErrorGrade
  <2> QED  BY <1>2, <2>1, ScoresAssumption DEF Effective
<1> QED  BY <1>1, <1>2

\* No scored criterion of new is worse than in old.
NotWorse(rub, old, new) ==
    \A i \in OfType("scored", rub) :
        /\ Effective(old[i]) \in Nat /\ Effective(new[i]) \in Nat
        /\ Effective(old[i]) <= Effective(new[i])

LEMMA ReachesGrows ==
  ASSUME NEW rub \in Rubrics, NEW old, NEW new, NotWorse(rub, old, new),
         NEW threshold \in Int, Reaches(threshold, rub, old)
  PROVE  Reaches(threshold, rub, new)
<1> DEFINE S     == OfType("scored", rub)
           W     == [i \in S |-> rub[i].weight]
           F     == [i \in S |-> rub[i].weight * Effective(old[i])]
           G     == [i \in S |-> rub[i].weight * Effective(new[i])]
           total  == WeightSum(rub, S)
           before == ScoreSum(rub, old, S)
           after  == ScoreSum(rub, new, S)
<1>1. IsFiniteSet(S) /\ \A i \in S : rub[i].weight \in Nat
  <2>1. DOMAIN rub = 1..Len(rub) /\ Len(rub) \in Nat /\ \A i \in DOMAIN rub : rub[i].weight \in Nat
    <3> DEFINE Criterion == [type : {"gate", "scored"}, weight : Nat]
    <3>1. rub \in Seq(Criterion)
      BY RubricsAssumption
    <3>2. \A c \in Criterion : c.weight \in Nat
      OBVIOUS
    <3> HIDE DEF Criterion
    <3>3. DOMAIN rub = 1..Len(rub) /\ Len(rub) \in Nat /\ \A i \in DOMAIN rub : rub[i] \in Criterion
      BY <3>1
    <3> QED  BY <3>2, <3>3
  <2>2. IsFiniteSet(DOMAIN rub)
    BY <2>1, FS_Interval
  <2>3. S \subseteq DOMAIN rub
    BY DEF OfType
  <2> QED  BY <2>1, <2>2, <2>3, FS_Subset
<1>2. \A i \in S : F[i] \in Nat /\ G[i] \in Nat /\ F[i] <= G[i]
  <2> SUFFICES ASSUME NEW i \in S PROVE F[i] \in Nat /\ G[i] \in Nat /\ F[i] <= G[i]
    OBVIOUS
  <2>1. \A w, a, b \in Nat : a <= b => w * a \in Nat /\ w * b \in Nat /\ w * a <= w * b
    BY SMTT(30)
  <2>2. /\ rub[i].weight \in Nat /\ Effective(old[i]) \in Nat /\ Effective(new[i]) \in Nat
        /\ Effective(old[i]) <= Effective(new[i])
    BY <1>1 DEF NotWorse
  <2> QED  BY <2>1, <2>2
<1>3. total \in Nat
  <2>1. PICK g : Sums(g, SUBSET S, W) /\ total = g[S]
    <3>1. \A i \in S : W[i] = rub[i].weight  OBVIOUS
    <3> HIDE DEF S, W
    <3> QED  BY <1>1, <3>1, WeightsSum
  <2>2. \A i \in S : W[i] \in Nat /\ W[i] <= W[i]
    BY <1>1
  <2> HIDE DEF S, W, total
  <2> QED  BY <1>1, <2>1, <2>2, SumsGrow
<1>4. before \in Nat /\ after \in Nat /\ before <= after
  <2>1. PICK f : Sums(f, SUBSET S, F) /\ before = f[S]
    <3>1. \A i \in S : F[i] = rub[i].weight * Effective(old[i])  OBVIOUS
    <3> HIDE DEF S, F
    <3> QED  BY <1>1, <3>1, ScoresSum
  <2>2. PICK g : Sums(g, SUBSET S, G) /\ after = g[S]
    <3>1. \A i \in S : G[i] = rub[i].weight * Effective(new[i])  OBVIOUS
    <3> HIDE DEF S, G
    <3> QED  BY <1>1, <3>1, ScoresSum
  <2> HIDE DEF S, F, G, before, after
  <2> QED  BY <1>1, <1>2, <2>1, <2>2, SumsGrow
<1>5. threshold * total \in Int
  <2> HIDE DEF total
  <2> QED  BY <1>3
<1>6. IF total > 0 THEN before >= threshold * total ELSE threshold <= 0
  BY DEF Reaches, WeightSum, ScoreSum
<1>7. IF total > 0 THEN after >= threshold * total ELSE threshold <= 0
  <2> HIDE DEF total, before, after
  <2> QED  BY <1>4, <1>5, <1>6
<1> QED  BY <1>7 DEF Reaches, WeightSum, ScoreSum

LEMMA DecideGrows ==
  ASSUME NEW rub \in Rubrics, NEW cfg \in Configs, NEW old, NEW new, NotWorse(rub, old, new),
         \A i \in OfType("gate", rub) : new[i] = old[i]
  PROVE  Rank(Decide(rub, cfg, new).decision) >= Rank(Decide(rub, cfg, old).decision)
<1> DEFINE O == Decide(rub, cfg, old).decision
           N == Decide(rub, cfg, new).decision
<1>1. cfg.accept_at \in Int /\ cfg.review_at \in Int
  BY ConfigsAssumption
<1>2. /\ Reaches(cfg.accept_at, rub, old) => Reaches(cfg.accept_at, rub, new)
      /\ Reaches(cfg.review_at, rub, old) => Reaches(cfg.review_at, rub, new)
  BY <1>1, ReachesGrows
<1>3. /\ N \in {"reject", "review", "accept"}
      /\ O = "review" => N # "reject"
      /\ O = "accept" => N = "accept"
  BY <1>2 DEF Decide
<1>4. O \in {"reject", "review", "accept"}
  BY DEF Decide
<1> HIDE DEF O, N
<1>5. Rank(N) >= Rank(O)
  BY <1>3, <1>4 DEF Rank
<1> QED  BY <1>5 DEF O, N

\* A decision was taken on the grades that are still there.
DecidedOnGrades ==
    /\ config \in Configs
    /\ result.decision # "none" =>
          Len(graded) = Len(rubric) /\ result = Decide(rubric, config, graded)

LEMMA DecidedStep == GradesInOrder /\ DecidedOnGrades /\ [Next]_vars => DecidedOnGrades'
<1> SUFFICES ASSUME GradesInOrder, DecidedOnGrades, [Next]_vars PROVE DecidedOnGrades'
  OBVIOUS
<1>1. CASE UNCHANGED <<rubric, config, graded, result>>
  BY <1>1 DEF DecidedOnGrades
<1>2. ASSUME NEW grade, TakeGrade(grade), call.at # "idle" PROVE DecidedOnGrades'
  <2>1. Len(graded) # Len(rubric)
    BY <1>2, RubricsAssumption DEF GradesInOrder
  <2> QED  BY <1>2, <2>1 DEF TakeGrade, Review, DecidedOnGrades
<1>3. CASE DecideReview
  BY <1>3 DEF DecideReview, Review, DecidedOnGrades
<1> QED
  BY <1>1, <1>2, <1>3
     DEF Next, vars, StartCriterion, AskModel, TakeJudgment, TakeError, Review

\* A better score, or a score where there was none, never makes the decision worse,
\* for every rubric and all weights and thresholds (engine/policy.py, decide).
THEOREM BetterIsNeverWorse == Spec => []BetterNeverWorse
<1>1. Init => DecidedOnGrades
  BY DEF Init, NoResult, DecidedOnGrades
<1>2. ASSUME GradesInOrder, DecidedOnGrades PROVE BetterNeverWorse
  <2> SUFFICES ASSUME result.decision # "none", NEW i \in OfType("scored", rubric),
                      NEW grade \in Judgments, Effective(grade) >= Effective(graded[i]),
                      NEW new, new = [graded EXCEPT ![i] = grade]
               PROVE  Rank(Decide(rubric, config, new).decision) >= Rank(result.decision)
    BY DEF BetterNeverWorse
  <2>1. /\ rubric \in Rubrics /\ graded \in Seq(Grades) /\ DOMAIN graded = DOMAIN rubric
        /\ config \in Configs /\ result = Decide(rubric, config, graded)
    BY <1>2, RubricsAssumption DEF GradesInOrder, DecidedOnGrades
  <2>2. i \in DOMAIN graded
    BY <2>1 DEF OfType
  <2>3. new[i] = grade /\ \A j \in DOMAIN graded \ {i} : new[j] = graded[j]
    BY <2>2
  <2>4. ASSUME NEW j \in OfType("scored", rubric)
        PROVE  /\ Effective(graded[j]) \in Nat /\ Effective(new[j]) \in Nat
               /\ Effective(graded[j]) <= Effective(new[j])
    <3>1. j \in DOMAIN graded
      BY <2>1 DEF OfType
    <3>2. graded[j] \in Grades /\ new[j] \in Grades
      BY <2>1, <2>3, <3>1 DEF Grades
    <3>3. Effective(graded[j]) \in Nat /\ Effective(new[j]) \in Nat
      BY <3>2, EffectiveShape
    <3> QED  BY <2>3, <3>1, <3>3
  <2>5. \A j \in OfType("gate", rubric) : new[j] = graded[j]
    BY <2>1, <2>3 DEF OfType
  <2>6. NotWorse(rubric, graded, new)
    BY <2>4 DEF NotWorse
  <2> QED  BY <2>1, <2>5, <2>6, DecideGrows
<1>3. CertifiedInv => GradesInOrder
  BY DEF CertifiedInv
<1>4. GradesInOrder /\ DecidedOnGrades => BetterNeverWorse
  BY <1>2
<1> QED  BY <1>1, <1>3, <1>4, CertifiedInit, CertifiedStep, DecidedStep, PTL DEF Spec

-----------------------------------------------------------------------------
(* No step is taken twice: six numbers, of which every step lowers one and  *)
(* keeps those before it.                                                   *)

Missing   == Len(rubric) - Len(graded)
Undecided == IF result = NoResult THEN 1 ELSE 0
Stage     == IF call.at = "idle" THEN 2 ELSE IF call.at \in {"returned", "raised"} THEN 0 ELSE 1
Places    == IF call.at \in {"open", "ask", "repair"} THEN Len(Fallbacks) - call.pos ELSE 0
Phase     == IF call.at = "open" THEN 2 ELSE IF call.at = "ask" THEN 1 ELSE 0
Left      == IF call.at = "ask" THEN Attempts - call.attempt ELSE 0

Measure == <<Missing, Undecided, Stage, Places, Phase, Left>>

\* The lexicographic order: it has no infinite descent on tuples of naturals.
Lower(m, n) == \E i \in 1..6 : m[i] < n[i] /\ \A j \in 1..(i - 1) : m[j] = n[j]

LEMMA LowerAt ==
  ASSUME NEW a, NEW b, NEW c, NEW d, NEW e, NEW f, NEW a1, NEW b1, NEW c1, NEW d1, NEW e1, NEW f1,
         \/ a1 < a
         \/ a1 = a /\ b1 < b
         \/ a1 = a /\ b1 = b /\ c1 < c
         \/ a1 = a /\ b1 = b /\ c1 = c /\ d1 < d
         \/ a1 = a /\ b1 = b /\ c1 = c /\ d1 = d /\ e1 < e
         \/ a1 = a /\ b1 = b /\ c1 = c /\ d1 = d /\ e1 = e /\ f1 < f
  PROVE  Lower(<<a1, b1, c1, d1, e1, f1>>, <<a, b, c, d, e, f>>)
<1> DEFINE m == <<a1, b1, c1, d1, e1, f1>>
           n == <<a, b, c, d, e, f>>
<1>1. m[1] = a1 /\ m[2] = b1 /\ m[3] = c1 /\ m[4] = d1 /\ m[5] = e1 /\ m[6] = f1
  OBVIOUS
<1>2. n[1] = a /\ n[2] = b /\ n[3] = c /\ n[4] = d /\ n[5] = e /\ n[6] = f
  OBVIOUS
<1> HIDE DEF m, n
<1>3. ASSUME NEW i \in 1..6, m[i] < n[i], \A j \in 1..(i - 1) : m[j] = n[j]
      PROVE  Lower(m, n)
  BY <1>3 DEF Lower
<1>4. /\ \A j \in 1..0 : FALSE
      /\ \A j \in 1..1 : j = 1
      /\ \A j \in 1..2 : j = 1 \/ j = 2
      /\ \A j \in 1..3 : j = 1 \/ j = 2 \/ j = 3
      /\ \A j \in 1..4 : j = 1 \/ j = 2 \/ j = 3 \/ j = 4
      /\ \A j \in 1..5 : j = 1 \/ j = 2 \/ j = 3 \/ j = 4 \/ j = 5
  OBVIOUS
<1>5. \/ m[1] < n[1] /\ \A j \in 1..0 : m[j] = n[j]
      \/ m[2] < n[2] /\ \A j \in 1..1 : m[j] = n[j]
      \/ m[3] < n[3] /\ \A j \in 1..2 : m[j] = n[j]
      \/ m[4] < n[4] /\ \A j \in 1..3 : m[j] = n[j]
      \/ m[5] < n[5] /\ \A j \in 1..4 : m[j] = n[j]
      \/ m[6] < n[6] /\ \A j \in 1..5 : m[j] = n[j]
  BY <1>1, <1>2, <1>4
<1>6. Lower(m, n)
  BY <1>5 DEF Lower
<1> QED  BY <1>6 DEF m, n

\* The last place of a chain is that of the last fallback.
LEMMA PlacesBounded ==
  ASSUME ClientOK, call.at # "idle"
  PROVE  call.pos \in 0..Len(Fallbacks)
<1>1. Len(Fallbacks) \in Nat /\ DOMAIN Fallbacks = 1..Len(Fallbacks)
  BY ModelsAssumption
<1>2. call.chain \in Chains /\ call.pos \in DOMAIN call.chain
  BY DEF ClientOK, Calls
<1>3. CASE call.chain = <<>>
  BY <1>2, <1>3
<1>4. ASSUME NEW m \in Models, call.chain = OneModel(m) \/ call.chain = ModelChain(m)
      PROVE  call.pos \in {0} \union DOMAIN Fallbacks
  BY <1>2, <1>4 DEF OneModel, ModelChain
<1> QED  BY <1>1, <1>2, <1>3, <1>4 DEF Chains

LEMMA MeasureShape ==
  ASSUME GradesInOrder, ClientOK
  PROVE  Measure \in Nat \X Nat \X Nat \X Nat \X Nat \X Nat
<1>1. Missing \in Nat
  BY RubricsAssumption DEF GradesInOrder, Missing
<1>2. Undecided \in Nat /\ Stage \in Nat /\ Phase \in Nat
  BY DEF Undecided, Stage, Phase
<1>3. Places \in Nat
  BY PlacesBounded, ModelsAssumption DEF Places
<1>4. Left \in Nat
  <2> SUFFICES ASSUME call.at = "ask" PROVE Attempts - call.attempt \in Nat
    BY DEF Left
  <2>1. call.attempt \in Nat /\ call.attempt < Attempts /\ Len(call.keys) \in Nat
    BY DEF ClientOK, Calls
  <2>2. Attempts \in Nat
    BY <2>1, AttemptsAssumption DEF Attempts, Budget
  <2> QED  BY <2>1, <2>2
<1> QED  BY <1>1, <1>2, <1>3, <1>4 DEF Measure

\* What a step of the client lowers while the grades stand still.
ClientLowers ==
    \/ Stage' < Stage
    \/ Stage' = Stage /\ Places' < Places
    \/ Stage' = Stage /\ Places' = Places /\ Phase' < Phase
    \/ Stage' = Stage /\ Places' = Places /\ Phase' = Phase /\ Left' < Left

LEMMA GiveUpLowers ==
  ASSUME ClientOK, call.at \in {"ask", "repair"}, NEW error, GiveUpModel(error)
  PROVE  ClientLowers
<1>1. call \in Calls /\ Len(Fallbacks) \in Nat /\ call.pos \in Nat
  BY ModelsAssumption DEF ClientOK, Calls
<1>2. CASE call' = [call EXCEPT !.at = "raised", !.error = error]
  <2>1. call'.at = "raised"
    BY <1>1, <1>2 DEF Calls
  <2> QED  BY <2>1 DEF ClientLowers, Stage
<1>3. ASSUME NEW next \in DOMAIN call.chain, next > call.pos,
             call' = [call EXCEPT !.at = "open", !.pos = next, !.error = error]
      PROVE  ClientLowers
  <2>1. call'.at = "open" /\ call'.pos = next
    BY <1>1, <1>3 DEF Calls
  <2>2. next \in Nat
    BY <1>1, ChainShape DEF Calls
  <2>3. Places = Len(Fallbacks) - call.pos /\ Places' = Len(Fallbacks) - next
    BY <2>1 DEF Places
  <2>4. Places' < Places
    BY <1>1, <1>3, <2>2, <2>3
  <2>5. Stage' = Stage
    BY <2>1 DEF Stage
  <2> QED  BY <2>4, <2>5 DEF ClientLowers
<1> QED  BY <1>2, <1>3 DEF GiveUpModel

LEMMA ClientStepLowers ==
  ASSUME ClientOK, ClientStep
  PROVE  ClientLowers
<1>1. /\ call \in Calls /\ Len(Fallbacks) \in Nat /\ call.pos \in Nat
      /\ call.attempt \in Nat /\ Len(call.keys) \in Nat
  BY ModelsAssumption DEF ClientOK, Calls
<1>2. CASE OpenModel
  <2>1. /\ call.at = "open" /\ call'.at = "ask" /\ call'.pos = call.pos
    BY <1>1, <1>2 DEF OpenModel, Calls
  <2>2. Stage' = Stage /\ Places' = Places /\ Phase' < Phase
    BY <2>1 DEF Stage, Places, Phase
  <2> QED  BY <2>2 DEF ClientLowers
<1>3. ASSUME call.at \in {"ask", "repair"}, call' = [call EXCEPT !.at = "returned"]
      PROVE  ClientLowers
  <2>1. call'.at = "returned"
    BY <1>1, <1>3 DEF Calls
  <2> QED  BY <1>3, <2>1 DEF ClientLowers, Stage
<1>4. ASSUME call.at = "ask", call' = [call EXCEPT !.at = "repair"]
      PROVE  ClientLowers
  <2>1. call'.at = "repair" /\ call'.pos = call.pos
    BY <1>1, <1>4 DEF Calls
  <2>2. Stage' = Stage /\ Places' = Places /\ Phase' < Phase
    BY <1>4, <2>1 DEF Stage, Places, Phase
  <2> QED  BY <2>2 DEF ClientLowers
<1>5. ASSUME call.at = "ask", NEW error, NextAttempt(error)
      PROVE  ClientLowers
  <2>1. CASE call' = [call EXCEPT !.attempt = @ + 1]
    <3>1. /\ call'.at = "ask" /\ call'.pos = call.pos /\ call'.keys = call.keys
          /\ call'.attempt = call.attempt + 1
      BY <1>1, <1>5, <2>1 DEF Calls
    <3>2. Stage' = Stage /\ Places' = Places /\ Phase' = Phase
      BY <1>5, <3>1 DEF Stage, Places, Phase
    <3>3. Attempts' = Attempts /\ Attempts \in Nat
      BY <1>1, <3>1, AttemptsAssumption DEF Attempts, Budget
    <3>4. Left = Attempts - call.attempt /\ Left' = Attempts - (call.attempt + 1)
      BY <1>5, <3>1, <3>3 DEF Left
    <3>5. Left' < Left
      BY <1>1, <3>3, <3>4
    <3> QED  BY <3>2, <3>5 DEF ClientLowers
  <2>2. CASE GiveUpModel(error)
    BY <1>5, <2>2, GiveUpLowers
  <2> QED  BY <1>5, <2>1, <2>2 DEF NextAttempt
<1>6. ASSUME NEW answer \in Answers, Ask(answer) PROVE ClientLowers
  <2>1. call.at = "ask"
    BY <1>6 DEF Ask
  <2>2. \/ call' = [call EXCEPT !.at = "returned"]
        \/ call' = [call EXCEPT !.at = "repair"]
        \/ NextAttempt("failed")
        \/ NextAttempt("limited")
        \/ GiveUpModel("failed")
    BY <1>6 DEF Ask
  <2> QED  BY <2>1, <2>2, <1>3, <1>4, <1>5, GiveUpLowers
<1>7. ASSUME NEW answer, Repair(answer) PROVE ClientLowers
  <2>1. call.at = "repair" /\ (call' = [call EXCEPT !.at = "returned"] \/ GiveUpModel("failed"))
    BY <1>7 DEF Repair
  <2> QED  BY <2>1, <1>3, GiveUpLowers
<1> QED  BY <1>2, <1>6, <1>7 DEF ClientStep

LEMMA StepLowers ==
  ASSUME GradesInOrder, ClientOK, Next
  PROVE  Lower(Measure', Measure)
<1>1. /\ rubric' = rubric /\ Len(rubric) \in Nat /\ Len(graded) \in Nat /\ call \in Calls
  BY RubricsAssumption
     DEF GradesInOrder, ClientOK, Next, Review, StartCriterion, AskModel, TakeJudgment, TakeError,
         TakeGrade, DecideReview
<1>2. ASSUME UNCHANGED <<graded, result>>, ClientLowers PROVE Lower(Measure', Measure)
  <2>1. Missing' = Missing /\ Undecided' = Undecided
    BY <1>1, <1>2 DEF Missing, Undecided
  <2> QED  BY <1>2, <2>1, LowerAt DEF ClientLowers, Measure
<1>3. CASE StartCriterion
  <2>1. call.at = "idle" /\ call'.at = "open"
    BY <1>3 DEF StartCriterion, Request, NoCall
  <2>2. ClientLowers
    BY <2>1 DEF ClientLowers, Stage
  <2> QED  BY <1>2, <1>3, <2>2 DEF StartCriterion
<1>4. CASE AskModel
  BY <1>2, <1>4, ClientStepLowers DEF AskModel
<1>5. ASSUME NEW grade, TakeGrade(grade) PROVE Lower(Measure', Measure)
  <2>1. Len(graded') = Len(graded) + 1
    BY <1>5 DEF TakeGrade, GradesInOrder
  <2>2. Missing' < Missing
    BY <1>1, <2>1 DEF Missing
  <2> QED  BY <2>2, LowerAt DEF Measure
<1>6. CASE DecideReview
  <2>1. Undecided' < Undecided
    BY <1>6 DEF DecideReview, Undecided, Decide, NoResult
  <2>2. Missing' = Missing
    BY <1>1, <1>6 DEF DecideReview, Missing
  <2> QED  BY <2>1, <2>2, LowerAt DEF Measure
<1> QED  BY <1>3, <1>4, <1>5, <1>6 DEF Next, TakeJudgment, TakeError

\* A review comes to its decision after finitely many calls: whatever the provider
\* answers, every step lowers the measure, so that none of the loops over criteria,
\* models, attempts and keys can go on for ever (engine/runner.py, run_review;
\* llm/litellm_client.py, complete_json).
THEOREM EveryStepLowers ==
  Spec => /\ [](Measure \in Nat \X Nat \X Nat \X Nat \X Nat \X Nat)
          /\ [][Lower(Measure', Measure)]_vars
<1>1. CertifiedInv /\ ReviewClientInv => GradesInOrder /\ ClientOK
  BY DEF CertifiedInv, ReviewClientInv, ClientInv
<1>2. GradesInOrder /\ ClientOK => Measure \in Nat \X Nat \X Nat \X Nat \X Nat \X Nat
  BY MeasureShape
<1>3. GradesInOrder /\ ClientOK /\ [Next]_vars => [Lower(Measure', Measure)]_vars
  BY StepLowers
<1> QED
  BY <1>1, <1>2, <1>3, CertifiedInit, CertifiedStep, ClientInvariant, PTL DEF Spec

=============================================================================
