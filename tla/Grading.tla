------------------------------ MODULE Grading ------------------------------
(***************************************************************************)
(* From the rubric to the decision: the criterion loop of run_review       *)
(* (backend/app/engine/runner.py), grade_criterion (engine/grader.py) on   *)
(* top of LlmClient, and the decision policy (engine/policy.py).           *)
(*                                                                         *)
(* ReviewPipeline takes one grade as one step and looks at the rows and    *)
(* events; this module looks into the grades.  Scores and weights are      *)
(* integers, and the weighted mean is compared with a threshold by         *)
(* multiplying out, where the code divides floating-point numbers.         *)
(***************************************************************************)
EXTENDS LlmClient, FiniteSetsExt

CONSTANTS
    Rubrics,      \* sequences of [type, weight]: published rubric versions
    Configs,      \* [accept_at, review_at]: their decision configurations
    Requested,    \* the model of the review
    KeyChoices,   \* what resolve_credentials may return as api_key, split
    Scores,       \* the scores a judgment may carry
    NoScore       \* a judgment without a score

ASSUME ConfigsAssumption ==
    \A cfg \in Configs : /\ cfg \in [accept_at : 0..100, review_at : 0..100]
                         /\ cfg.review_at <= cfg.accept_at
ASSUME RubricsAssumption ==
    \A rub \in Rubrics :
        /\ rub \in Seq([type : {"gate", "scored"}, weight : Nat])
        /\ \A i \in DOMAIN rub : rub[i].type = "scored" => rub[i].weight > 0
ASSUME RequestAssumption == Requested \in Models /\ KeyChoices \subseteq Seq(Keys)
ASSUME ScoresAssumption == Scores \subseteq 0..100 /\ NoScore \notin Scores

VARIABLES
    rubric,      \* the rubric version of the review
    config,      \* its decision configuration
    api_key,     \* resolved once, before the loop
    graded,      \* the grades so far
    result       \* what decide returned

vars == <<lvars, rubric, config, api_key, graded, result>>

Judgments == [verdict : {"pass", "fail", "partial"}, score : Scores \union {NoScore}]

\* The outcome of a criterion that could not be graded.
ErrorGrade == [verdict |-> "error", score |-> NoScore]

Grades == Judgments \union {ErrorGrade}

NoResult == [decision |-> "none", gate_failed |-> FALSE]

Init ==
    /\ ClientInit
    /\ rubric \in Rubrics
    /\ config \in Configs
    /\ api_key \in KeyChoices
    /\ graded = <<>>
    /\ result = NoResult

-----------------------------------------------------------------------------
(* engine.policy.decide.                                                    *)

OfType(t, rub) == {i \in DOMAIN rub : rub[i].type = t}

\* An errored criterion, or one without a score, counts zero.
Effective(grade) == IF grade.score = NoScore \/ grade.verdict = "error" THEN 0 ELSE grade.score

\* Seeded fault: a criterion without a score is left out of the mean.
Reaches_SkipsMissing(threshold, rub, grades) ==
    LET scored == {i \in OfType("scored", rub) : grades[i].score # NoScore}
        total  == MapThenSumSet(LAMBDA i : rub[i].weight, scored)
        sum    == MapThenSumSet(LAMBDA i : rub[i].weight * Effective(grades[i]), scored)
    IN  IF total > 0 THEN sum >= threshold * total ELSE threshold <= 0

\* final_score >= threshold; without scored criteria final_score is zero.
Reaches(threshold, rub, grades) ==
    LET scored == OfType("scored", rub)
        total  == MapThenSumSet(LAMBDA i : rub[i].weight, scored)
        sum    == MapThenSumSet(LAMBDA i : rub[i].weight * Effective(grades[i]), scored)
    IN  IF total > 0 THEN sum >= threshold * total ELSE threshold <= 0

\* Seeded fault: a gate fails only on FAIL, as if PARTIAL passed.
Decide_PartialPasses(rub, cfg, grades) ==
    LET gates == OfType("gate", rub) IN
    IF \E i \in gates : grades[i].verdict = "fail"
    THEN [decision |-> "reject", gate_failed |-> TRUE]
    ELSE [gate_failed |-> FALSE,
          decision |-> IF \E i \in gates : grades[i].verdict = "error" THEN "review"
                       ELSE IF Reaches(cfg.accept_at, rub, grades) THEN "accept"
                       ELSE IF Reaches(cfg.review_at, rub, grades) THEN "review"
                       ELSE "reject"]

Decide(rub, cfg, grades) ==
    LET gates == OfType("gate", rub) IN
    IF \E i \in gates : grades[i].verdict \in {"fail", "partial"}
    THEN [decision |-> "reject", gate_failed |-> TRUE]
    ELSE [gate_failed |-> FALSE,
          decision |-> IF \E i \in gates : grades[i].verdict = "error" THEN "review"
                       ELSE IF Reaches(cfg.accept_at, rub, grades) THEN "accept"
                       ELSE IF Reaches(cfg.review_at, rub, grades) THEN "review"
                       ELSE "reject"]

-----------------------------------------------------------------------------
(* The criterion loop.                                                      *)

Review == UNCHANGED <<rubric, config, api_key>>

\* grade_criterion asks the model about the next criterion.
StartCriterion ==
    /\ Len(graded) < Len(rubric)
    /\ Request(Requested, api_key)
    /\ Review
    /\ UNCHANGED <<graded, result>>

AskModel ==
    /\ ClientStep
    /\ Review
    /\ UNCHANGED <<graded, result>>

TakeGrade(grade) ==
    /\ graded' = Append(graded, grade)
    /\ call' = [call EXCEPT !.at = "idle"]
    /\ Review
    /\ UNCHANGED <<noJson, counter, tried, result>>

\* The answer validates as a CriterionJudgment, or it does not.
TakeJudgment ==
    /\ call.at = "returned"
    /\ \E grade \in Grades : TakeGrade(grade)

\* Seeded fault: grade_criterion lets the client's exception through.
TakeError_Escapes ==
    /\ call.at = "raised"
    /\ FALSE
    /\ TakeGrade(ErrorGrade)

\* Any exception of the client becomes an ERROR verdict.
TakeError ==
    /\ call.at = "raised"
    /\ TakeGrade(ErrorGrade)

DecideReview ==
    /\ Len(graded) = Len(rubric)
    /\ result = NoResult
    /\ result' = Decide(rubric, config, graded)
    /\ Review
    /\ UNCHANGED <<lvars, graded>>

Next == StartCriterion \/ AskModel \/ TakeJudgment \/ TakeError \/ DecideReview

Spec == Init /\ [][Next]_vars

\* The loop goes on: every call has a timeout.
FairSpec == Spec /\ WF_vars(Next)

-----------------------------------------------------------------------------
(* Correctness.                                                             *)

Gates == OfType("gate", rubric)

\* A submission is accepted only if every gate was graded, and passed, whatever
\* the provider did meanwhile: "a gate whose grading errored cannot certify the
\* submission".
AcceptedIsCertified ==
    result.decision = "accept" => \A i \in Gates : graded[i].verdict = "pass"

Rank(decision) == CASE decision = "reject" -> 0 [] decision = "review" -> 1 [] OTHER -> 2

\* A better score for one criterion, or a score where the model failed to give
\* one, never makes the decision worse.
BetterNeverWorse ==
    result.decision # "none" =>
        \A i \in OfType("scored", rubric) :
            \A grade \in {j \in Judgments : Effective(j) >= Effective(graded[i])} :
                Rank(Decide(rubric, config, [graded EXCEPT ![i] = grade]).decision)
                    >= Rank(result.decision)

\* "one flaky criterion must not crash the review": whatever the provider does,
\* every criterion gets a grade and the review a decision.
AlwaysDecided == <>(result.decision # "none")

=============================================================================
