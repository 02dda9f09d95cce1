----------------------------- MODULE MCGrading -----------------------------
(* Instance of Grading for TLC: two models of two providers.               *)
EXTENDS Grading, TLC

CONSTANTS m1, m2, k1, k2, k3, k4, b1

Gate      == [type |-> "gate", weight |-> 0]
Scored(w) == [type |-> "scored", weight |-> w]

\* m2 has more keys than attempts, m1 has fewer, and is its own fallback too.
MCFallbacks  == <<m1, m2>>
MCEnvKeys    == m1 :> <<k1>> @@ m2 :> <<k2, k3, k4>>
MCRubrics    == {<<Gate>>, <<Gate, Scored(1)>>, <<Scored(1), Scored(2)>>}
MCConfigs    == {[accept_at |-> 70, review_at |-> 50], [accept_at |-> 50, review_at |-> 0]}
MCKeyChoices == {<<>>, <<b1>>}
MCScores     == {0, 60, 100}

=============================================================================
