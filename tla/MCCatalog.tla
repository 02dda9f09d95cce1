----------------------------- MODULE MCCatalog -----------------------------
(* Three requests over a catalog with one published task, one default      *)
(* configuration and one submission.                                       *)
EXTENDS Catalog, TLC

CONSTANTS r1, r2, r3

Criterion(k, t, w) == [key |-> k, type |-> t, weight |-> w]
Draft(cs) == [criteria |-> cs, accept_at |-> 70, review_at |-> 50]

MCRequests == {r1, r2, r3}
MCNewDraft == Draft(<<>>)
MCOldDraft == Draft(<<Criterion("a", "scored", 1), Criterion("b", "gate", 0)>>)
MCInputs == {MCNewDraft,
             Draft(<<Criterion("a", "gate", 0)>>),
             Draft(<<Criterion("a", "scored", 0)>>)}
MCOldTree == {<<"p", "c0">>}
MCTrees == {MCOldTree,
            {<<"p", "c0">>, <<"q", "c1">>},
            {<<"p", "c1">>, <<"p", "c0">>}}

Symmetry == Permutations(MCRequests)
=============================================================================
