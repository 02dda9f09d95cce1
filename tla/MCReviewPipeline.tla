--------------------------- MODULE MCReviewPipeline ---------------------------
(* Model values and small instances of ReviewPipeline for TLC.             *)
EXTENDS ReviewPipeline, TLC

CONSTANTS p1, p2, r1, r2, q1, q2

\* Requests are served by the first process, or one by each process.
OneHome == [q \in {q1, q2} |-> p1]
TwoHomes == (q1 :> p1) @@ (q2 :> p2)

=============================================================================
