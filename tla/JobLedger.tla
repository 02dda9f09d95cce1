------------------------------ MODULE JobLedger ------------------------------
(***************************************************************************)
(* What the job queue promises, without leases, clocks, processes or       *)
(* transactions: work that was submitted stays on the ledger until a try   *)
(* succeeded or the tries are used up, and settled work is reopened only   *)
(* when somebody asks for it again (backend/app/jobs/queue.py).            *)
(***************************************************************************)
EXTENDS Naturals

CONSTANTS Reviews, MaxAttempts

VARIABLES
    entry,    \* where each review stands
    tries,    \* how often it was tried
    asked     \* the reviews with a request in progress

lvars == <<entry, tries, asked>>

Init ==
    /\ entry = [r \in Reviews |-> "none"]
    /\ tries = [r \in Reviews |-> 0]
    /\ asked = {}

Ask(r) ==
    /\ asked' = asked \union {r}
    /\ UNCHANGED <<entry, tries>>

\* Requests end without effect: the work is on the ledger already, or the
\* process serving them died.
Withdraw ==
    /\ asked' \in SUBSET asked
    /\ UNCHANGED <<entry, tries>>

\* A request is granted; another one for the same review may still be open.
Submit(r) ==
    /\ r \in asked
    /\ entry[r] # "todo"
    /\ entry' = [entry EXCEPT ![r] = "todo"]
    /\ asked' \in {asked, asked \ {r}}
    /\ UNCHANGED tries

Try(r) ==
    /\ entry[r] = "todo"
    /\ tries' = [tries EXCEPT ![r] = @ + 1]
    /\ UNCHANGED <<entry, asked>>

Succeed(r) ==
    /\ entry[r] = "todo"
    /\ tries[r] > 0
    /\ entry' = [entry EXCEPT ![r] = "done"]
    /\ UNCHANGED <<tries, asked>>

GiveUp(r) ==
    /\ entry[r] = "todo"
    /\ tries[r] >= MaxAttempts
    /\ entry' = [entry EXCEPT ![r] = "failed"]
    /\ UNCHANGED <<tries, asked>>

Next ==
    \/ \E r \in Reviews : Ask(r) \/ Submit(r) \/ Try(r) \/ Succeed(r) \/ GiveUp(r)
    \/ Withdraw

Spec == Init /\ [][Next]_lvars

=============================================================================
