-------------------------------- MODULE Api --------------------------------
(***************************************************************************)
(* What the request handlers of the API process (backend/app/api/routers)  *)
(* have in common: each is a coroutine with its own database session       *)
(* (backend/app/db/base.py), it may be overtaken at every await, and it    *)
(* leaves committed rows behind.  A request that fails a check answers     *)
(* 400 or 404 and changes nothing, nor does one whose first commit raises; *)
(* such requests are not shown.                                            *)
(*                                                                         *)
(* A table is a function from the ids of its rows.  Ids are fresh (uuid4), *)
(* and a handler creates one row of a table at most, so the row that a     *)
(* request creates has the request itself as its id.                       *)
(***************************************************************************)
EXTENDS Naturals, FiniteSets, Functions

CONSTANTS
    Requests,   \* the requests to come, one handler each
    Old,        \* the id of every row that is there already
    None        \* no row

ASSUME RequestsAssumption == IsFiniteSet(Requests)
ASSUME IdsAssumption == Old \notin Requests /\ None \notin Requests \union {Old}

VARIABLES
    req,        \* the local state of each handler
    database    \* the backend that DATABASE_URL selects

Ids == Requests \union {Old}

Waiting == [at |-> "waiting"]
Done    == [at |-> "done"]

\* The handler goes on to its next await with these local variables.
Await(r, locals) == req' = [req EXCEPT ![r] = locals]

Answer(r) == Await(r, Done)

In(r, place) == req[r].at = place

InsertRow(table, id, row) ==
    [x \in DOMAIN table \union {id} |-> IF x = id THEN row ELSE table[x]]

DeleteRows(table, ids) == Restrict(table, DOMAIN table \ ids)

\* SQLite is opened without "PRAGMA foreign_keys", so it enforces none.
ForeignKeys == database = "postgresql"

=============================================================================
