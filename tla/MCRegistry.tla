----------------------------- MODULE MCRegistry -----------------------------
(* Values of the constants of Registry for the model checker.              *)
EXTENDS Registry

CONSTANTS i1, i2

Start(ready) == [op |-> "start", id |-> None, wallet |-> "bitbox02",
                 ready |-> ready]
Simple(op, i) == [op |-> op, id |-> i, wallet |-> "bitbox02", ready |-> FALSE]

\* Every kind of request, of which bridge_stats takes the steps of logs.  The
\* second id is of instances that only a shutdown or a collision takes down.
MCRequests ==
    {Start(TRUE), Start(FALSE), [Start(TRUE) EXCEPT !.wallet = "other"],
     Simple("stop", i1), Simple("status", None), Simple("logs", i1),
     Simple("shutdown", None)}
=============================================================================
