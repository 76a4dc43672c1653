---------------------------- MODULE MCPageSolver ----------------------------
(***************************************************************************)
(* The runtimes, strategies and solver settings of the runs.  Node's fetch *)
(* gives an unanswered call far more time (300 seconds, the default of its *)
(* HTTP client) than Rust's client (30 seconds).                           *)
(***************************************************************************)
EXTENDS PageSolver

Both == {"js", "rust"}
AllStrategies == {"auto", "fast", "patient", "spa", "scroll"}
OnOff == BOOLEAN
Off == {FALSE}
On == {TRUE}
Limits == [js |-> 3, rust |-> 1]
=============================================================================
