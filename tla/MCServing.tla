------------------------------ MODULE MCServing ------------------------------
(***************************************************************************)
(* A small instance of Serving: a caller with three searches, a client     *)
(* that waits two ticks for a request that may take one to arrive, runs of *)
(* up to two, and one call in each window of the rate limit.               *)
(***************************************************************************)
EXTENDS Serving

MCOutcomes ==
    { [success |-> TRUE, kind |-> "search", attempts |-> <<"blocked", "ok">>],
      [success |-> FALSE, kind |-> "search", attempts |-> <<>>] }
=============================================================================
