--------------------------- MODULE MCAdminLimiter ---------------------------
(* One address: the entries of the map are independent of one another.     *)
EXTENDS AdminLimiter, TLC

CONSTANTS w1, w2

Node == {w1}
Threads == {w1, w2}
WorkerSymmetry == Permutations(Threads)
=============================================================================
