--------------------------- MODULE MCLeasedQueue ---------------------------
(* LeasedQueue on small instances: which worker is which does not matter.  *)
EXTENDS LeasedQueue, TLC

WorkerSymmetry == Permutations(Workers)
=============================================================================
