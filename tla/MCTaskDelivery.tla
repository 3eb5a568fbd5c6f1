--------------------------- MODULE MCTaskDelivery ---------------------------
(* TaskDelivery on small instances: workers and tasks are interchangeable. *)
EXTENDS TaskDelivery, TLC

Symmetry == Permutations(Workers) \cup Permutations(Tasks)
=============================================================================
