----------------------------- MODULE MCIngress -----------------------------
(* Ingress on small instances: the relay's handlers are interchangeable.   *)
EXTENDS Ingress, TLC

Symmetry == Permutations(Handlers)
=============================================================================
