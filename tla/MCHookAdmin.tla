---------------------------- MODULE MCHookAdmin ----------------------------
(* HookAdmin on small instances: handlers, hooks and views are             *)
(* interchangeable, but for the order of the webhook ids.                  *)
EXTENDS HookAdmin, TLC

Symmetry == Permutations(Sessions) \cup Permutations(Views)
=============================================================================
