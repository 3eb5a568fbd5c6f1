----------------------------- MODULE MCCardText -----------------------------
(* CardText on a small instance: two views with a bucket each, and the     *)
(* selections of views that are tried.                                     *)
EXTENDS CardText

CONSTANTS b1, b2, v1, v2

MCBucket == [b \in {b1, b2} |->
  IF b = b1 THEN [view |-> v1, title |-> "todo"] ELSE [view |-> v2, title |-> "next"]]

Mode(views, filters) == [views |-> views, filters |-> filters]
MCHookModes == {Mode(<< >>, FALSE), Mode(<<v1, v2>>, FALSE), Mode(<<v2, v1>>, TRUE)}

Symmetry == Permutations(Titles) \cup Permutations(Idents)
=============================================================================
