--------------------------- MODULE MCReplyActions ---------------------------
(* ReplyActions on small instances: the replies that are tried. *)
EXTENDS ReplyActions, TLC

CONSTANTS u1, u2, lower, upper, stranger

Bug(case) == [kind |-> "label", title |-> 1, case |-> case]
BugFix(case) == [kind |-> "label", title |-> 2, case |-> case]
User(name) == [kind |-> "user", name |-> name]
Plain == [kind |-> "plain"]

MCTexts == {<<Bug(lower), User(u1), User(u1)>>,
            <<Bug(upper), Bug(lower), Plain>>,
            <<BugFix(lower), User(stranger)>>}

Symmetry == Permutations(Sessions) \cup Permutations(Actors) \cup Permutations(Tokens)
=============================================================================
