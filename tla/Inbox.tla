------------------------------- MODULE Inbox -------------------------------
(***************************************************************************)
(* What the way from Vikunja to the event queue promises, with no buffer,  *)
(* request or relay in sight: a record that was accepted is taken from its *)
(* sender for good only when it is in the queue, unless its route is       *)
(* closed by then, and the queue has each record once, in the order in     *)
(* which they were accepted.  Ingress shows that the retrying ingress and  *)
(* the relay keep the promise.                                             *)
(***************************************************************************)
EXTENDS Naturals, Sequences

CONSTANTS Routes,   \* the hooks events are addressed to
          Contents  \* the raw bodies

VARIABLES accepted,  \* every record acknowledged to its sender, in order
          taken,     \* how many of them are settled
          queue,     \* the events committed, in order
          closed     \* the routes nobody will read any more

inboxVars == <<accepted, taken, queue, closed>>

Record == [hook : Routes, body : Contents]

Queued(r) == \E n \in DOMAIN queue : queue[n] = r
Settled(r) == Queued(r) \/ r.hook \in closed

InboxInit == accepted = << >> /\ taken = 0 /\ queue = << >> /\ closed = {}

Accept(r) == /\ accepted' = Append(accepted, r)
             /\ UNCHANGED <<taken, queue, closed>>

(* The next record leaves the sender's care. *)
Take == /\ taken < Len(accepted)
        /\ Settled(accepted[taken + 1])
        /\ taken' = taken + 1
        /\ UNCHANGED <<accepted, queue, closed>>

(* A record that is not there yet joins the queue behind all older ones.   *)
Commit(i) == /\ ~Queued(accepted[i])
             /\ \A j \in 1 .. i - 1 : Settled(accepted[j])
             /\ queue' = Append(queue, accepted[i])
             /\ UNCHANGED <<accepted, taken, closed>>

CommitAndTake(i) == /\ i = taken + 1
                    /\ ~Queued(accepted[i])
                    /\ queue' = Append(queue, accepted[i])
                    /\ taken' = i
                    /\ UNCHANGED <<accepted, closed>>

Close(h) == /\ closed' = closed \cup {h}
            /\ UNCHANGED <<accepted, taken, queue>>

InboxNext == \/ \E r \in Record : Accept(r)
             \/ Take
             \/ \E i \in DOMAIN accepted : Commit(i) \/ CommitAndTake(i)
             \/ \E h \in Routes : Close(h)

InboxSpec == InboxInit /\ [][InboxNext]_inboxVars
=============================================================================
