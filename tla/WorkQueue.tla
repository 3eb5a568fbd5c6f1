----------------------------- MODULE WorkQueue -----------------------------
(***************************************************************************)
(* What the persisted event queue of vikunjbot promises to the code that   *)
(* delivers events, with no clock, lease or backoff in sight: an accepted  *)
(* event is worked on by at most one worker, goes back to the queue when   *)
(* that worker fails or vanishes, and leaves the queue only by being       *)
(* delivered.  LeasedQueue shows when Database.claim_next_event and its    *)
(* companions keep the promise; TaskDelivery is built on it.               *)
(***************************************************************************)
EXTENDS Naturals

CONSTANTS Workers,    \* the EventWorker loops
          MaxEvents   \* bound: how many events the relay accepts in a run

ASSUME QueueAssumption == MaxEvents \in Nat

VARIABLES status,     \* what became of each event, by its row id
          held        \* the event each worker is delivering, NoEvent if none

QueueVars == <<status, held>>

Ids == 1 .. MaxEvents
NoEvent == 0

(* "fresh" is a row nobody has claimed yet, "waiting" one whose earlier    *)
(* attempt did not finish.                                                 *)
Statuses == {"absent", "fresh", "held", "waiting", "done"}

QueueTypeOK == /\ status \in [Ids -> Statuses]
               /\ held \in [Workers -> Ids \cup {NoEvent}]

QueueInit == /\ status = [i \in Ids |-> "absent"]
             /\ held = [w \in Workers |-> NoEvent]

(* The relay commits the next row. *)
Accept(i) == /\ status[i] = "absent"
             /\ \A j \in Ids : j < i => status[j] # "absent"
             /\ status' = [status EXCEPT ![i] = "fresh"]
             /\ UNCHANGED held

(* A worker takes a row.  A waiting row comes back whenever its backoff    *)
(* allows, so its place is open; among the fresh ones the oldest is first. *)
Take(w, i) == /\ held[w] = NoEvent
              /\ status[i] \in {"fresh", "waiting"}
              /\ \A j \in Ids : j < i => status[j] # "fresh"
              /\ status' = [status EXCEPT ![i] = "held"]
              /\ held' = [held EXCEPT ![w] = i]

Release(w, outcome) == /\ held[w] # NoEvent
                       /\ status' = [status EXCEPT ![held[w]] = outcome]
                       /\ held' = [held EXCEPT ![w] = NoEvent]

(* Delivery finished. *)
Finish(w) == Release(w, "done")

(* Delivery failed, or the worker is gone: the event is owed again. *)
GiveBack(w) == Release(w, "waiting")

QueueNext == \/ \E i \in Ids : Accept(i)
             \/ \E w \in Workers : \/ \E i \in Ids : Take(w, i)
                                   \/ Finish(w)
                                   \/ GiveBack(w)

QueueSpec == QueueInit /\ [][QueueNext]_QueueVars
=============================================================================
