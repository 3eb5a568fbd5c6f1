---------------------------- MODULE LeasedQueue ----------------------------
(***************************************************************************)
(* The PostgreSQL event queue and the worker loop that drains it:          *)
(* Database.enqueue_event, claim_next_event, complete_event, retry_event   *)
(* and EventWorker.run / process_one.  Each database method is one         *)
(* transaction and one action here; what a delivery does between claim and *)
(* completion is TaskDelivery's subject.                                   *)
(*                                                                         *)
(* Time is relative.  A row keeps how long it must still wait              *)
(* (available_at - now) and what is left of its lease (lease_until - now), *)
(* a worker how long it has been busy or has yet to sleep, and Tick lets   *)
(* one unit pass for all of them.                                          *)
(***************************************************************************)
EXTENDS Integers, Sequences

CONSTANTS
  Bodies,       \* the distinct (hook_id, payload_sha256) pairs that arrive
  Workers,      \* the worker loops that share the database
  Lease,        \* relay_lease_seconds
  MaxBackoff,   \* worker_max_backoff_seconds
  AttemptCap,   \* the exponent cap of exponential_backoff
  PollDelay,    \* worker_poll_seconds
  MaxDelivery,  \* longest a delivery runs before it returns or raises
  Poison,       \* bodies whose delivery raises every time
  MaxEvents,    \* bound: rows accepted in a run
  MaxFaults     \* bound: failures, crashes and database errors in a run

ASSUME QueueConstants ==
  /\ Lease \in Nat \ {0} /\ MaxBackoff \in Nat /\ AttemptCap \in Nat \ {0}
  /\ PollDelay \in Nat \ {0} /\ MaxDelivery \in Nat
  /\ MaxEvents \in Nat /\ MaxFaults \in Nat
  /\ Poison \subseteq Bodies

ASSUME PowersAreNatural == \A n \in 0 .. AttemptCap : 2 ^ n \in Nat

VARIABLES
  rows,    \* the events table in id order
  worker,  \* each worker loop, with the event it claimed
  faults   \* failures left

vars == <<rows, worker, faults>>

-----------------------------------------------------------------------------
(* A row in state "processing" whose lease has run out has lease Expired;  *)
(* how long ago no longer matters.  NoLease is lease_until IS NULL.        *)
Expired == -1
NoLease == -2

States == {"pending", "retry", "processing", "done"}

(* attempts is kept up to AttemptCap: beyond it the backoff, the only use  *)
(* of the counter, no longer changes.                                      *)
Row == [body : Bodies, state : States, attempts : 0 .. AttemptCap,
        wait : 0 .. MaxBackoff, lease : NoLease .. Lease]

(* "idle" is about to poll, "asleep" polled in vain, "busy" is delivering, *)
(* "crashed" lost its process, "stopped" lost only its task: an exception  *)
(* left run(), and the bot goes on without a worker.                       *)
Modes == {"idle", "asleep", "busy", "crashed", "stopped"}

Worker == [mode : Modes, id : 0 .. MaxEvents, attempts : 0 .. AttemptCap,
           clock : Nat]

Parked(mode) == [mode |-> mode, id |-> 0, attempts |-> 0, clock |-> 0]

TypeOK == /\ rows \in Seq(Row)
          /\ Len(rows) <= MaxEvents
          /\ worker \in [Workers -> Worker]
          /\ faults \in 0 .. MaxFaults

Entry(body, state, attempts, wait, lease) ==
  [body |-> body, state |-> state, attempts |-> attempts,
   wait |-> wait, lease |-> lease]

Lesser(a, b) == IF a < b THEN a ELSE b

BackoffUncapped(attempts) == 2 ^ Lesser(attempts, AttemptCap)  \* mutant

Backoff(attempts) == Lesser(2 ^ Lesser(attempts, AttemptCap), MaxBackoff)

Busy(w) == worker[w].mode = "busy"

(* Mutants: a lease that ends a unit early, that is not looked at, and a   *)
(* claim that reclaims nothing.                                            *)
LapsesEarly(row) == row.state = "processing" /\ row.lease <= 0
LapsesAtOnce(row) == row.state = "processing"
LapsesNever(row) == FALSE

HasLapsed(row) == row.state = "processing" /\ row.lease = Expired

Reclaimed(row) ==
  IF HasLapsed(row)
  THEN Entry(row.body, "retry", row.attempts, 0, NoLease)
  ELSE row

(* The table as the second statement of a claim sees it. *)
AfterReclaim == [i \in DOMAIN rows |-> Reclaimed(rows[i])]

(* Mutant: everything nobody is working on. *)
NotProcessing(table) == {i \in DOMAIN table : /\ table[i].state # "processing"
                                              /\ table[i].wait = 0}

Claimable(table) == {i \in DOMAIN table : /\ table[i].state \in {"pending", "retry"}
                                          /\ table[i].wait = 0}

AnyOf(table) == Claimable(table)  \* mutant: no ORDER BY

Oldest(table) == {i \in Claimable(table) : \A j \in Claimable(table) : i <= j}

-----------------------------------------------------------------------------
Init == /\ rows = << >>
        /\ worker = [w \in Workers |-> Parked("idle")]
        /\ faults = MaxFaults

(* The sink stores a body it has not seen, and answers a repeated one,     *)
(* which a retry of the ingress can always send, from the row it has.      *)
Enqueue(b) ==
  /\ \A i \in DOMAIN rows : rows[i].body # b
  /\ Len(rows) < MaxEvents
  /\ rows' = Append(rows, Entry(b, "pending", 0, 0, NoLease))
  /\ UNCHANGED <<worker, faults>>

Claim(w) ==
  /\ worker[w].mode = "idle"
  /\ \E i \in Oldest(AfterReclaim) :
       LET tried == Lesser(AfterReclaim[i].attempts + 1, AttemptCap)
       IN  /\ rows' = [AfterReclaim EXCEPT ![i] =
                Entry(@.body, "processing", tried, @.wait, Lease)]
           /\ worker' = [worker EXCEPT ![w] =
                [mode |-> "busy", id |-> i, attempts |-> tried, clock |-> 0]]
  /\ UNCHANGED faults

PollInVain(w) ==
  /\ worker[w].mode = "idle"
  /\ Claimable(AfterReclaim) = {}
  /\ worker' = [worker EXCEPT ![w] = [Parked("asleep") EXCEPT !.clock = PollDelay]]
  /\ UNCHANGED <<rows, faults>>

(* Neither completion nor retry looks at the state, lease or attempts of   *)
(* the row: the id is all they match.                                      *)
Complete(w) ==
  /\ Busy(w)
  /\ rows[worker[w].id].body \notin Poison
  /\ rows' = [rows EXCEPT ![worker[w].id] =
       Entry(@.body, "done", @.attempts, @.wait, NoLease)]
  /\ worker' = [worker EXCEPT ![w] = Parked("idle")]
  /\ UNCHANGED faults

Retry(w) ==
  /\ rows' = [rows EXCEPT ![worker[w].id] =
       Entry(@.body, "retry", @.attempts, Backoff(worker[w].attempts), NoLease)]
  /\ worker' = [worker EXCEPT ![w] = Parked("idle")]

(* _deliver raised: always for a poison body, now and then for the rest. *)
Fail(w) ==
  /\ Busy(w)
  /\ Retry(w)
  /\ IF rows[worker[w].id].body \in Poison
     THEN UNCHANGED faults
     ELSE faults > 0 /\ faults' = faults - 1

Lose(w, mode) ==
  /\ faults > 0
  /\ faults' = faults - 1
  /\ worker' = [worker EXCEPT ![w] = Parked(mode)]
  /\ UNCHANGED rows

(* The process dies, or is told to: worker.run() is cancelled wherever it  *)
(* is, and the row it held keeps its lease.                                *)
Crash(w) == worker[w].mode \in {"idle", "asleep", "busy"} /\ Lose(w, "crashed")

(* The claim, the completion or the retry itself raises.  Nothing catches  *)
(* it, so the task ends while the bot keeps polling Telegram.              *)
DatabaseError(w) == worker[w].mode \in {"idle", "busy"} /\ Lose(w, "stopped")

(* The container is started again, by its restart policy after a crash and *)
(* by a person after a stop.                                               *)
Restart(w) ==
  /\ worker[w].mode \in {"crashed", "stopped"}
  /\ worker' = [worker EXCEPT ![w] = Parked("idle")]
  /\ UNCHANGED <<rows, faults>>

RestartPolicy(w) == worker[w].mode = "crashed" /\ Restart(w)

RowAfterTick(row) ==
  Entry(row.body, row.state, row.attempts,
        IF row.wait > 0 THEN row.wait - 1 ELSE 0,
        IF row.lease > Expired THEN row.lease - 1 ELSE row.lease)

WorkerAfterTick(k) ==
  CASE k.mode = "busy"   -> [k EXCEPT !.clock = @ + 1]
    [] k.mode = "asleep" -> IF k.clock > 1 THEN [k EXCEPT !.clock = @ - 1]
                                           ELSE Parked("idle")
    [] OTHER             -> k

(* One unit of time.  An idle worker polls at once, before time passes. *)
Tick ==
  /\ \A w \in Workers : /\ worker[w].mode # "idle"
                        /\ Busy(w) => worker[w].clock < MaxDelivery
  /\ rows' = [i \in DOMAIN rows |-> RowAfterTick(rows[i])]
  /\ worker' = [w \in Workers |-> WorkerAfterTick(worker[w])]
  /\ UNCHANGED faults

Next == \/ \E b \in Bodies : Enqueue(b)
        \/ \E w \in Workers : \/ Claim(w) \/ PollInVain(w)
                              \/ Complete(w) \/ Fail(w)
                              \/ Crash(w) \/ DatabaseError(w) \/ Restart(w)
        \/ Tick

Spec == Init /\ [][Next]_vars

(* A running loop polls, a delivery ends, a crashed container is started   *)
(* again and time passes.  Nobody is obliged to start a stopped worker.    *)
Fairness == /\ \A w \in Workers : /\ WF_vars(Claim(w) \/ PollInVain(w))
                                  /\ WF_vars(Complete(w) \/ Fail(w))
                                  /\ WF_vars(RestartPolicy(w))
            /\ WF_vars(Tick)

FairSpec == Spec /\ Fairness

-----------------------------------------------------------------------------
(* When a lease protects its holder: no delivery outlasts it, or nobody    *)
(* else is there to reclaim the row.                                       *)
LeaseIsEnough == \/ MaxDelivery <= Lease
                 \/ \A v, w \in Workers : v = w

(* A worker in the middle of a delivery owns its row: the row is still     *)
(* "processing" under the attempt that worker claimed, so what it writes   *)
(* at the end cannot undo what another attempt decided.  Complete and      *)
(* retry do not check this (database.py:339-361); the lease has to.        *)
HolderOwnsRow ==
  \A w \in Workers : Busy(w) =>
    /\ worker[w].id \in DOMAIN rows
    /\ rows[worker[w].id].state = "processing"
    /\ rows[worker[w].id].attempts = worker[w].attempts

(* Why: the lease of a held row and the clock of its holder run together,  *)
(* so within MaxDelivery <= Lease the lease is still open when the holder  *)
(* is done (database.py:309-335, claimed and leased in one transaction). *)
LeaseFollowsClock ==
  \A w \in Workers : Busy(w) =>
    /\ worker[w].clock <= MaxDelivery
    /\ MaxDelivery <= Lease =>
         rows[worker[w].id].lease = Lease - worker[w].clock

(* No event is delivered by two workers at once (SKIP LOCKED and the       *)
(* persisted lease, database.py:307-337).                                  *)
ExclusiveClaims ==
  \A v, w \in Workers : Busy(v) /\ Busy(w) /\ worker[v].id = worker[w].id => v = w

(* What makes ExclusiveClaims last from step to step. *)
QueueInv == TypeOK /\ HolderOwnsRow /\ LeaseFollowsClock /\ ExclusiveClaims

(* A delivered event stays delivered: no late retry, reclaim or crash puts *)
(* a done row back in the queue (database.py:307-361).                     *)
DoneIsFinal ==
  [][\A i \in DOMAIN rows : rows[i].state = "done" => rows'[i].state = "done"]_vars

(* Every accepted event that can be delivered is delivered in the end,     *)
(* past failures, crashes and bodies that never succeed, unless a database *)
(* error silently stops a worker (event_worker.py:107-129).                *)
EveryEventDelivered ==
  \A i \in 1 .. MaxEvents :
    (i \in DOMAIN rows /\ rows[i].body \notin Poison)
      ~> \/ i \in DOMAIN rows /\ rows[i].state = "done"
         \/ \E w \in Workers : worker[w].mode = "stopped"

(* The first claim of a row is also its first attempt: a row nobody has    *)
(* tried is pending and ready, so that no claim passes it by.              *)
UntriedRowIsReady ==
  \A i \in DOMAIN rows : rows[i].attempts = 0 =>
    rows[i].state = "pending" /\ rows[i].wait = 0

-----------------------------------------------------------------------------
(* The promise of WorkQueue: a row is held while a worker is busy with it, *)
(* and a row whose worker is gone is owed from that moment on, even though *)
(* its lease has to run out before anyone can take it.                     *)
StatusOf(i) ==
  IF i > Len(rows) THEN "absent"
  ELSE IF rows[i].state = "done" THEN "done"
  ELSE IF \E w \in Workers : Busy(w) /\ worker[w].id = i THEN "held"
  ELSE IF rows[i].attempts = 0 THEN "fresh"
  ELSE "waiting"

StatusBar == [i \in 1 .. MaxEvents |-> StatusOf(i)]
HeldBar == [w \in Workers |-> IF Busy(w) THEN worker[w].id ELSE 0]

WQ == INSTANCE WorkQueue WITH status <- StatusBar, held <- HeldBar

(* Lease, backoff and reclaim implement the untimed queue that delivery    *)
(* relies on.                                                              *)
ImplementsWorkQueue == WQ!QueueSpec
=============================================================================
