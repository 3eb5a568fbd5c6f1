------------------------- MODULE LeasedQueueProofs -------------------------
(***************************************************************************)
(* LeasedQueue for every number of workers, bodies, rows and faults and    *)
(* every lease, backoff and delivery time.                                 *)
(***************************************************************************)
EXTENDS LeasedQueue, SequenceTheorems, TLAPS

(* A function on 1 .. n is a sequence of length n. *)
LEMMA FunctionIsSequence ==
  ASSUME NEW S, NEW n \in Nat, NEW f \in [1 .. n -> S]
  PROVE  f \in Seq(S) /\ Len(f) = n
  OBVIOUS

(* Writing one row of a table leaves a table of the same length. *)
LEMMA WriteRow ==
  ASSUME NEW S, NEW s \in Seq(S), NEW i \in DOMAIN s, NEW r \in S
  PROVE  /\ [s EXCEPT ![i] = r] \in Seq(S)
         /\ Len([s EXCEPT ![i] = r]) = Len(s)
         /\ DOMAIN [s EXCEPT ![i] = r] = DOMAIN s
  OBVIOUS

(* The retry delay fits the column whatever the number of attempts. *)
LEMMA BackoffBounded ==
  ASSUME NEW a \in 0 .. AttemptCap
  PROVE  Backoff(a) \in 0 .. MaxBackoff
<1>1. Lesser(a, AttemptCap) \in 0 .. AttemptCap
  BY QueueConstants DEF Lesser
<1>2. 2 ^ Lesser(a, AttemptCap) \in Nat
  BY <1>1, PowersAreNatural
<1> QED
  BY <1>2, QueueConstants DEF Backoff, Lesser

(* Every row the code writes is a row. *)
LEMMA EntryIsRow ==
  ASSUME NEW b \in Bodies, NEW s \in States, NEW a \in 0 .. AttemptCap,
         NEW d \in 0 .. MaxBackoff, NEW l \in NoLease .. Lease
  PROVE  Entry(b, s, a, d, l) \in Row
  BY DEF Entry, Row

LEMMA LeaseValues ==
  /\ NoLease \in NoLease .. Lease /\ Lease \in NoLease .. Lease
  /\ 0 \in 0 .. MaxBackoff /\ 0 \in 0 .. AttemptCap
  /\ Expired < 0 /\ NoLease < Expired
  /\ NoLease \in Int /\ Expired \in Int
  BY QueueConstants DEF NoLease, Expired

(* Reclaiming changes no row's type, body, attempts or position, and       *)
(* touches only rows whose lease has lapsed.                               *)
LEMMA ReclaimedRow ==
  ASSUME NEW r \in Row
  PROVE  /\ Reclaimed(r) \in Row
         /\ Reclaimed(r).body = r.body
         /\ Reclaimed(r).attempts = r.attempts
         /\ Reclaimed(r).state = (IF HasLapsed(r) THEN "retry" ELSE r.state)
         /\ ~HasLapsed(r) => Reclaimed(r) = r
<1>1. /\ r.body \in Bodies /\ r.attempts \in 0 .. AttemptCap
      /\ "retry" \in States
  BY DEF Row, States
<1>2. Entry(r.body, "retry", r.attempts, 0, NoLease) \in Row
  BY <1>1, LeaseValues, EntryIsRow
<1> QED
  BY <1>2 DEF Reclaimed, Entry

LEMMA ReclaimedTable ==
  ASSUME TypeOK
  PROVE  /\ AfterReclaim \in Seq(Row)
         /\ Len(AfterReclaim) = Len(rows)
         /\ DOMAIN AfterReclaim = DOMAIN rows
         /\ \A i \in DOMAIN rows : AfterReclaim[i] = Reclaimed(rows[i])
<1>1. AfterReclaim \in [1 .. Len(rows) -> Row]
  BY ReclaimedRow DEF TypeOK, AfterReclaim
<1> QED
  BY <1>1, FunctionIsSequence DEF TypeOK, AfterReclaim

LEMMA TypeInit == Init => TypeOK
  BY QueueConstants DEF Init, TypeOK, Worker, Parked, Modes

LEMMA ParkedIsWorker ==
  ASSUME NEW m \in Modes
  PROVE  Parked(m) \in Worker /\ Parked(m).mode = m
  BY QueueConstants DEF Parked, Worker

(* All that the types need to know of holders: rows are never removed.     *)
HeldRowExists == \A w \in Workers : Busy(w) => worker[w].id \in DOMAIN rows

LEMMA RowOfHolder ==
  ASSUME TypeOK, HeldRowExists, NEW w \in Workers, Busy(w)
  PROVE  /\ worker[w].id \in DOMAIN rows
         /\ rows[worker[w].id] \in Row
         /\ rows[worker[w].id].body \in Bodies
         /\ rows[worker[w].id].attempts \in 0 .. AttemptCap
         /\ rows[worker[w].id].wait \in 0 .. MaxBackoff
         /\ worker[w].attempts \in 0 .. AttemptCap
<1>1. worker[w].id \in DOMAIN rows
  BY DEF HeldRowExists
<1>2. rows[worker[w].id] \in Row
  BY <1>1 DEF TypeOK
<1>3. worker[w] \in Worker
  BY DEF TypeOK
<1> QED
  BY <1>1, <1>2, <1>3 DEF Row, Worker

(* What a claim reads and writes, without its EXCEPT. *)
LEMMA ClaimEffect ==
  ASSUME TypeOK, NEW w \in Workers, Claim(w)
  PROVE  \E i \in DOMAIN rows, a \in 0 .. AttemptCap :
           /\ i \in Claimable(AfterReclaim)
           /\ \A j \in Claimable(AfterReclaim) : i <= j
           /\ a > 0
           /\ rows' = [AfterReclaim EXCEPT ![i] =
                        Entry(rows[i].body, "processing", a, AfterReclaim[i].wait, Lease)]
           /\ Entry(rows[i].body, "processing", a, AfterReclaim[i].wait, Lease) \in Row
           /\ worker' = [worker EXCEPT ![w] =
                [mode |-> "busy", id |-> i, attempts |-> a, clock |-> 0]]
<1>1. PICK i \in Claimable(AfterReclaim) :
        LET tried == Lesser(AfterReclaim[i].attempts + 1, AttemptCap)
        IN  /\ \A j \in Claimable(AfterReclaim) : i <= j
            /\ rows' = [AfterReclaim EXCEPT ![i] =
                 Entry(@.body, "processing", tried, @.wait, Lease)]
            /\ worker' = [worker EXCEPT ![w] =
                 [mode |-> "busy", id |-> i, attempts |-> tried, clock |-> 0]]
  BY DEF Claim, Oldest
<1> DEFINE a == Lesser(AfterReclaim[i].attempts + 1, AttemptCap)
<1>2. i \in DOMAIN rows
  BY <1>1, ReclaimedTable DEF Claimable
<1>3. /\ AfterReclaim[i] \in Row
      /\ AfterReclaim[i].body = rows[i].body
  BY <1>2, ReclaimedTable, ReclaimedRow DEF TypeOK
<1>4. /\ AfterReclaim[i].body \in Bodies
      /\ AfterReclaim[i].attempts \in 0 .. AttemptCap
      /\ AfterReclaim[i].wait \in 0 .. MaxBackoff
  BY <1>3 DEF Row
<1>5. a \in 0 .. AttemptCap /\ a > 0
  BY <1>4, QueueConstants DEF Lesser
<1>6. Entry(AfterReclaim[i].body, "processing", a, AfterReclaim[i].wait, Lease) \in Row
  BY <1>4, <1>5, EntryIsRow, LeaseValues DEF States
<1> QED
  BY <1>1, <1>2, <1>3, <1>5, <1>6

(* Every action keeps the types, given that holders hold rows that exist. *)
LEMMA TypeStep ==
  ASSUME TypeOK, HeldRowExists, [Next]_vars
  PROVE  TypeOK'
<1> USE DEF vars
<1>1. ASSUME NEW b \in Bodies, Enqueue(b) PROVE TypeOK'
  <2>1. Entry(b, "pending", 0, 0, NoLease) \in Row
    BY EntryIsRow, LeaseValues DEF States
  <2> QED
    BY <1>1, <2>1, QueueConstants DEF Enqueue, TypeOK
<1>2. ASSUME NEW w \in Workers, Claim(w) PROVE TypeOK'
  <2>1. PICK i \in DOMAIN rows, a \in 0 .. AttemptCap :
          /\ rows' = [AfterReclaim EXCEPT ![i] =
                       Entry(rows[i].body, "processing", a, AfterReclaim[i].wait, Lease)]
          /\ Entry(rows[i].body, "processing", a, AfterReclaim[i].wait, Lease) \in Row
          /\ worker' = [worker EXCEPT ![w] =
               [mode |-> "busy", id |-> i, attempts |-> a, clock |-> 0]]
    BY <1>2, ClaimEffect
  <2>2. rows' \in Seq(Row) /\ Len(rows') = Len(rows)
    BY <2>1, ReclaimedTable, WriteRow
  <2>3. [mode |-> "busy", id |-> i, attempts |-> a, clock |-> 0] \in Worker
    BY QueueConstants DEF Worker, Modes, TypeOK
  <2> QED
    BY <1>2, <2>1, <2>2, <2>3 DEF TypeOK, Claim
<1>3. ASSUME NEW w \in Workers, PollInVain(w) PROVE TypeOK'
  <2>1. [Parked("asleep") EXCEPT !.clock = PollDelay] \in Worker
    BY ParkedIsWorker, QueueConstants DEF Modes, Worker
  <2> QED
    BY <1>3, <2>1 DEF PollInVain, TypeOK
<1>4. ASSUME NEW w \in Workers, Complete(w) PROVE TypeOK'
  <2> DEFINE i == worker[w].id
             r == Entry(rows[i].body, "done", rows[i].attempts, rows[i].wait, NoLease)
  <2>1. i \in DOMAIN rows /\ r \in Row
    BY <1>4, RowOfHolder, EntryIsRow, LeaseValues DEF Complete, States
  <2>2. rows' = [rows EXCEPT ![i] = r]
    BY <1>4 DEF Complete
  <2>3. rows' \in Seq(Row) /\ Len(rows') = Len(rows)
    BY <2>1, <2>2, WriteRow DEF TypeOK
  <2> QED
    BY <1>4, <2>3, ParkedIsWorker DEF Complete, TypeOK, Modes
<1>5. ASSUME NEW w \in Workers, Fail(w) PROVE TypeOK'
  <2> DEFINE i == worker[w].id
             r == Entry(rows[i].body, "retry", rows[i].attempts,
                        Backoff(worker[w].attempts), NoLease)
  <2>1. i \in DOMAIN rows /\ r \in Row
    BY <1>5, RowOfHolder, BackoffBounded, EntryIsRow, LeaseValues DEF Fail, States
  <2>2. rows' = [rows EXCEPT ![i] = r]
    BY <1>5 DEF Fail, Retry
  <2>3. rows' \in Seq(Row) /\ Len(rows') = Len(rows)
    BY <2>1, <2>2, WriteRow DEF TypeOK
  <2>4. worker' \in [Workers -> Worker]
    BY <1>5, ParkedIsWorker DEF Fail, Retry, TypeOK, Modes
  <2>5. faults' \in 0 .. MaxFaults
    BY <1>5, QueueConstants DEF Fail, TypeOK
  <2> QED
    BY <2>3, <2>4, <2>5 DEF TypeOK
<1>6. ASSUME NEW w \in Workers, NEW m \in Modes, Lose(w, m) PROVE TypeOK'
  BY <1>6, ParkedIsWorker, QueueConstants DEF Lose, TypeOK
<1>7. ASSUME NEW w \in Workers, Restart(w) PROVE TypeOK'
  BY <1>7, ParkedIsWorker DEF Restart, TypeOK, Modes
<1>8. ASSUME Tick PROVE TypeOK'
  <2>1. ASSUME NEW r \in Row PROVE RowAfterTick(r) \in Row
    BY QueueConstants DEF RowAfterTick, Entry, Row, NoLease, Expired
  <2>2. ASSUME NEW k \in Worker PROVE WorkerAfterTick(k) \in Worker
    <3>1. [k EXCEPT !.clock = @ + 1] \in Worker
      BY DEF Worker
    <3>2. k.clock > 1 => [k EXCEPT !.clock = @ - 1] \in Worker
      BY DEF Worker
    <3> QED
      BY <3>1, <3>2, ParkedIsWorker DEF WorkerAfterTick, Modes
  <2>3. rows' \in [1 .. Len(rows) -> Row]
    BY <1>8, <2>1 DEF Tick, TypeOK
  <2>4. worker' \in [Workers -> Worker]
    BY <1>8, <2>2 DEF Tick, TypeOK
  <2> QED
    BY <1>8, <2>3, <2>4, FunctionIsSequence DEF Tick, TypeOK
<1>9. ASSUME UNCHANGED vars PROVE TypeOK'
  BY <1>9 DEF TypeOK
<1> QED
  BY <1>1, <1>2, <1>3, <1>4, <1>5, <1>6, <1>7, <1>8, <1>9
  DEF Next, Crash, DatabaseError, Modes

(* Time makes nobody busy, and adds one to the clock of who is. *)
LEMMA BusyAfterTick ==
  ASSUME NEW k \in Worker, WorkerAfterTick(k).mode = "busy"
  PROVE  /\ k.mode = "busy"
         /\ WorkerAfterTick(k).id = k.id
         /\ WorkerAfterTick(k).attempts = k.attempts
         /\ WorkerAfterTick(k).clock = k.clock + 1
<1>1. CASE k.mode = "busy"
  <2>1. WorkerAfterTick(k) = [k EXCEPT !.clock = k.clock + 1]
    BY <1>1 DEF WorkerAfterTick
  <2> QED
    BY <1>1, <2>1 DEF Worker
<1>2. CASE k.mode = "asleep"
  <2>1. WorkerAfterTick(k) \in {[k EXCEPT !.clock = k.clock - 1], Parked("idle")}
    BY <1>2 DEF WorkerAfterTick
  <2> QED
    BY <1>2, <2>1 DEF Worker, Parked
<1>3. CASE k.mode \notin {"busy", "asleep"}
  BY <1>3 DEF WorkerAfterTick
<1> QED
  BY <1>1, <1>2, <1>3

(* Rows stay, and only a claim makes a worker hold one. *)
LEMMA HeldRowExistsStep ==
  ASSUME TypeOK, HeldRowExists, [Next]_vars
  PROVE  HeldRowExists'
<1> USE DEF vars
<1>1. ASSUME NEW b \in Bodies, Enqueue(b) PROVE HeldRowExists'
  <2>1. DOMAIN rows \subseteq DOMAIN rows' /\ worker' = worker
    BY <1>1 DEF Enqueue, TypeOK
  <2> QED
    BY <2>1 DEF HeldRowExists, Busy
<1>2. ASSUME NEW w \in Workers, Claim(w) PROVE HeldRowExists'
  <2>1. PICK i \in DOMAIN rows, a \in 0 .. AttemptCap, r \in Row :
          /\ rows' = [AfterReclaim EXCEPT ![i] = r]
          /\ worker' = [worker EXCEPT ![w] =
               [mode |-> "busy", id |-> i, attempts |-> a, clock |-> 0]]
    BY <1>2, ClaimEffect
  <2>2. DOMAIN rows' = DOMAIN rows
    BY <2>1, ReclaimedTable
  <2> QED
    BY <2>1, <2>2 DEF HeldRowExists, Busy, TypeOK
<1>3. ASSUME NEW w \in Workers, NEW k, k.mode # "busy",
             DOMAIN rows' = DOMAIN rows, worker' = [worker EXCEPT ![w] = k]
      PROVE  HeldRowExists'
  BY <1>3 DEF HeldRowExists, Busy, TypeOK
<1>4. ASSUME NEW w \in Workers, PollInVain(w) PROVE HeldRowExists'
  BY <1>3, <1>4 DEF PollInVain, Parked
<1>5. ASSUME NEW w \in Workers, Complete(w) \/ Fail(w) PROVE HeldRowExists'
  BY <1>3, <1>5 DEF Complete, Fail, Retry, Parked
<1>6. ASSUME NEW w \in Workers, NEW m \in Modes \ {"busy"}, Lose(w, m)
      PROVE  HeldRowExists'
  BY <1>3, <1>6 DEF Lose, Parked
<1>7. ASSUME NEW w \in Workers, Restart(w) PROVE HeldRowExists'
  BY <1>3, <1>7 DEF Restart, Parked
<1>8. ASSUME Tick PROVE HeldRowExists'
  <2>1. \A w \in Workers : worker[w] \in Worker /\ worker'[w] = WorkerAfterTick(worker[w])
    BY <1>8 DEF Tick, TypeOK
  <2>2. \A w \in Workers : Busy(w)' => Busy(w) /\ worker'[w].id = worker[w].id
    BY <2>1, BusyAfterTick DEF Busy
  <2>3. DOMAIN rows' = DOMAIN rows
    BY <1>8 DEF Tick
  <2> QED
    BY <2>2, <2>3 DEF HeldRowExists, Busy
<1>9. ASSUME UNCHANGED vars PROVE HeldRowExists'
  BY <1>9 DEF HeldRowExists, Busy
<1> QED
  BY <1>1, <1>2, <1>4, <1>5, <1>6, <1>7, <1>8, <1>9
  DEF Next, Crash, DatabaseError, Modes

(* The types hold whatever the timing and the number of workers.  *)
THEOREM TypeCorrect == Spec => []TypeOK
<1> DEFINE I == TypeOK /\ HeldRowExists
<1>1. Init => I
  BY TypeInit DEF Init, HeldRowExists, Busy, Parked
<1>2. I /\ [Next]_vars => I'
  BY TypeStep, HeldRowExistsStep
<1>3. I => TypeOK
  OBVIOUS
<1> QED
  BY <1>1, <1>2, <1>3, PTL DEF Spec

-----------------------------------------------------------------------------
(* The inductive invariant is QueueInv.  ExclusiveClaims alone is not      *)
(* inductive: a claim takes rows that are pending, waiting or lapsed, so   *)
(* one has to know that a held row is none of these, which is what the     *)
(* lease is for.                                                           *)

(* While somebody polls, no row in a delivery's hands is up for grabs.     *)
LEMMA HeldRowIsSafe ==
  ASSUME QueueInv, LeaseIsEnough, NEW w \in Workers, worker[w].mode = "idle",
         NEW v \in Workers, Busy(v)
  PROVE  /\ worker[v].id \in DOMAIN rows
         /\ AfterReclaim[worker[v].id] = rows[worker[v].id]
         /\ worker[v].id \notin Claimable(AfterReclaim)
<1> DEFINE i == worker[v].id
<1>1. i \in DOMAIN rows /\ rows[i] \in Row /\ rows[i].state = "processing"
  BY DEF QueueInv, HolderOwnsRow, TypeOK
<1>2. v # w
  BY DEF Busy
<1>3. MaxDelivery <= Lease
  BY <1>2 DEF LeaseIsEnough
<1>4. rows[i].lease = Lease - worker[v].clock /\ worker[v].clock <= MaxDelivery
  BY <1>3 DEF QueueInv, LeaseFollowsClock
<1>5. worker[v].clock \in Nat
  BY DEF QueueInv, TypeOK, Worker
<1>6. rows[i].lease >= 0
  BY <1>3, <1>4, <1>5, QueueConstants
<1>7. ~HasLapsed(rows[i])
  BY <1>6 DEF HasLapsed, Expired
<1>8. AfterReclaim[i] = rows[i]
  BY <1>1, <1>7, ReclaimedTable, ReclaimedRow DEF QueueInv
<1> QED
  BY <1>1, <1>8 DEF Claimable

(* The lapse of a unit of time moves the lease of a held row and the clock *)
(* of its holder together, unless the lease was over already.              *)
LEMMA TickInv ==
  ASSUME QueueInv, Tick
  PROVE  HolderOwnsRow' /\ LeaseFollowsClock' /\ ExclusiveClaims'
<1>1. \A w \in Workers : /\ worker[w] \in Worker
                         /\ worker'[w] = WorkerAfterTick(worker[w])
  BY DEF Tick, QueueInv, TypeOK
<1>2. \A w \in Workers : Busy(w)' =>
        /\ Busy(w)
        /\ worker'[w].id = worker[w].id
        /\ worker'[w].attempts = worker[w].attempts
        /\ worker'[w].clock = worker[w].clock + 1
  BY <1>1, BusyAfterTick DEF Busy
<1>3. /\ DOMAIN rows' = DOMAIN rows
      /\ \A i \in DOMAIN rows : rows[i] \in Row /\ rows'[i] = RowAfterTick(rows[i])
  BY DEF Tick, QueueInv, TypeOK
<1>4. ASSUME NEW w \in Workers, Busy(w)'
      PROVE  /\ worker'[w].id \in DOMAIN rows'
             /\ rows'[worker'[w].id].state = "processing"
             /\ rows'[worker'[w].id].attempts = worker'[w].attempts
             /\ worker'[w].clock <= MaxDelivery
             /\ MaxDelivery <= Lease =>
                  rows'[worker'[w].id].lease = Lease - worker'[w].clock
  <2> DEFINE i == worker[w].id
  <2>1. /\ Busy(w) /\ worker'[w].id = i
        /\ worker'[w].attempts = worker[w].attempts
        /\ worker'[w].clock = worker[w].clock + 1
    BY <1>2, <1>4
  <2>2. /\ i \in DOMAIN rows /\ rows[i].state = "processing"
        /\ rows[i].attempts = worker[w].attempts
        /\ MaxDelivery <= Lease => rows[i].lease = Lease - worker[w].clock
    BY <2>1 DEF QueueInv, HolderOwnsRow, LeaseFollowsClock
  <2>3. worker[w].clock \in Nat /\ worker[w].clock < MaxDelivery
    BY <1>1, <2>1 DEF Worker, Tick
  <2>4. /\ rows'[i].state = rows[i].state
        /\ rows'[i].attempts = rows[i].attempts
        /\ rows'[i].lease = IF rows[i].lease > Expired THEN rows[i].lease - 1
                                                       ELSE rows[i].lease
    BY <1>3, <2>2 DEF RowAfterTick, Entry
  <2>5. MaxDelivery <= Lease => rows'[i].lease = Lease - (worker[w].clock + 1)
    BY <2>2, <2>3, <2>4, QueueConstants DEF Expired
  <2> QED
    BY <1>3, <2>1, <2>2, <2>3, <2>4, <2>5, QueueConstants
<1>5. ExclusiveClaims'
  BY <1>2 DEF ExclusiveClaims, QueueInv
<1> QED
  BY <1>4, <1>5 DEF HolderOwnsRow, LeaseFollowsClock, Busy

(* Writing the row one worker holds, and setting that worker free, leaves  *)
(* the other holders as they were.                                         *)
LEMMA ReleaseInv ==
  ASSUME QueueInv, NEW w \in Workers, Busy(w), NEW r, NEW m \in Modes \ {"busy"},
         rows' = [rows EXCEPT ![worker[w].id] = r],
         worker' = [worker EXCEPT ![w] = Parked(m)]
  PROVE  HolderOwnsRow' /\ LeaseFollowsClock' /\ ExclusiveClaims'
<1>1. \A v \in Workers : Busy(v)' =>
        /\ v # w /\ Busy(v) /\ worker'[v] = worker[v]
        /\ worker[v].id # worker[w].id
  BY DEF Busy, Parked, QueueInv, TypeOK, ExclusiveClaims
<1>2. DOMAIN rows' = DOMAIN rows
  OBVIOUS
<1>3. \A v \in Workers : Busy(v)' =>
        /\ worker'[v].id \in DOMAIN rows'
        /\ rows'[worker'[v].id] = rows[worker[v].id]
  BY <1>1, <1>2 DEF QueueInv, HolderOwnsRow
<1> QED
  BY <1>1, <1>3
  DEF QueueInv, HolderOwnsRow, LeaseFollowsClock, ExclusiveClaims, Busy

(* A step that leaves the table alone and makes nobody busy keeps it too.  *)
LEMMA IdleInv ==
  ASSUME QueueInv, NEW w \in Workers, NEW k, k.mode # "busy",
         rows' = rows, worker' = [worker EXCEPT ![w] = k]
  PROVE  HolderOwnsRow' /\ LeaseFollowsClock' /\ ExclusiveClaims'
<1>1. \A v \in Workers : Busy(v)' => Busy(v) /\ worker'[v] = worker[v]
  BY DEF Busy, QueueInv, TypeOK
<1> QED
  BY <1>1 DEF QueueInv, HolderOwnsRow, LeaseFollowsClock, ExclusiveClaims, Busy

(* A claim, which is where two workers could meet. *)
LEMMA ClaimInv ==
  ASSUME QueueInv, LeaseIsEnough, NEW w \in Workers, Claim(w)
  PROVE  HolderOwnsRow' /\ LeaseFollowsClock' /\ ExclusiveClaims'
<1> USE DEF QueueInv
<1>1. worker[w].mode = "idle"
  BY DEF Claim
<1>2. PICK i \in DOMAIN rows, a \in 0 .. AttemptCap :
        /\ i \in Claimable(AfterReclaim)
        /\ rows' = [AfterReclaim EXCEPT ![i] =
                     Entry(rows[i].body, "processing", a, AfterReclaim[i].wait, Lease)]
        /\ worker' = [worker EXCEPT ![w] =
             [mode |-> "busy", id |-> i, attempts |-> a, clock |-> 0]]
  BY ClaimEffect
<1>3. DOMAIN AfterReclaim = DOMAIN rows
  BY ReclaimedTable
<1>4. DOMAIN rows' = DOMAIN rows
  BY <1>2, <1>3
<1>5. \A v \in Workers \ {w} : Busy(v)' =>
        /\ Busy(v) /\ worker'[v] = worker[v]
        /\ worker[v].id \in DOMAIN rows'
        /\ worker[v].id # i
        /\ rows'[worker[v].id] = rows[worker[v].id]
  <2> SUFFICES ASSUME NEW v \in Workers \ {w}, Busy(v)'
               PROVE  /\ Busy(v) /\ worker'[v] = worker[v]
                      /\ worker[v].id \in DOMAIN rows'
                      /\ worker[v].id # i
                      /\ rows'[worker[v].id] = rows[worker[v].id]
    OBVIOUS
  <2>1. Busy(v) /\ worker'[v] = worker[v]
    BY <1>2 DEF Busy, TypeOK
  <2>2. /\ worker[v].id \in DOMAIN rows
        /\ AfterReclaim[worker[v].id] = rows[worker[v].id]
        /\ worker[v].id \notin Claimable(AfterReclaim)
    BY <1>1, <2>1, HeldRowIsSafe
  <2> QED
    BY <1>2, <1>3, <1>4, <2>1, <2>2
<1>6. /\ worker'[w] = [mode |-> "busy", id |-> i, attempts |-> a, clock |-> 0]
      /\ rows'[i] = Entry(rows[i].body, "processing", a, AfterReclaim[i].wait, Lease)
  BY <1>2, <1>3 DEF TypeOK
<1>7. HolderOwnsRow'
  BY <1>4, <1>5, <1>6 DEF HolderOwnsRow, Busy, Entry
<1>8. LeaseFollowsClock'
  <2>1. /\ worker'[w].clock <= MaxDelivery
        /\ rows'[worker'[w].id].lease = Lease - worker'[w].clock
    BY <1>6, QueueConstants DEF Entry
  <2> QED
    BY <1>5, <2>1 DEF LeaseFollowsClock, Busy
<1>9. ExclusiveClaims'
  BY <1>5, <1>6 DEF ExclusiveClaims, Busy
<1> QED
  BY <1>7, <1>8, <1>9

LEMMA InvStep ==
  ASSUME QueueInv, LeaseIsEnough, [Next]_vars
  PROVE  QueueInv'
<1>0. TypeOK'
  BY TypeStep DEF QueueInv, HolderOwnsRow, HeldRowExists
<1> SUFFICES HolderOwnsRow' /\ LeaseFollowsClock' /\ ExclusiveClaims'
  BY <1>0 DEF QueueInv
<1>1. ASSUME NEW b \in Bodies, Enqueue(b)
      PROVE  HolderOwnsRow' /\ LeaseFollowsClock' /\ ExclusiveClaims'
  <2>1. /\ worker' = worker
        /\ \A i \in DOMAIN rows : i \in DOMAIN rows' /\ rows'[i] = rows[i]
    BY <1>1 DEF Enqueue, QueueInv, TypeOK
  <2> QED
    BY <2>1 DEF QueueInv, HolderOwnsRow, LeaseFollowsClock, ExclusiveClaims, Busy
<1>2. ASSUME NEW w \in Workers, PollInVain(w)
      PROVE  HolderOwnsRow' /\ LeaseFollowsClock' /\ ExclusiveClaims'
  BY <1>2, IdleInv DEF PollInVain, Parked
<1>3. ASSUME NEW w \in Workers, Complete(w)
      PROVE  HolderOwnsRow' /\ LeaseFollowsClock' /\ ExclusiveClaims'
  <2> DEFINE i == worker[w].id
             r == Entry(rows[i].body, "done", rows[i].attempts, rows[i].wait, NoLease)
  <2>1. rows' = [rows EXCEPT ![i] = r]
    BY <1>3 DEF Complete
  <2> QED
    BY <1>3, <2>1, ReleaseInv DEF Complete, Modes
<1>4. ASSUME NEW w \in Workers, Fail(w)
      PROVE  HolderOwnsRow' /\ LeaseFollowsClock' /\ ExclusiveClaims'
  <2> DEFINE i == worker[w].id
             r == Entry(rows[i].body, "retry", rows[i].attempts,
                        Backoff(worker[w].attempts), NoLease)
  <2>1. rows' = [rows EXCEPT ![i] = r] /\ worker' = [worker EXCEPT ![w] = Parked("idle")]
    BY <1>4 DEF Fail, Retry
  <2> QED
    BY <1>4, <2>1, ReleaseInv DEF Fail, Modes
<1>5. ASSUME NEW w \in Workers, NEW m \in Modes \ {"busy"}, Lose(w, m)
      PROVE  HolderOwnsRow' /\ LeaseFollowsClock' /\ ExclusiveClaims'
  BY <1>5, IdleInv, ParkedIsWorker DEF Lose
<1>6. ASSUME NEW w \in Workers, Restart(w)
      PROVE  HolderOwnsRow' /\ LeaseFollowsClock' /\ ExclusiveClaims'
  BY <1>6, IdleInv DEF Restart, Parked
<1>7. ASSUME UNCHANGED vars
      PROVE  HolderOwnsRow' /\ LeaseFollowsClock' /\ ExclusiveClaims'
  BY <1>7 DEF vars, QueueInv, HolderOwnsRow, LeaseFollowsClock, ExclusiveClaims, Busy
<1> QED
  BY <1>1, <1>2, <1>3, <1>4, <1>5, <1>6, <1>7, ClaimInv, TickInv
  DEF Next, Crash, DatabaseError, Modes

LEMMA InvInit == Init => QueueInv
  BY TypeInit DEF Init, QueueInv, HolderOwnsRow, LeaseFollowsClock,
                  ExclusiveClaims, Busy, Parked

(* The invariant holds for any number of workers, provided that no         *)
(* delivery outlasts its lease or that there is a single worker.           *)
THEOREM QueueInvariant ==
  ASSUME LeaseIsEnough
  PROVE  Spec => []QueueInv
<1>1. QueueInv /\ [Next]_vars => QueueInv'
  BY InvStep
<1> QED
  BY <1>1, InvInit, PTL DEF Spec

(* No two workers deliver the same event, and a worker's row is still its  *)
(* own when it comes to complete or retry it.                              *)
THEOREM ClaimsAreExclusive ==
  ASSUME LeaseIsEnough
  PROVE  Spec => []ExclusiveClaims
<1>1. QueueInv => ExclusiveClaims
  BY DEF QueueInv
<1> QED
  BY <1>1, QueueInvariant, PTL

THEOREM HoldersOwnTheirRows ==
  ASSUME LeaseIsEnough
  PROVE  Spec => []HolderOwnsRow
<1>1. QueueInv => HolderOwnsRow
  BY DEF QueueInv
<1> QED
  BY <1>1, QueueInvariant, PTL

-----------------------------------------------------------------------------
(* What one step does to the rows: it changes the state of a row only by   *)
(* claiming, reclaiming or releasing it, and none of these applies to a    *)
(* row that is done.                                                       *)
LEMMA DoneStep ==
  ASSUME QueueInv, [Next]_vars, NEW i \in DOMAIN rows, rows[i].state = "done"
  PROVE  rows'[i].state = "done"
<1> USE DEF QueueInv
<1>0. rows[i] \in Row /\ ~HasLapsed(rows[i])
  BY DEF TypeOK, HasLapsed
<1>1. ASSUME NEW b \in Bodies, Enqueue(b) PROVE rows'[i].state = "done"
  BY <1>1 DEF Enqueue, TypeOK
<1>2. ASSUME NEW w \in Workers, Claim(w) PROVE rows'[i].state = "done"
  <2>1. PICK j \in DOMAIN rows, r \in Row :
          j \in Claimable(AfterReclaim) /\ rows' = [AfterReclaim EXCEPT ![j] = r]
    BY <1>2, ClaimEffect
  <2>2. AfterReclaim[i] = rows[i]
    BY <1>0, ReclaimedTable, ReclaimedRow
  <2>3. i # j
    BY <2>1, <2>2 DEF Claimable
  <2> QED
    BY <2>1, <2>2, <2>3, ReclaimedTable
<1>3. ASSUME NEW w \in Workers, Complete(w) \/ Fail(w) PROVE rows'[i].state = "done"
  <2>1. worker[w].id \in DOMAIN rows /\ rows[worker[w].id].state = "processing"
    BY <1>3 DEF HolderOwnsRow, Complete, Fail
  <2>2. \E r : rows' = [rows EXCEPT ![worker[w].id] = r]
    BY <1>3 DEF Complete, Fail, Retry
  <2> QED
    BY <2>1, <2>2
<1>4. ASSUME Tick PROVE rows'[i].state = "done"
  BY <1>4 DEF Tick, RowAfterTick, Entry
<1>5. ASSUME UNCHANGED rows PROVE rows'[i].state = "done"
  BY <1>5
<1> QED
  BY <1>1, <1>2, <1>3, <1>4, <1>5
  DEF Next, vars, PollInVain, Crash, DatabaseError, Lose, Restart

(* A delivered event is never queued again.  *)
THEOREM DeliveredStaysDelivered ==
  ASSUME LeaseIsEnough
  PROVE  Spec => DoneIsFinal
<1>1. QueueInv /\ [Next]_vars
        => [\A i \in DOMAIN rows : rows[i].state = "done" => rows'[i].state = "done"]_vars
  BY DoneStep
<1> QED
  BY <1>1, QueueInvariant, PTL DEF Spec, DoneIsFinal

-----------------------------------------------------------------------------
(* A step either adds a row at the end or leaves every row where it is     *)
(* with its body; a row that was tried once stays tried, and one that was  *)
(* not is touched by nothing but its first claim.                          *)
LEMMA RowsStay ==
  ASSUME QueueInv, [Next]_vars
  PROVE  \/ \E b \in Bodies : Enqueue(b)
         \/ /\ DOMAIN rows' = DOMAIN rows
            /\ Len(rows') = Len(rows)
            /\ \A i \in DOMAIN rows :
                 /\ rows'[i].body = rows[i].body
                 /\ rows[i].attempts # 0 => rows'[i].attempts # 0
<1> DEFINE Same == /\ DOMAIN rows' = DOMAIN rows
                   /\ Len(rows') = Len(rows)
                   /\ \A i \in DOMAIN rows :
                        /\ rows'[i].body = rows[i].body
                        /\ rows[i].attempts # 0 => rows'[i].attempts # 0
<1> USE DEF QueueInv
<1>1. ASSUME NEW w \in Workers, Claim(w) PROVE Same
  <2>1. PICK j \in DOMAIN rows, a \in 0 .. AttemptCap :
          /\ a > 0
          /\ rows' = [AfterReclaim EXCEPT ![j] =
                       Entry(rows[j].body, "processing", a, AfterReclaim[j].wait, Lease)]
          /\ Entry(rows[j].body, "processing", a, AfterReclaim[j].wait, Lease) \in Row
    BY <1>1, ClaimEffect
  <2>2. DOMAIN rows' = DOMAIN rows /\ Len(rows') = Len(rows)
    BY <2>1, ReclaimedTable, WriteRow
  <2>3. \A i \in DOMAIN rows : /\ AfterReclaim[i].body = rows[i].body
                               /\ AfterReclaim[i].attempts = rows[i].attempts
    BY ReclaimedTable, ReclaimedRow DEF TypeOK
  <2> QED
    BY <2>1, <2>2, <2>3, ReclaimedTable DEF Entry
<1>2. ASSUME NEW w \in Workers, Complete(w) \/ Fail(w) PROVE Same
  <2> DEFINE j == worker[w].id
  <2>1. j \in DOMAIN rows
    BY <1>2 DEF HolderOwnsRow, Complete, Fail
  <2>2. \E s, d : rows' = [rows EXCEPT ![j] =
                   Entry(rows[j].body, s, rows[j].attempts, d, NoLease)]
    BY <1>2 DEF Complete, Fail, Retry
  <2> QED
    BY <2>1, <2>2 DEF Entry, TypeOK
<1>3. ASSUME Tick PROVE Same
  <2>1. /\ rows' = [i \in DOMAIN rows |-> RowAfterTick(rows[i])]
        /\ rows \in Seq(Row) /\ TypeOK'
    BY <1>3, TypeStep DEF Tick, TypeOK, HolderOwnsRow, HeldRowExists
  <2> QED
    BY <2>1 DEF RowAfterTick, Entry, TypeOK
<1>4. ASSUME UNCHANGED rows PROVE Same
  BY <1>4
<1> QED
  BY <1>1, <1>2, <1>3, <1>4
  DEF Next, vars, PollInVain, Crash, DatabaseError, Lose, Restart

-----------------------------------------------------------------------------
LEMMA UntriedStep ==
  ASSUME QueueInv, UntriedRowIsReady, [Next]_vars
  PROVE  UntriedRowIsReady'
<1> USE DEF QueueInv
<1>1. ASSUME NEW b \in Bodies, Enqueue(b) PROVE UntriedRowIsReady'
  <2>1. /\ DOMAIN rows' = DOMAIN rows \cup {Len(rows) + 1}
        /\ \A i \in DOMAIN rows : rows'[i] = rows[i]
        /\ rows'[Len(rows) + 1] = Entry(b, "pending", 0, 0, NoLease)
    BY <1>1 DEF Enqueue, TypeOK
  <2> QED
    BY <2>1 DEF UntriedRowIsReady, Entry
<1>2. ASSUME NEW w \in Workers, Claim(w) PROVE UntriedRowIsReady'
  <2>1. PICK j \in DOMAIN rows, a \in 0 .. AttemptCap :
          /\ a > 0
          /\ rows' = [AfterReclaim EXCEPT ![j] =
                       Entry(rows[j].body, "processing", a, AfterReclaim[j].wait, Lease)]
    BY <1>2, ClaimEffect
  <2>2. \A i \in DOMAIN rows : rows[i] \in Row /\ AfterReclaim[i] = Reclaimed(rows[i])
    BY ReclaimedTable DEF TypeOK
  <2>3. ASSUME NEW i \in DOMAIN rows, rows'[i].attempts = 0
        PROVE  rows'[i].state = "pending" /\ rows'[i].wait = 0
    <3>1. i # j /\ rows'[i] = AfterReclaim[i]
      BY <2>1, <2>3, ReclaimedTable DEF Entry
    <3>2. rows[i].attempts = 0
      BY <2>2, <2>3, <3>1, ReclaimedRow
    <3>3. rows[i].state = "pending" /\ rows[i].wait = 0
      BY <3>2 DEF UntriedRowIsReady
    <3>4. ~HasLapsed(rows[i])
      BY <3>3 DEF HasLapsed
    <3> QED
      BY <2>2, <3>1, <3>3, <3>4, ReclaimedRow
  <2>4. DOMAIN rows' = DOMAIN rows
    BY <2>1, ReclaimedTable
  <2> QED
    BY <2>3, <2>4 DEF UntriedRowIsReady
<1>3. ASSUME NEW w \in Workers, Complete(w) \/ Fail(w) PROVE UntriedRowIsReady'
  <2> DEFINE j == worker[w].id
  <2>1. /\ j \in DOMAIN rows /\ rows[j].state = "processing"
    BY <1>3 DEF HolderOwnsRow, Complete, Fail
  <2>2. rows[j].attempts # 0
    BY <2>1 DEF UntriedRowIsReady
  <2>3. \E s, d : rows' = [rows EXCEPT ![j] =
                   Entry(rows[j].body, s, rows[j].attempts, d, NoLease)]
    BY <1>3 DEF Complete, Fail, Retry
  <2> QED
    BY <2>1, <2>2, <2>3 DEF UntriedRowIsReady, Entry
<1>4. ASSUME Tick PROVE UntriedRowIsReady'
  <2>1. rows' = [i \in DOMAIN rows |-> RowAfterTick(rows[i])]
    BY <1>4 DEF Tick
  <2>2. ASSUME NEW r \in Row
        PROVE  /\ RowAfterTick(r).attempts = r.attempts
               /\ RowAfterTick(r).state = r.state
               /\ r.wait = 0 => RowAfterTick(r).wait = 0
    BY DEF RowAfterTick, Entry, Row
  <2>3. \A i \in DOMAIN rows : rows[i] \in Row
    BY DEF TypeOK
  <2>4. ASSUME NEW i \in DOMAIN rows', rows'[i].attempts = 0
        PROVE  rows'[i].state = "pending" /\ rows'[i].wait = 0
    <3>1. i \in DOMAIN rows /\ rows'[i] = RowAfterTick(rows[i])
      BY <2>1
    <3>2. rows[i].attempts = 0
      BY <2>2, <2>3, <2>4, <3>1
    <3>3. rows[i].state = "pending" /\ rows[i].wait = 0
      BY <3>1, <3>2 DEF UntriedRowIsReady
    <3> QED
      BY <2>2, <2>3, <3>1, <3>3
  <2> QED
    BY <2>4 DEF UntriedRowIsReady
<1>5. ASSUME UNCHANGED rows PROVE UntriedRowIsReady'
  BY <1>5 DEF UntriedRowIsReady
<1> QED
  BY <1>1, <1>2, <1>3, <1>4, <1>5
  DEF Next, vars, PollInVain, Crash, DatabaseError, Lose, Restart

(* The refinement mapping, one entry at a time. *)
LEMMA StatusBarExcept ==
  ASSUME NEW x \in 1 .. MaxEvents, NEW v,
         \A i \in 1 .. MaxEvents : StatusOf(i)' = IF i = x THEN v ELSE StatusOf(i)
  PROVE  StatusBar' = [StatusBar EXCEPT ![x] = v]
  BY DEF StatusBar

LEMMA StatusBarSame ==
  ASSUME \A i \in 1 .. MaxEvents : StatusOf(i)' = StatusOf(i)
  PROVE  StatusBar' = StatusBar
  BY DEF StatusBar

LEMMA HeldBarExcept ==
  ASSUME NEW w \in Workers, NEW v,
         \A u \in Workers :
           (IF Busy(u) THEN worker[u].id ELSE 0)'
             = IF u = w THEN v ELSE IF Busy(u) THEN worker[u].id ELSE 0
  PROVE  HeldBar' = [HeldBar EXCEPT ![w] = v]
  BY DEF HeldBar

LEMMA HeldBarSame ==
  ASSUME \A u \in Workers : /\ Busy(u)' <=> Busy(u)
                            /\ Busy(u) => worker'[u].id = worker[u].id
  PROVE  HeldBar' = HeldBar
  BY DEF HeldBar

(* The cases of StatusOf, as facts. *)
LEMMA StatusCases ==
  ASSUME TypeOK, NEW i \in 1 .. MaxEvents
  PROVE  /\ i \notin DOMAIN rows => StatusOf(i) = "absent"
         /\ i \in DOMAIN rows =>
              /\ rows[i].state = "done" => StatusOf(i) = "done"
              /\ rows[i].state # "done" /\ (\E w \in Workers : Busy(w) /\ worker[w].id = i)
                   => StatusOf(i) = "held"
              /\ rows[i].state # "done" /\ (\A w \in Workers : Busy(w) => worker[w].id # i)
                   => StatusOf(i) = IF rows[i].attempts = 0 THEN "fresh" ELSE "waiting"
<1>1. i \in DOMAIN rows <=> ~(i > Len(rows))
  BY QueueConstants DEF TypeOK
<1> QED
  BY <1>1 DEF StatusOf

LEMMA StatusCasesNext ==
  ASSUME TypeOK', NEW i \in 1 .. MaxEvents
  PROVE  /\ i \notin DOMAIN rows' => StatusOf(i)' = "absent"
         /\ i \in DOMAIN rows' =>
              /\ rows'[i].state = "done" => StatusOf(i)' = "done"
              /\ rows'[i].state # "done" /\ (\E w \in Workers : Busy(w)' /\ worker'[w].id = i)
                   => StatusOf(i)' = "held"
              /\ rows'[i].state # "done" /\ (\A w \in Workers : Busy(w)' => worker'[w].id # i)
                   => StatusOf(i)' = IF rows'[i].attempts = 0 THEN "fresh" ELSE "waiting"
<1>1. i \in DOMAIN rows' <=> ~(i > Len(rows'))
  BY QueueConstants DEF TypeOK
<1> QED
  BY <1>1 DEF StatusOf

LEMMA StatusSame ==
  ASSUME TypeOK, TypeOK', NEW i \in 1 .. MaxEvents,
         i \in DOMAIN rows' <=> i \in DOMAIN rows,
         i \in DOMAIN rows =>
           /\ rows'[i].state = "done" <=> rows[i].state = "done"
           /\ rows'[i].attempts = 0 <=> rows[i].attempts = 0,
         (\E w \in Workers : Busy(w)' /\ worker'[w].id = i)
           <=> (\E w \in Workers : Busy(w) /\ worker[w].id = i)
  PROVE  StatusOf(i)' = StatusOf(i)
<1>1. CASE i \notin DOMAIN rows
  BY <1>1, StatusCases, StatusCasesNext
<1>2. CASE i \in DOMAIN rows /\ rows[i].state = "done"
  BY <1>2, StatusCases, StatusCasesNext
<1>3. CASE i \in DOMAIN rows /\ rows[i].state # "done"
           /\ \E w \in Workers : Busy(w) /\ worker[w].id = i
  BY <1>3, StatusCases, StatusCasesNext
<1>4. CASE i \in DOMAIN rows /\ rows[i].state # "done"
           /\ \A w \in Workers : Busy(w) => worker[w].id # i
  BY <1>4, StatusCases, StatusCasesNext
<1> QED
  BY <1>1, <1>2, <1>3, <1>4

LEMMA RefineEnqueue ==
  ASSUME QueueInv, QueueInv', NEW b \in Bodies, Enqueue(b)
  PROVE  \E i \in WQ!Ids : WQ!Accept(i)
<1> USE DEF QueueInv
<1>1. PICK x \in 1 .. MaxEvents :
        /\ x = Len(rows) + 1 /\ x \notin DOMAIN rows
        /\ DOMAIN rows' = DOMAIN rows \cup {x}
        /\ \A i \in DOMAIN rows : rows'[i] = rows[i]
        /\ rows'[x].attempts = 0 /\ rows'[x].state = "pending"
        /\ worker' = worker
        /\ \A j \in 1 .. MaxEvents : j < x => j \in DOMAIN rows
  BY QueueConstants DEF Enqueue, Entry, TypeOK
<1>2. \A w \in Workers : /\ Busy(w)' <=> Busy(w)
                         /\ Busy(w) => worker[w].id # x
  BY <1>1 DEF Busy, HolderOwnsRow
<1>3. StatusOf(x) = "absent" /\ StatusOf(x)' = "fresh"
  BY <1>1, <1>2, StatusCases, StatusCasesNext
<1>4. \A i \in 1 .. MaxEvents : i # x => StatusOf(i)' = StatusOf(i)
  BY <1>1, <1>2, StatusSame
<1>5. StatusBar' = [StatusBar EXCEPT ![x] = "fresh"]
  BY <1>1, <1>3, <1>4, StatusBarExcept, ZenonT(40)
<1>6. \A j \in 1 .. MaxEvents : j < x => StatusOf(j) # "absent"
  <2> SUFFICES ASSUME NEW j \in 1 .. MaxEvents, j < x PROVE StatusOf(j) # "absent"
    OBVIOUS
  <2>1. j \in DOMAIN rows
    BY <1>1
  <2> QED
    BY <2>1, StatusCases
<1>7. HeldBar' = HeldBar
  BY <1>1, <1>2, HeldBarSame
<1> QED
  BY <1>1, <1>3, <1>5, <1>6, <1>7 DEF WQ!Accept, WQ!Ids, StatusBar

LEMMA RefineClaim ==
  ASSUME QueueInv, QueueInv', UntriedRowIsReady, LeaseIsEnough,
         NEW w \in Workers, Claim(w)
  PROVE  \E i \in WQ!Ids : WQ!Take(w, i)
<1> USE DEF QueueInv
<1>1. PICK i \in DOMAIN rows, a \in 0 .. AttemptCap :
        /\ i \in Claimable(AfterReclaim)
        /\ \A j \in Claimable(AfterReclaim) : i <= j
        /\ a > 0
        /\ rows' = [AfterReclaim EXCEPT ![i] =
                     Entry(rows[i].body, "processing", a, AfterReclaim[i].wait, Lease)]
        /\ worker' = [worker EXCEPT ![w] =
             [mode |-> "busy", id |-> i, attempts |-> a, clock |-> 0]]
  BY ClaimEffect
<1>2. /\ DOMAIN AfterReclaim = DOMAIN rows /\ DOMAIN rows' = DOMAIN rows
      /\ i \in 1 .. MaxEvents
  BY <1>1, ReclaimedTable, QueueConstants DEF TypeOK
<1>3. worker[w].mode = "idle" /\ ~Busy(w)
  BY DEF Claim, Busy
<1>4. /\ Busy(w)' /\ worker'[w].id = i
      /\ \A v \in Workers \ {w} : (Busy(v)' <=> Busy(v)) /\ worker'[v] = worker[v]
  BY <1>1 DEF Busy, TypeOK
<1>5. \A v \in Workers : Busy(v) => worker[v].id # i
  BY <1>1, <1>3, HeldRowIsSafe
<1>6. \A j \in DOMAIN rows :
        /\ rows[j] \in Row /\ AfterReclaim[j] = Reclaimed(rows[j])
        /\ AfterReclaim[j].state = (IF HasLapsed(rows[j]) THEN "retry" ELSE rows[j].state)
        /\ AfterReclaim[j].attempts = rows[j].attempts
  BY ReclaimedTable, ReclaimedRow DEF TypeOK
<1>7. rows[i].state # "done" /\ rows'[i].state = "processing"
  BY <1>1, <1>2, <1>6 DEF Claimable, HasLapsed, Entry
<1>8. StatusOf(i) \in {"fresh", "waiting"} /\ StatusOf(i)' = "held"
  BY <1>2, <1>4, <1>5, <1>7, StatusCases, StatusCasesNext
<1>9. ASSUME NEW j \in 1 .. MaxEvents, j # i PROVE StatusOf(j)' = StatusOf(j)
  <2>1. (\E v \in Workers : Busy(v)' /\ worker'[v].id = j)
          <=> (\E v \in Workers : Busy(v) /\ worker[v].id = j)
    BY <1>3, <1>4, <1>9
  <2>2. j \in DOMAIN rows => rows'[j] = AfterReclaim[j]
    BY <1>1, <1>2, <1>9
  <2>3. j \in DOMAIN rows =>
          /\ rows'[j].state = "done" <=> rows[j].state = "done"
          /\ rows'[j].attempts = rows[j].attempts
    BY <1>6, <2>2 DEF HasLapsed
  <2> QED
    BY <1>2, <2>1, <2>3, StatusSame
<1>10. ASSUME NEW j \in 1 .. MaxEvents, j < i PROVE StatusOf(j) # "fresh"
  <2> SUFFICES ASSUME StatusOf(j) = "fresh" PROVE FALSE
    OBVIOUS
  <2>1. /\ j \in DOMAIN rows /\ rows[j].attempts = 0
    BY StatusCases
  <2>2. rows[j].state = "pending" /\ rows[j].wait = 0
    BY <2>1 DEF UntriedRowIsReady
  <2>3. ~HasLapsed(rows[j])
    BY <2>2 DEF HasLapsed
  <2>4. AfterReclaim[j] = rows[j]
    BY <1>6, <2>1, <2>3, ReclaimedRow
  <2>5. j \in Claimable(AfterReclaim)
    BY <1>2, <2>1, <2>2, <2>4 DEF Claimable
  <2>6. i <= j
    BY <1>1, <2>5
  <2> QED
    BY <1>2, <1>10, <2>6
<1>11. StatusBar' = [StatusBar EXCEPT ![i] = "held"]
  BY <1>2, <1>8, <1>9, StatusBarExcept
<1>12. HeldBar' = [HeldBar EXCEPT ![w] = i]
  BY <1>3, <1>4, HeldBarExcept
<1> QED
  BY <1>2, <1>3, <1>8, <1>10, <1>11, <1>12
  DEF WQ!Take, WQ!Ids, WQ!NoEvent, StatusBar, HeldBar

(* A holder that lets go of its row: it completed or failed, or it is gone *)
(* and left the row as it was.                                             *)
LEMMA RefineRelease ==
  ASSUME QueueInv, QueueInv', UntriedRowIsReady,
         NEW w \in Workers, Busy(w), ~Busy(w)',
         \A v \in Workers \ {w} : worker'[v] = worker[v],
         DOMAIN rows' = DOMAIN rows,
         \A j \in DOMAIN rows : j # worker[w].id => rows'[j] = rows[j],
         rows'[worker[w].id].attempts = rows[worker[w].id].attempts
  PROVE  IF rows'[worker[w].id].state = "done" THEN WQ!Finish(w) ELSE WQ!GiveBack(w)
<1> USE DEF QueueInv
<1> DEFINE outcome(i) == IF rows'[i].state = "done" THEN "done" ELSE "waiting"
<1>1. PICK i \in 1 .. MaxEvents :
        /\ i = worker[w].id /\ i \in DOMAIN rows
        /\ rows[i].state = "processing" /\ rows[i] \in Row
  BY QueueConstants DEF HolderOwnsRow, TypeOK
<1>2. rows[i].attempts # 0
  BY <1>1 DEF UntriedRowIsReady
<1>3. \A v \in Workers : Busy(v)' => v # w /\ Busy(v) /\ worker'[v].id # i
  BY <1>1 DEF Busy, ExclusiveClaims
<1>4. PICK o : o = outcome(i) /\ StatusOf(i)' = o
  BY <1>1, <1>2, <1>3, StatusCasesNext
<1>5. ASSUME NEW j \in 1 .. MaxEvents, j # i PROVE StatusOf(j)' = StatusOf(j)
  <2>1. (\E v \in Workers : Busy(v)' /\ worker'[v].id = j)
          <=> (\E v \in Workers : Busy(v) /\ worker[v].id = j)
    BY <1>1, <1>3, <1>5 DEF Busy
  <2> QED
    BY <1>1, <1>5, <2>1, StatusSame
<1>6. StatusBar' = [StatusBar EXCEPT ![i] = o]
  BY <1>4, <1>5, StatusBarExcept, ZenonT(40)
<1>7. HeldBar' = [HeldBar EXCEPT ![w] = 0]
  BY HeldBarExcept DEF Busy
<1>8. HeldBar[w] = i /\ i # 0
  BY <1>1 DEF HeldBar
<1> QED
  BY <1>1, <1>4, <1>6, <1>7, <1>8
  DEF WQ!Finish, WQ!GiveBack, WQ!Release, WQ!NoEvent

(* Every other step is invisible: polls in vain, losses of workers that    *)
(* hold nothing, restarts and the passing of time.                         *)
LEMMA RefineStutter ==
  ASSUME QueueInv, QueueInv', DOMAIN rows' = DOMAIN rows,
         \A i \in DOMAIN rows : /\ rows'[i].state = rows[i].state
                                /\ rows'[i].attempts = rows[i].attempts,
         \A v \in Workers : /\ Busy(v)' <=> Busy(v)
                            /\ Busy(v) => worker'[v].id = worker[v].id
  PROVE  UNCHANGED WQ!QueueVars
<1> USE DEF QueueInv
<1>1. \A i \in 1 .. MaxEvents :
        (\E v \in Workers : Busy(v)' /\ worker'[v].id = i)
          <=> (\E v \in Workers : Busy(v) /\ worker[v].id = i)
  OBVIOUS
<1>2. \A i \in 1 .. MaxEvents : StatusOf(i)' = StatusOf(i)
  BY <1>1, StatusSame
<1>3. StatusBar' = StatusBar
  BY <1>2, StatusBarSame
<1>4. HeldBar' = HeldBar
  BY HeldBarSame
<1> QED
  BY <1>3, <1>4 DEF WQ!QueueVars

LEMMA RefineInit == Init => WQ!QueueInit
  BY QueueConstants
  DEF Init, WQ!QueueInit, WQ!Ids, WQ!NoEvent, StatusBar, HeldBar, StatusOf, Busy, Parked

LEMMA RefineStep ==
  ASSUME QueueInv, QueueInv', UntriedRowIsReady, LeaseIsEnough, [Next]_vars
  PROVE  [WQ!QueueNext]_(WQ!QueueVars)
<1> DEFINE Goal == [WQ!QueueNext]_(WQ!QueueVars)
<1> USE DEF QueueInv
<1>1. ASSUME NEW b \in Bodies, Enqueue(b) PROVE Goal
  BY <1>1, RefineEnqueue DEF WQ!QueueNext
<1>2. ASSUME NEW w \in Workers, Claim(w) PROVE Goal
  BY <1>2, RefineClaim DEF WQ!QueueNext
<1>3. ASSUME NEW w \in Workers, WQ!Finish(w) \/ WQ!GiveBack(w) PROVE Goal
  BY <1>3 DEF WQ!QueueNext
<1>4. ASSUME NEW w \in Workers, Complete(w) \/ Fail(w) PROVE Goal
  <2> DEFINE j == worker[w].id
  <2>1. j \in DOMAIN rows
    BY <1>4 DEF HolderOwnsRow, Complete, Fail
  <2>2. PICK s, d : rows' = [rows EXCEPT ![j] =
                      Entry(rows[j].body, s, rows[j].attempts, d, NoLease)]
    BY <1>4 DEF Complete, Fail, Retry
  <2>3. /\ DOMAIN rows' = DOMAIN rows
        /\ rows'[j].attempts = rows[j].attempts
        /\ \A k \in DOMAIN rows : k # j => rows'[k] = rows[k]
    BY <2>1, <2>2 DEF Entry
  <2>4. /\ Busy(w) /\ ~Busy(w)'
        /\ \A v \in Workers \ {w} : worker'[v] = worker[v]
    BY <1>4 DEF Complete, Fail, Retry, Busy, Parked, TypeOK
  <2> QED
    BY <1>3, <2>3, <2>4, RefineRelease
<1>5. ASSUME NEW w \in Workers, NEW m \in Modes \ {"busy"}, Lose(w, m) PROVE Goal
  <2>1. /\ rows' = rows /\ ~Busy(w)'
        /\ \A v \in Workers \ {w} : worker'[v] = worker[v]
    BY <1>5 DEF Lose, Busy, Parked, TypeOK
  <2>2. CASE Busy(w)
    <3>1. DOMAIN rows' = DOMAIN rows
      BY <2>1
    <3> QED
      BY <1>3, <2>1, <2>2, <3>1, RefineRelease
  <2>3. CASE ~Busy(w)
    BY <2>1, <2>3, RefineStutter DEF Busy
  <2> QED
    BY <2>2, <2>3
<1>6. ASSUME NEW w \in Workers, PollInVain(w) PROVE Goal
  BY <1>6, RefineStutter DEF PollInVain, Busy, Parked, TypeOK
<1>7. ASSUME NEW w \in Workers, Restart(w) PROVE Goal
  BY <1>7, RefineStutter DEF Restart, Busy, Parked, TypeOK
<1>8. ASSUME Tick PROVE Goal
  <2>1. /\ DOMAIN rows' = DOMAIN rows
        /\ \A i \in DOMAIN rows : /\ rows'[i].state = rows[i].state
                                  /\ rows'[i].attempts = rows[i].attempts
    BY <1>8 DEF Tick, RowAfterTick, Entry
  <2>2. \A w \in Workers : worker[w] \in Worker /\ worker'[w] = WorkerAfterTick(worker[w])
    BY <1>8 DEF Tick, TypeOK
  <2>3. \A w \in Workers : Busy(w)' => Busy(w) /\ worker'[w].id = worker[w].id
    BY <2>2, BusyAfterTick DEF Busy
  <2>4. \A w \in Workers : Busy(w) => Busy(w)' /\ worker'[w].id = worker[w].id
    BY <2>2 DEF Busy, WorkerAfterTick, Worker
  <2> QED
    BY <2>1, <2>3, <2>4, RefineStutter
<1>9. ASSUME UNCHANGED vars PROVE Goal
  BY <1>9, RefineStutter DEF vars, Busy
<1> QED
  BY <1>1, <1>2, <1>4, <1>5, <1>6, <1>7, <1>8, <1>9
  DEF Next, Crash, DatabaseError, Modes

(* The leased, timed queue implements the queue that delivery is written   *)
(* against, for every lease that covers a delivery and, with one worker,   *)
(* for every lease at all.                                                 *)
THEOREM LeasedQueueImplementsWorkQueue ==
  ASSUME LeaseIsEnough
  PROVE  Spec => ImplementsWorkQueue
<1>1. Init => UntriedRowIsReady
  BY DEF Init, UntriedRowIsReady
<1>2. QueueInv /\ UntriedRowIsReady /\ [Next]_vars => UntriedRowIsReady'
  BY UntriedStep
<1>3. Spec => []UntriedRowIsReady
  BY <1>1, <1>2, QueueInvariant, PTL DEF Spec
<1>4. QueueInv /\ QueueInv' /\ UntriedRowIsReady /\ [Next]_vars
        => [WQ!QueueNext]_(WQ!QueueVars)
  BY RefineStep
<1> QED
  BY <1>3, <1>4, RefineInit, QueueInvariant, PTL
  DEF Spec, ImplementsWorkQueue, WQ!QueueSpec

=============================================================================
