--------------------------- MODULE CardTextProofs ---------------------------
(***************************************************************************)
(* For any titles, dates, labels, views, buckets and selections of views,  *)
(* and any number of events and faults: what a card and the replies below  *)
(* it say, as against the task they are about.                             *)
(***************************************************************************)
EXTENDS CardText, SequenceTheorems, FiniteSetTheorems, WellFoundedInduction, TLAPS

-----------------------------------------------------------------------------
(* A task object, and what it may say: the facts it is of, and buckets     *)
(* among B.                                                                *)
TaskObject ==
  [title : Titles, identifier : Idents, bucket : {{}}, bucket_id : {NoBucket} \cup Buckets,
   view_buckets : {{}}, due_date : Dues \cup {Unset, ZeroTime}, labels : Seq(Nat),
   buckets : Seq(Buckets), of : Facts]

Says(obj, B) ==
  /\ obj \in TaskObject
  /\ obj.title = obj.of.title /\ DueDate(obj.due_date) = obj.of.due_date
  /\ ToSet(obj.labels) = obj.of.labels
  /\ obj.bucket_id \in {NoBucket} \cup B /\ ToSet(obj.buckets) \subseteq B

(* A snapshot of a task with the facts of, in memory or as it was stored.  *)
Made(snapshot, of) ==
  /\ snapshot \in Snapshots /\ of \in Facts
  /\ snapshot.title = of.title /\ snapshot.due_date = of.due_date
  /\ snapshot.labels = InOrder(of.labels)

InForm(snapshot, form) ==
  \A n \in DOMAIN snapshot.view_buckets : snapshot.view_buckets[n].form = form

AsShown(stored) == [stored EXCEPT !.view_buckets = AsTuples(@)]

(* The buckets a snapshot names are among B. *)
Within(snapshot, B) ==
  /\ snapshot.bucket \in {Untitled} \cup {Bucket[b].title : b \in B}
  /\ \A n \in DOMAIN snapshot.view_buckets : \E b \in B :
       /\ Bucket[b].view = snapshot.view_buckets[n].view
       /\ Bucket[b].title = snapshot.view_buckets[n].title

-----------------------------------------------------------------------------
(* The queue.  The events after the n-th change nothing: then that one, if *)
(* none of them was dealt with before, is of the task as Vikunja has it.   *)
QuietAfter(n) == \A m \in n + 1 .. Len(queue) : queue[m].kind = "comment"

Tasks == [title : Titles, identifier : Idents, due_date : Dues \cup {Unset}, labels : LabelSets,
          at : Positions, exists : BOOLEAN]
Events == [kind : {"created", "update", "comment", "delete"}, task : Tasks,
           since : SUBSET Buckets, wait : {"new", "backoff", "overtaken"}]

EventInv(n) ==
  /\ queue[n].task.at \subseteq queue[n].since /\ vik.at \subseteq queue[n].since
  /\ queue[n].task.exists = (queue[n].kind # "delete")
  /\ queue[n].kind = "delete" => ~vik.exists
  /\ queue[n].wait # "overtaken" /\ QuietAfter(n) => queue[n].task = vik

QueueInv ==
  /\ vik \in Tasks /\ queue \in Seq(Events)
  /\ \A n \in DOMAIN queue : EventInv(n)

(* The delivery under way. *)
Fresh(of) == Event.wait # "overtaken" /\ QuietAfter(job.at) => of = FactsOf(vik)

Heard(answer) ==
  answer.kind = "hit" =>
    \E obj \in answer.task : answer.task = {obj} /\ Says(obj, Event.since) /\ Fresh(obj.of)

JobInv ==
  /\ job.views \in Seq(Views)
  /\ DOMAIN job = {"at", "task", "views", "answers", "previous"} /\ DOMAIN job.answers = Views
  /\ pc # "idle" => job.at \in 1 .. Len(queue) /\ (pc = "deletion" <=> Event.kind = "delete")
  /\ pc = "views" => job.views # << >> /\ \A v \in Views : Heard(job.answers[v])
  /\ pc \in {"show", "save", "tell"} =>
       \E task \in job.task :
         /\ job.task = {task}
         /\ Made(task.now, task.of) /\ InForm(task.now, "tuple") /\ Fresh(task.of)
         /\ job.views = << >> => task.now.view_buckets = << >>
         /\ pc = "show" => Within(task.now, Event.since)
         /\ pc = "save" => job.previous = row
         /\ pc = "tell" => \E r \in row : /\ r.snapshot = Json(task.now) /\ r.of = task.of
                                          /\ r.overtaken <=> Event.wait = "overtaken"

(* The mapping; previous: what it was when the card was written. *)
RowInv(r) ==
  /\ r \in [snapshot : Snapshots, of : Facts, views : Seq(Views),
            shown : {Lines(AsShown(r.snapshot), r.views)},
            overtaken : BOOLEAN, filtered : BOOLEAN, deleted : BOOLEAN]
  /\ Made(r.snapshot, r.of) /\ InForm(r.snapshot, "list")
  /\ r.views = << >> => r.snapshot.view_buckets = << >>

RowsInv ==
  /\ row = {} \/ \E r \in row : row = {r} /\ RowInv(r)
  /\ pc = "tell" => \E r \in job.previous : job.previous = {r} /\ RowInv(r)
  /\ pc \in {"save", "tell"} => \A r \in row : ~r.deleted

(* The card, and what was said below it. *)
CardInv ==
  /\ card.face \in {"none", "live", "filtered", "deleted"} /\ card.since \subseteq Buckets
  /\ DOMAIN card = {"face", "lines", "since"}
  /\ pc \in {"save", "tell"} => card.face = "live"
  /\ BucketsAreReal /\ NoticeRepeatsCard

Unknown(known, r) == {f \in Fields : known[f] # Knowledge(r.of, r.snapshot)[f]}

ToldInv ==
  /\ missed \subseteq Fields
  /\ \A known \in told : \A r \in IF pc = "tell" THEN job.previous ELSE row :
       Unknown(known, r) \subseteq missed

(* Once nothing but comments is to come, the mapping is right. *)
SettledInv ==
  QuietAfter(0) => \A r \in row : ~r.deleted /\ ~r.filtered /\ ~r.overtaken =>
    vik.exists /\ r.of = FactsOf(vik)

BudgetInv ==
  /\ hook \in HookModes
  /\ pc \in {"idle", "task", "views", "show", "save", "tell", "deletion"}
  /\ faults \in 0 .. MaxFaults /\ changes \in 0 .. MaxChanges /\ edits \in 0 .. MaxEdits

TextInv == QueueInv /\ JobInv /\ RowsInv /\ CardInv /\ ToldInv /\ SettledInv /\ BudgetInv

-----------------------------------------------------------------------------
(* Sequences: sets in order, parts of a sequence, concatenations.          *)
LEMMA LeastOf ==
  ASSUME NEW S \in SUBSET Nat, S # {}
  PROVE  \E x \in S : \A y \in S : x <= y
<1>1. PICK x \in S : \A y \in S : ~(<<y, x>> \in OpToRel(<, Nat))
  BY WFMin, NatLessThanWellFounded
<1>2. \A y \in S : x <= y
  <2> SUFFICES ASSUME NEW y \in S PROVE x <= y
    OBVIOUS
  <2>1. ~(y < x)
    BY <1>1 DEF OpToRel
  <2> QED
    BY <2>1
<1> QED
  BY <1>2

LEMMA GreatestOf ==
  ASSUME NEW n \in Nat, NEW S \in SUBSET (1 .. n), S # {}
  PROVE  Max(S) \in S
<1> DEFINE B == {m \in Nat : \A y \in S : y <= m}
<1>1. B \in SUBSET Nat /\ n \in B
  OBVIOUS
<1>2. PICK x \in B : \A y \in B : x <= y
  BY <1>1, LeastOf
<1>3. x \in S
  <2> HIDE DEF B
  <2>0. x \in Nat /\ (\A y \in S : y <= x) /\ \A m \in Nat : (\A y \in S : y <= m) => x <= m
    BY <1>2 DEF B
  <2> SUFFICES ASSUME x \notin S PROVE FALSE
    OBVIOUS
  <2>1. \A y \in S : y \in Nat /\ y >= 1 /\ y <= x /\ y # x
    <3>1. \A y \in S : y \in 1 .. n
      OBVIOUS
    <3> QED
      BY <2>0, <3>1
  <2>2. x >= 1
    <3>1. PICK y \in S : TRUE
      OBVIOUS
    <3> QED
      BY <2>0, <2>1, <3>1
  <2>3. x - 1 \in Nat /\ \A y \in S : y <= x - 1
    BY <2>0, <2>1, <2>2
  <2> QED
    BY <2>0, <2>3
<1>4. \A y \in S : x >= y
  BY <1>2
<1>5. \E z \in S : \A y \in S : z >= y
  BY <1>3, <1>4
<1> QED
  BY <1>5 DEF Max

Rising(s) == \A m, n \in DOMAIN s : m < n => s[m] < s[n]

LEMMA OrderExists ==
  ASSUME NEW S \in SUBSET Nat, IsFiniteSet(S)
  PROVE  \E s \in [1 .. Cardinality(S) -> S] : Rising(s)
<1> DEFINE Fails(T) == IsFiniteSet(T) /\ ~\E s \in [1 .. Cardinality(T) -> T] : Rising(s)
           Sizes == {Cardinality(T) : T \in {T \in SUBSET Nat : Fails(T)}}
<1> SUFFICES ASSUME Fails(S) PROVE FALSE
  OBVIOUS
<1>1. Sizes \in SUBSET Nat /\ Sizes # {}
  BY FS_CardinalityType
<1>2. PICK T \in SUBSET Nat : Fails(T) /\ \A n \in Sizes : Cardinality(T) <= n
  BY <1>1, LeastOf
<1>3. IsFiniteSet(T) /\ Cardinality(T) \in Nat
  BY <1>2, FS_CardinalityType
<1>4. CASE T = {}
  <2>1. Cardinality(T) = 0
    BY <1>4, FS_EmptySet
  <2>2. [n \in 1 .. 0 |-> 0] \in [1 .. 0 -> T] /\ Rising([n \in 1 .. 0 |-> 0])
    BY DEF Rising
  <2> QED
    BY <1>2, <2>1, <2>2
<1>5. CASE T # {}
  <2>1. PICK x \in T : \A y \in T : x <= y
    BY <1>5, LeastOf
  <2>2. PICK R : R = T \ {x}
    OBVIOUS
  <2>3. IsFiniteSet(R) /\ Cardinality(R) = Cardinality(T) - 1 /\ Cardinality(R) \in Nat
    BY <1>3, <2>1, <2>2, FS_RemoveElement, FS_CardinalityType
  <2>4. ~Fails(R)
    <3>1. Fails(R) => Cardinality(R) \in Sizes
      BY <2>2
    <3> QED
      BY <1>2, <1>3, <2>3, <3>1
  <2>5. PICK s \in [1 .. Cardinality(R) -> R] : Rising(s)
    BY <2>3, <2>4
  <2>6. PICK k \in Nat : k = Cardinality(R) /\ Cardinality(T) = k + 1
    BY <1>3, <2>3
  <2> DEFINE t == [n \in 1 .. k + 1 |-> IF n = 1 THEN x ELSE s[n - 1]]
  <2>7. \A n \in 1 .. k + 1 : n # 1 => n - 1 \in 1 .. k /\ s[n - 1] \in R
    BY <2>5, <2>6
  <2>8. t \in [1 .. k + 1 -> T]
    BY <2>1, <2>2, <2>7
  <2>9. Rising(t)
    <3> SUFFICES ASSUME NEW m \in 1 .. k + 1, NEW n \in 1 .. k + 1, m < n
                 PROVE  t[m] < t[n]
      BY DEF Rising
    <3>1. n # 1 /\ t[n] = s[n - 1] /\ s[n - 1] \in R
      BY <2>7
    <3>2. CASE m = 1
      <4>1. t[m] = x /\ x \in Nat /\ s[n - 1] \in Nat /\ x <= s[n - 1] /\ x # s[n - 1]
        BY <2>1, <2>2, <3>1, <3>2
      <4> QED
        BY <3>1, <4>1
    <3>3. CASE m # 1
      <4>1. m - 1 \in DOMAIN s /\ n - 1 \in DOMAIN s /\ m - 1 < n - 1 /\ t[m] = s[m - 1]
        BY <2>5, <2>6, <3>3
      <4>2. s[m - 1] < s[n - 1]
        BY <2>5, <4>1 DEF Rising
      <4> QED
        BY <3>1, <4>1, <4>2
    <3> QED
      BY <3>2, <3>3
  <2> HIDE DEF t
  <2> QED
    BY <1>2, <2>6, <2>8, <2>9
<1> QED
  BY <1>4, <1>5

LEMMA InOrderIs ==
  ASSUME NEW S \in SUBSET Nat, IsFiniteSet(S)
  PROVE  /\ InOrder(S) \in Seq(S) /\ ToSet(InOrder(S)) = S
         /\ DOMAIN InOrder(S) = 1 .. Len(InOrder(S)) /\ Len(InOrder(S)) \in Nat
<1>1. PICK s : /\ s = InOrder(S) /\ s \in [1 .. Cardinality(S) -> S] /\ Rising(s)
  BY OrderExists DEF InOrder, Rising
<1>2. PICK k \in Nat : k = Cardinality(S)
  BY FS_CardinalityType
<1>3. s \in Seq(S) /\ DOMAIN s = 1 .. k /\ Len(s) = k /\ \A n \in 1 .. k : s[n] \in S
  BY <1>1, <1>2
<1>4. s \in Injection(1 .. k, S)
  <2>1. ASSUME NEW m \in 1 .. k, NEW n \in 1 .. k, s[m] = s[n], m # n PROVE FALSE
    <3>1. s[m] \in Nat /\ s[n] \in Nat
      BY <1>3
    <3>2. m < n \/ n < m
      BY <2>1
    <3> QED
      BY <1>1, <1>3, <2>1, <3>1, <3>2 DEF Rising
  <2>2. IsInjective(s)
    BY <1>3, <2>1 DEF IsInjective
  <2> QED
    BY <1>1, <1>2, <2>2 DEF Injection
<1>5. IsFiniteSet(1 .. k) /\ Cardinality(1 .. k) = k
  BY FS_Interval
<1>6. s \in Surjection(1 .. k, S)
  BY <1>2, <1>4, <1>5, FS_Injection
<1>7. ToSet(s) = S
  BY <1>3, <1>6 DEF Surjection, ToSet
<1> QED
  BY <1>1, <1>3, <1>7

LEMMA PickedIs ==
  ASSUME NEW T, NEW seq \in Seq(T), NEW S \in SUBSET DOMAIN seq
  PROVE  /\ Picked(seq, S) \in Seq(T)
         /\ DOMAIN Picked(seq, S) = 1 .. Len(Picked(seq, S)) /\ Len(Picked(seq, S)) \in Nat
         /\ \A n \in DOMAIN Picked(seq, S) : \E k \in S : Picked(seq, S)[n] = seq[k]
         /\ S # {} => Len(Picked(seq, S)) # 0
<1>1. DOMAIN seq = 1 .. Len(seq) /\ Len(seq) \in Nat
  OBVIOUS
<1>2. S \in SUBSET Nat /\ IsFiniteSet(S)
  <2>1. IsFiniteSet(DOMAIN seq)
    BY <1>1, FS_Interval
  <2>2. IsFiniteSet(S)
    BY <2>1, FS_Subset
  <2> QED
    BY <1>1, <2>2
<1>3. PICK order : order = InOrder(S) /\ order \in Seq(S) /\ ToSet(order) = S
  BY <1>2, InOrderIs
<1>4. DOMAIN order = 1 .. Len(order) /\ Len(order) \in Nat
  BY <1>3
<1>5. PICK p : p = Picked(seq, S) /\ p = [n \in 1 .. Len(order) |-> seq[order[n]]]
  BY <1>3, <1>4 DEF Picked
<1>6. \A n \in 1 .. Len(order) : order[n] \in S /\ order[n] \in DOMAIN seq /\ seq[order[n]] \in T
  BY <1>3, <1>4
<1>7. p \in Seq(T) /\ DOMAIN p = 1 .. Len(p) /\ Len(p) = Len(order)
  BY <1>4, <1>5, <1>6
<1>8. S # {} => Len(order) # 0
  BY <1>3, <1>4 DEF ToSet
<1> QED
  BY <1>4, <1>5, <1>6, <1>7, <1>8

LEMMA PickedFrom ==
  ASSUME NEW T, NEW seq \in Seq(T), NEW S \in SUBSET DOMAIN seq, NEW n \in DOMAIN Picked(seq, S)
  PROVE  \E k \in S : Picked(seq, S)[n] = seq[k]
BY PickedIs

LEMMA ListedIs ==
  ASSUME NEW S, IsFiniteSet(S)
  PROVE  SetToSeq(S) \in Seq(S) /\ ToSet(SetToSeq(S)) = S
<1>1. PICK k \in Nat : k = Cardinality(S)
  BY FS_CardinalityType
<1>2. PICK b \in Bijection(1 .. k, S) : TRUE
  BY <1>1, FS_CardinalityType DEF ExistsBijection
<1>3. b \in [1 .. k -> S] /\ IsInjective(b)
  BY <1>2 DEF Bijection, Injection
<1>4. PICK up : up = SetToSeq(S)
  OBVIOUS
<1>5. up \in [1 .. k -> S] /\ IsInjective(up)
  BY <1>1, <1>3, <1>4 DEF SetToSeq
<1>6. up \in Injection(1 .. k, S)
  BY <1>5 DEF Injection
<1>7. IsFiniteSet(1 .. k) /\ Cardinality(1 .. k) = k
  BY FS_Interval
<1>8. up \in Surjection(1 .. k, S)
  BY <1>1, <1>6, <1>7, FS_Injection
<1>9. up \in Seq(S) /\ DOMAIN up = 1 .. k /\ \A n \in 1 .. k : up[n] \in S
  BY <1>5
<1>10. \A x \in S : \E n \in 1 .. k : up[n] = x
  BY <1>8 DEF Surjection
<1>11. ToSet(up) = S
  BY <1>9, <1>10 DEF ToSet
<1> QED
  BY <1>4, <1>9, <1>11

LEMMA ReverseIs ==
  ASSUME NEW T, NEW seq \in Seq(T)
  PROVE  Reverse(seq) \in Seq(T) /\ ToSet(Reverse(seq)) = ToSet(seq)
<1>1. PICK k \in Nat : k = Len(seq) /\ DOMAIN seq = 1 .. k /\ \A n \in 1 .. k : seq[n] \in T
  OBVIOUS
<1>2. PICK down : down = Reverse(seq) /\ down = [n \in 1 .. k |-> seq[(k - n) + 1]]
  BY <1>1 DEF Reverse
<1>3. \A n \in 1 .. k : (k - n) + 1 \in 1 .. k /\ (k - ((k - n) + 1)) + 1 = n
  OBVIOUS
<1>4. down \in Seq(T) /\ DOMAIN down = 1 .. k
  BY <1>1, <1>2, <1>3
<1>5. \A x \in ToSet(seq) : x \in ToSet(down)
  <2> TAKE x \in ToSet(seq)
  <2>1. PICK n \in 1 .. k : x = seq[n]
    BY <1>1 DEF ToSet
  <2>2. down[(k - n) + 1] = x
    BY <1>2, <1>3, <2>1
  <2> QED
    BY <1>3, <1>4, <2>2 DEF ToSet
<1>6. \A x \in ToSet(down) : x \in ToSet(seq)
  BY <1>1, <1>2, <1>3, <1>4 DEF ToSet
<1> QED
  BY <1>2, <1>4, <1>5, <1>6

LEMMA FlattenExists ==
  ASSUME NEW seqs, NEW k \in Nat
  PROVE  \E f : f = [i \in 1 .. k |-> IF i = 1 THEN seqs[i] ELSE f[i - 1] \o seqs[i]]
<1> DEFINE Step(f, i) == IF i = 1 THEN seqs[i] ELSE f[i - 1] \o seqs[i]
           None == {n \in Nat : ~\E f : f = [i \in 1 .. n |-> Step(f, i)]}
<1> SUFFICES ASSUME k \in None PROVE FALSE
  OBVIOUS
<1>1. PICK n \in None : \A m \in None : n <= m
  BY LeastOf
<1>2. \A m \in Nat : m \notin None <=> \E f : f = [i \in 1 .. m |-> Step(f, i)]
  OBVIOUS
<1>3. n \in Nat /\ n # 0
  <2>1. PICK f : f = [i \in 1 .. 0 |-> << >>]
    OBVIOUS
  <2>2. f = [i \in 1 .. 0 |-> Step(f, i)]
    BY <2>1
  <2> QED
    BY <1>1, <1>2, <2>2
<1>4. n - 1 \in Nat /\ n - 1 \notin None
  <2> HIDE DEF None
  <2>1. n - 1 \in Nat /\ ~(n <= n - 1)
    BY <1>3
  <2> QED
    BY <1>1, <2>1
<1>5. PICK f : f = [i \in 1 .. n - 1 |-> Step(f, i)]
  BY <1>2, <1>4
<1> HIDE DEF None
<1> DEFINE h(i) == Step(f, i)
<1>6. f = [i \in 1 .. n - 1 |-> h(i)]
  BY <1>5
<1> HIDE DEF h
<1>7. \A i \in 1 .. n - 1 : f[i] = h(i)
  BY <1>6
<1>8. PICK g : g = [i \in 1 .. n |-> h(i)]
  OBVIOUS
<1>9. ASSUME NEW i \in 1 .. n
      PROVE  h(i) = Step(g, i)
  <2>1. i # 1 => i - 1 \in 1 .. n - 1 /\ i - 1 \in 1 .. n
    BY <1>3
  <2>2. i # 1 => g[i - 1] = f[i - 1]
    BY <1>7, <1>8, <2>1
  <2> QED
    BY <2>2 DEF h
<1>10. g = [i \in 1 .. n |-> Step(g, i)]
  BY <1>8, <1>9
<1> QED
  BY <1>1, <1>2, <1>3, <1>10

LEMMA FlattenIs ==
  ASSUME NEW T, NEW seqs \in Seq(Seq(T))
  PROVE  FlattenSeq(seqs) \in Seq(T)
<1>1. PICK k \in Nat : k = Len(seqs) /\ DOMAIN seqs = 1 .. k /\ \A i \in 1 .. k : seqs[i] \in Seq(T)
  OBVIOUS
<1>2. CASE k = 0
  BY <1>1, <1>2 DEF FlattenSeq
<1>3. CASE k # 0
  <2>1. PICK f : /\ f = [i \in 1 .. k |-> IF i = 1 THEN seqs[i] ELSE f[i - 1] \o seqs[i]]
                 /\ FlattenSeq(seqs) = f[k]
    BY <1>1, <1>3, FlattenExists DEF FlattenSeq
  <2> DEFINE h(i) == IF i = 1 THEN seqs[i] ELSE f[i - 1] \o seqs[i]
  <2>2. f = [i \in 1 .. k |-> h(i)]
    BY <2>1
  <2> HIDE DEF h
  <2>3. \A i \in 1 .. k : f[i] = h(i)
    BY <2>2
  <2>4. \A i \in 1 .. k : f[i] = IF i = 1 THEN seqs[i] ELSE f[i - 1] \o seqs[i]
    BY <2>3 DEF h
  <2> DEFINE Bad == {i \in 1 .. k : f[i] \notin Seq(T)}
  <2>5. Bad \in SUBSET Nat /\ Bad \subseteq 1 .. k
    OBVIOUS
  <2>6. \A i \in 1 .. k : i \notin Bad <=> f[i] \in Seq(T)
    OBVIOUS
  <2> HIDE DEF Bad
  <2>7. ASSUME Bad # {} PROVE FALSE
    <3>1. PICK i \in Bad : \A m \in Bad : i <= m
      BY <2>5, <2>7, LeastOf
    <3>2. i \in 1 .. k /\ f[i] \notin Seq(T) /\ seqs[i] \in Seq(T)
      BY <1>1, <2>5, <2>6, <3>1
    <3>3. i # 1 /\ f[i] = f[i - 1] \o seqs[i]
      BY <2>4, <3>2
    <3>4. i - 1 \in 1 .. k /\ ~(i <= i - 1)
      BY <3>2, <3>3
    <3>5. f[i - 1] \in Seq(T)
      BY <2>6, <3>1, <3>4
    <3>6. f[i - 1] \o seqs[i] \in Seq(T)
      BY <3>2, <3>5, ConcatProperties
    <3> QED
      BY <3>2, <3>3, <3>6
  <2>8. k \in 1 .. k
    BY <1>3
  <2> QED
    BY <2>1, <2>6, <2>7, <2>8
<1> QED
  BY <1>2, <1>3

-----------------------------------------------------------------------------
(* Task objects, and the snapshots made of them.                           *)
LEMMA SomeBuckets ==
  ASSUME NEW S \in SUBSET Buckets
  PROVE  IsFiniteSet(S)
BY TextConstants, FS_Subset

LEMMA LabelsAre ==
  ASSUME NEW S \in LabelSets
  PROVE  S \in SUBSET Nat /\ IsFiniteSet(S)
BY TextConstants

LEMMA SaysBuckets ==
  ASSUME NEW B, NEW obj, Says(obj, B)
  PROVE  /\ obj.buckets \in Seq(B) /\ Len(obj.buckets) \in Nat
         /\ DOMAIN obj.buckets = 1 .. Len(obj.buckets)
         /\ \A n \in DOMAIN obj.buckets : obj.buckets[n] \in B
<1>1. PICK s : s = obj.buckets /\ s \in Seq(Buckets) /\ ToSet(s) \subseteq B
  BY DEF Says, TaskObject
<1>2. DOMAIN s = 1 .. Len(s) /\ Len(s) \in Nat
  BY <1>1
<1>3. \A n \in 1 .. Len(s) : s[n] \in B
  BY <1>1, <1>2 DEF ToSet
<1>4. s \in Seq(B)
  BY <1>1, <1>2, <1>3
<1> QED
  BY <1>1, <1>2, <1>3, <1>4

LEMMA ObjectsSay ==
  ASSUME NEW t \in Tasks, NEW ids \in SUBSET t.at, NEW parts \in SUBSET SUBSET t.at,
         NEW obj \in Objects(t, ids, parts), NEW B, t.at \subseteq B
  PROVE  Says(obj, B) /\ obj.of = FactsOf(t)
<1>1. t.at \subseteq Buckets
  BY DEF Tasks, Positions
<1>2. PICK id \in {NoBucket} \cup ids, part \in parts :
        obj = [title |-> t.title, identifier |-> t.identifier, due_date |-> t.due_date,
               bucket |-> {}, bucket_id |-> id, view_buckets |-> {},
               labels |-> SetToSeq(t.labels), buckets |-> SetToSeq(part), of |-> FactsOf(t)]
  BY DEF Objects
<1>3. SetToSeq(t.labels) \in Seq(t.labels) /\ ToSet(SetToSeq(t.labels)) = t.labels
  BY LabelsAre, ListedIs DEF Tasks
<1>4. SetToSeq(part) \in Seq(part) /\ ToSet(SetToSeq(part)) = part
  BY <1>1, SomeBuckets, ListedIs
<1>5. part \subseteq Buckets /\ part \subseteq B /\ t.labels \subseteq Nat
  BY <1>1, LabelsAre DEF Tasks
<1>6. SetToSeq(t.labels) \in Seq(Nat) /\ SetToSeq(part) \in Seq(Buckets)
  BY <1>3, <1>4, <1>5, SeqMonotonic
<1>7. FactsOf(t) \in Facts
  BY DEF Tasks, Facts, FactsOf
<1>8. obj \in TaskObject
  BY <1>1, <1>2, <1>6, <1>7 DEF TaskObject, Tasks
<1>9. DueDate(obj.due_date) = t.due_date
  BY <1>2, TextConstants DEF DueDate, Tasks
<1> QED
  BY <1>2, <1>3, <1>4, <1>5, <1>8, <1>9 DEF Says, FactsOf

LEMMA FormsSay ==
  ASSUME NEW B, NEW obj, Says(obj, B), NEW form \in Forms(obj)
  PROVE  Says(form, B) /\ form.of = obj.of
<1>1. CASE form = obj
  BY <1>1
<1>2. CASE form # obj
  <2>1. form = [obj EXCEPT !.due_date = IF obj.due_date = Unset THEN ZeroTime ELSE obj.due_date,
                           !.labels = Reverse(obj.labels)]
    BY <1>2 DEF Forms
  <2>2. obj \in TaskObject /\ DueDate(obj.due_date) = obj.of.due_date
    BY DEF Says
  <2>3. PICK turned : turned = Reverse(obj.labels) /\ turned \in Seq(Nat)
                      /\ ToSet(turned) = ToSet(obj.labels)
    BY <2>2, ReverseIs DEF TaskObject
  <2>4. PICK due : due = IF obj.due_date = Unset THEN ZeroTime ELSE obj.due_date
    OBVIOUS
  <2>5. due \in Dues \cup {Unset, ZeroTime} /\ DueDate(due) = obj.of.due_date
    BY <2>2, <2>4, TextConstants DEF DueDate, TaskObject
  <2>6. form = [obj EXCEPT !.due_date = due, !.labels = turned]
    BY <2>1, <2>3, <2>4
  <2>7. /\ form \in TaskObject /\ form.due_date = due /\ form.labels = turned
        /\ form.title = obj.title /\ form.bucket_id = obj.bucket_id
        /\ form.buckets = obj.buckets /\ form.of = obj.of
    BY <2>2, <2>3, <2>5, <2>6 DEF TaskObject
  <2> QED
    BY <2>3, <2>5, <2>7 DEF Says
<1> QED
  BY <1>1, <1>2

LEMMA EventBucketSays ==
  ASSUME NEW B, NEW embedded, NEW enriched, Says(embedded, B), Says(enriched, B)
  PROVE  /\ Says(MergeEventBucket(embedded, enriched), B)
         /\ MergeEventBucket(embedded, enriched).of = enriched.of
BY DEF MergeEventBucket, Says, TaskObject

LEMMA ViewTasksSay ==
  ASSUME NEW B \in SUBSET Buckets, NEW matching \in Seq(TaskObject), Len(matching) # 0,
         \A n \in DOMAIN matching : Says(matching[n], B), NEW views
  PROVE  /\ Says(MergeViewTasks(matching, views), B)
         /\ MergeViewTasks(matching, views).of = matching[1].of
<1>1. 1 \in DOMAIN matching /\ DOMAIN matching = 1 .. Len(matching) /\ Len(matching) \in Nat
  OBVIOUS
<1>2. PICK each : each = [n \in DOMAIN matching |-> matching[n].buckets]
  OBVIOUS
<1>3. each \in Seq(Seq(B))
  <2>1. \A n \in 1 .. Len(matching) : each[n] \in Seq(B)
    BY <1>1, <1>2, SaysBuckets
  <2> QED
    BY <1>1, <1>2, <2>1
<1>4. PICK all : all = FlattenSeq(each) /\ all \in Seq(B)
  BY <1>3, FlattenIs
<1>5. PICK first : /\ first = {n \in DOMAIN all : /\ Selected(views, all[n])
                                                 /\ \A m \in 1 .. n - 1 : all[m] # all[n]}
                   /\ first \in SUBSET DOMAIN all
  OBVIOUS
<1>6. PICK some : some = Picked(all, first) /\ some \in Seq(B)
  BY <1>4, <1>5, PickedIs
<1>7. PICK merged : /\ merged = MergeViewTasks(matching, views)
                    /\ merged = [matching[1] EXCEPT !.buckets = some]
  BY <1>2, <1>4, <1>5, <1>6 DEF MergeViewTasks
<1>8. Says(matching[1], B) /\ matching[1] \in TaskObject
  BY <1>1 DEF Says
<1>9. some \in Seq(Buckets) /\ ToSet(some) \subseteq B
  <2>1. DOMAIN some = 1 .. Len(some) /\ \A n \in DOMAIN some : some[n] \in B
    BY <1>6
  <2> QED
    BY <1>6, <2>1, SeqMonotonic DEF ToSet
<1>10. /\ merged \in TaskObject /\ merged.buckets = some /\ merged.title = matching[1].title
       /\ merged.due_date = matching[1].due_date /\ merged.labels = matching[1].labels
       /\ merged.bucket_id = matching[1].bucket_id /\ merged.of = matching[1].of
  BY <1>7, <1>8, <1>9 DEF TaskObject
<1> QED
  BY <1>7, <1>8, <1>9, <1>10 DEF Says

LEMMA BucketNameIs ==
  ASSUME NEW B, NEW obj, Says(obj, B)
  PROVE  BucketName(obj) \in {Untitled} \cup {Bucket[b].title : b \in B}
<1>1. obj.bucket = {}
  BY DEF Says, TaskObject
<1>2. obj.bucket_id \in ToSet(obj.buckets) => obj.bucket_id \in B
  BY DEF Says
<1>3. Len(obj.buckets) = 1 => obj.buckets[1] \in B
  BY SaysBuckets
<1> QED
  BY <1>1, <1>2, <1>3 DEF BucketName

LEMMA TitleInIs ==
  ASSUME NEW B, NEW buckets \in Seq(B), NEW v, TitleIn(v, buckets) # Untitled
  PROVE  \E b \in B : Bucket[b].view = v /\ Bucket[b].title = TitleIn(v, buckets)
<1>1. PICK own : own = {n \in DOMAIN buckets : Bucket[buckets[n]].view = v}
  OBVIOUS
<1>2. DOMAIN buckets = 1 .. Len(buckets) /\ Len(buckets) \in Nat
  OBVIOUS
<1>3. own # {} /\ TitleIn(v, buckets) = Bucket[buckets[Max(own)]].title
  BY <1>1 DEF TitleIn
<1>4. Max(own) \in own
  BY <1>1, <1>2, <1>3, GreatestOf
<1>5. buckets[Max(own)] \in B /\ Bucket[buckets[Max(own)]].view = v
  BY <1>1, <1>2, <1>4
<1> QED
  BY <1>3, <1>5

LEMMA FromBucketsIs ==
  ASSUME NEW B \in SUBSET Buckets, NEW obj, Says(obj, B), NEW views \in Seq(Views)
  PROVE  /\ FromBuckets(obj, views) \in Seq(Pairs)
         /\ views = << >> => FromBuckets(obj, views) = << >>
         /\ \A n \in DOMAIN FromBuckets(obj, views) :
              /\ FromBuckets(obj, views)[n].form = "tuple"
              /\ \E b \in B : /\ Bucket[b].view = FromBuckets(obj, views)[n].view
                              /\ Bucket[b].title = FromBuckets(obj, views)[n].title
<1>1. PICK places : /\ places = {n \in DOMAIN views : TitleIn(views[n], obj.buckets) # Untitled}
                    /\ places \in SUBSET DOMAIN views
  OBVIOUS
<1>2. PICK titled : titled = Picked(views, places)
  OBVIOUS
<1>3. /\ titled \in Seq(Views) /\ DOMAIN titled = 1 .. Len(titled) /\ Len(titled) \in Nat
      /\ \A n \in DOMAIN titled : \E k \in places : titled[n] = views[k]
  <2>1. /\ Picked(views, places) \in Seq(Views)
        /\ DOMAIN Picked(views, places) = 1 .. Len(Picked(views, places))
        /\ Len(Picked(views, places)) \in Nat
    BY <1>1, PickedIs
  <2>2. ASSUME NEW n \in DOMAIN Picked(views, places)
        PROVE  \E k \in places : Picked(views, places)[n] = views[k]
    <3>1. places \in SUBSET DOMAIN views
      BY <1>1
    <3> QED
      BY <2>2, <3>1, PickedFrom
  <2> QED
    BY <1>2, <2>1, <2>2
<1>4. PICK pairs : /\ pairs = FromBuckets(obj, views)
                   /\ pairs = [n \in DOMAIN titled |->
                                [view |-> titled[n], form |-> "tuple",
                                 title |-> TitleIn(titled[n], obj.buckets)]]
  BY <1>1, <1>2 DEF FromBuckets
<1>5. ASSUME NEW n \in DOMAIN titled
      PROVE  /\ titled[n] \in Views
             /\ \E b \in B : /\ Bucket[b].view = titled[n]
                             /\ Bucket[b].title = TitleIn(titled[n], obj.buckets)
  <2>1. TitleIn(titled[n], obj.buckets) # Untitled
    BY <1>1, <1>3
  <2> QED
    <3>1. obj.buckets \in Seq(B) /\ titled[n] \in Views
      BY <1>3, SaysBuckets
    <3>2. \E b \in B : /\ Bucket[b].view = titled[n]
                       /\ Bucket[b].title = TitleIn(titled[n], obj.buckets)
      BY <2>1, <3>1, TitleInIs
    <3> QED
      BY <3>1, <3>2
<1>6. \A n \in DOMAIN titled : pairs[n] \in Pairs
  <2> TAKE n \in DOMAIN titled
  <2>1. PICK b \in Buckets : /\ Bucket[b].view = titled[n]
                             /\ Bucket[b].title = TitleIn(titled[n], obj.buckets)
    BY <1>5
  <2> QED
    BY <1>4, <1>5, <2>1 DEF Pairs
<1>7. pairs \in Seq(Pairs)
  BY <1>3, <1>4, <1>6
<1>8. \A n \in DOMAIN pairs : /\ pairs[n].form = "tuple"
                              /\ \E b \in B : /\ Bucket[b].view = pairs[n].view
                                              /\ Bucket[b].title = pairs[n].title
  BY <1>4, <1>5
<1>9. views = << >> => pairs = << >>
  <2> SUFFICES ASSUME views = << >> PROVE pairs = << >>
    OBVIOUS
  <2>1. places = {}
    BY <1>1
  <2>2. Len(titled) = 0
    <3>1. 1 \notin 1 .. Len(titled)
      BY <1>3, <2>1
    <3> QED
      BY <1>3, <3>1
  <2>3. DOMAIN pairs = 1 .. 0
    BY <1>3, <1>4, <2>2
  <2> QED
    BY <1>7, <2>3
<1> QED
  BY <1>4, <1>7, <1>8, <1>9

LEMMA SnapshotIs ==
  ASSUME NEW B \in SUBSET Buckets, NEW obj, Says(obj, B), NEW views \in Seq(Views)
  PROVE  /\ Made(TaskSnapshot(obj, views), obj.of)
         /\ InForm(TaskSnapshot(obj, views), "tuple")
         /\ Within(TaskSnapshot(obj, views), B)
         /\ views = << >> => TaskSnapshot(obj, views).view_buckets = << >>
<1>1. PICK now : /\ now = TaskSnapshot(obj, views)
                 /\ now = [title |-> obj.title, identifier |-> obj.identifier,
                           due_date |-> DueDate(obj.due_date), bucket |-> BucketName(obj),
                           view_buckets |-> ViewBuckets(obj, views),
                           labels |-> Sorted(obj.labels)]
  BY DEF TaskSnapshot
<1>2. obj \in TaskObject /\ obj.of \in Facts /\ obj.title = obj.of.title
      /\ DueDate(obj.due_date) = obj.of.due_date /\ ToSet(obj.labels) = obj.of.labels
  BY DEF Says, TaskObject
<1>3. Sorted(obj.labels) = InOrder(obj.of.labels)
  BY <1>2 DEF Sorted
<1>4. InOrder(obj.of.labels) \in Seq(UNION LabelSets)
  <2>1. obj.of.labels \in LabelSets
    BY <1>2 DEF Facts
  <2>2. InOrder(obj.of.labels) \in Seq(obj.of.labels)
    BY <2>1, LabelsAre, InOrderIs
  <2> QED
    BY <2>1, <2>2, SeqMonotonic
<1>5. ViewBuckets(obj, views) = FromBuckets(obj, views)
  <2>1. obj.view_buckets = {}
    BY <1>2 DEF TaskObject
  <2> QED
    BY <2>1 DEF ViewBuckets
<1>6. now.view_buckets \in Seq(Pairs) /\ InForm(now, "tuple")
  <2>1. /\ FromBuckets(obj, views) \in Seq(Pairs)
        /\ \A n \in DOMAIN FromBuckets(obj, views) : FromBuckets(obj, views)[n].form = "tuple"
    BY ZenonT(60), FromBucketsIs
  <2>2. now.view_buckets = FromBuckets(obj, views)
    BY <1>1, <1>5
  <2> QED
    BY <2>1, <2>2 DEF InForm
<1>7. Within(now, B)
  BY <1>1, <1>5, FromBucketsIs, BucketNameIs DEF Within
<1>8. now \in Snapshots
  <2>1. now.bucket \in {Untitled} \cup {Bucket[b].title : b \in Buckets}
    BY <1>7 DEF Within
  <2>2. now.title \in Titles /\ now.identifier \in Idents /\ now.due_date \in Dues \cup {Unset}
    BY <1>1, <1>2 DEF Facts, TaskObject
  <2> QED
    BY <1>1, <1>3, <1>4, <1>6, <2>1, <2>2 DEF Snapshots
<1>9. Made(now, obj.of)
  BY <1>1, <1>2, <1>3, <1>8 DEF Made
<1>10. views = << >> => now.view_buckets = << >>
  <2>1. views = << >> => FromBuckets(obj, views) = << >>
    BY ZenonT(60), FromBucketsIs
  <2> QED
    BY <1>1, <1>5, <2>1
<1> QED
  BY <1>1, <1>6, <1>7, <1>9, <1>10

-----------------------------------------------------------------------------
(* Stored snapshots, and what two of them have in common.                  *)
LEMMA JsonIs ==
  ASSUME NEW s, NEW of, Made(s, of), InForm(s, "tuple")
  PROVE  /\ Made(Json(s), of) /\ InForm(Json(s), "list") /\ AsShown(Json(s)) = s
         /\ AsTuples(Json(s).view_buckets) = s.view_buckets /\ AsTuples(s.view_buckets) = s.view_buckets
         /\ Json(s).bucket = s.bucket /\ Json(s) \in Snapshots
         /\ s.view_buckets = << >> => Json(s).view_buckets = << >>
<1>1. s \in Snapshots /\ s.view_buckets \in Seq(Pairs)
  BY DEF Made, Snapshots
<1>2. PICK vb : vb = s.view_buckets /\ vb \in Seq(Pairs) /\ DOMAIN vb = 1 .. Len(vb) /\ Len(vb) \in Nat
  BY <1>1
<1>3. \A n \in 1 .. Len(vb) : vb[n] \in Pairs /\ vb[n].form = "tuple"
  BY <1>2 DEF InForm
<1>4. PICK lists : lists = [n \in 1 .. Len(vb) |-> [vb[n] EXCEPT !.form = "list"]]
  OBVIOUS
<1>5. \A n \in 1 .. Len(vb) : /\ lists[n] \in Pairs /\ lists[n].form = "list"
                              /\ [lists[n] EXCEPT !.form = "tuple"] = vb[n]
                              /\ [vb[n] EXCEPT !.form = "tuple"] = vb[n]
  <2> TAKE n \in 1 .. Len(vb)
  <2>1. PICK v \in Views, title \in {Bucket[b].title : b \in Buckets} :
          vb[n] = [view |-> v, title |-> title, form |-> "tuple"]
    BY <1>3 DEF Pairs
  <2>2. [vb[n] EXCEPT !.form = "tuple"] = vb[n]
    BY <2>1
  <2>3. lists[n] = [view |-> v, title |-> title, form |-> "list"]
    BY <1>4, <2>1
  <2>4. lists[n] \in Pairs /\ lists[n].form = "list"
    BY <2>1, <2>3 DEF Pairs
  <2>5. [lists[n] EXCEPT !.form = "tuple"] = vb[n]
    BY <2>1, <2>3
  <2> QED
    BY <2>2, <2>4, <2>5
<1>6. lists \in Seq(Pairs) /\ DOMAIN lists = 1 .. Len(vb)
  <2>1. \A n \in 1 .. Len(vb) : lists[n] \in Pairs
    BY <1>5
  <2>2. lists = [n \in 1 .. Len(vb) |-> lists[n]] /\ DOMAIN lists = 1 .. Len(vb)
    BY <1>4
  <2>3. Len(vb) \in Nat
    BY <1>2
  <2> QED
    BY <2>1, <2>2, <2>3
<1>7. AsTuples(lists) = vb /\ AsTuples(vb) = vb
  <2>1. DOMAIN vb = 1 .. Len(vb) /\ vb = [n \in 1 .. Len(vb) |-> vb[n]]
    BY <1>2
  <2>2. AsTuples(lists) = [n \in 1 .. Len(vb) |-> [lists[n] EXCEPT !.form = "tuple"]]
    BY <1>6 DEF AsTuples
  <2>3. AsTuples(vb) = [n \in 1 .. Len(vb) |-> [vb[n] EXCEPT !.form = "tuple"]]
    BY <2>1 DEF AsTuples
  <2>4. [n \in 1 .. Len(vb) |-> [lists[n] EXCEPT !.form = "tuple"]] = [n \in 1 .. Len(vb) |-> vb[n]]
    BY <1>5
  <2>5. [n \in 1 .. Len(vb) |-> [vb[n] EXCEPT !.form = "tuple"]] = [n \in 1 .. Len(vb) |-> vb[n]]
    BY <1>5
  <2> QED
    BY <2>1, <2>2, <2>3, <2>4, <2>5
<1>8. PICK stored : stored = Json(s) /\ stored = [s EXCEPT !.view_buckets = lists]
  BY <1>2, <1>4 DEF Json
<1>9. /\ stored \in Snapshots /\ stored.view_buckets = lists /\ stored.title = s.title
      /\ stored.due_date = s.due_date /\ stored.labels = s.labels /\ stored.bucket = s.bucket
  BY <1>1, <1>6, <1>8 DEF Snapshots
<1>10. AsShown(stored) = s
  <2>1. AsShown(stored) = [s EXCEPT !.view_buckets = vb]
    BY <1>1, <1>7, <1>8, <1>9 DEF AsShown, Snapshots
  <2> QED
    BY <1>1, <1>2, <2>1 DEF Snapshots
<1>11. InForm(stored, "list")
  BY <1>5, <1>6, <1>9 DEF InForm
<1>12. Made(stored, of)
  BY <1>9 DEF Made
<1>13. vb = << >> => lists = << >>
  <2> SUFFICES ASSUME vb = << >> PROVE lists = << >>
    OBVIOUS
  <2>1. Len(vb) = 0
    OBVIOUS
  <2>2. lists \in Seq(Pairs) /\ DOMAIN lists = 1 .. 0
    BY <1>6, <2>1
  <2> QED
    BY <2>2
<1> QED
  BY <1>2, <1>7, <1>8, <1>9, <1>10, <1>11, <1>12, <1>13

(* A notice says what the snapshot says it is made of. *)
LEMMA NoticeIs ==
  ASSUME NEW s, NEW of, Made(s, of), NEW views
  PROVE  LET now == TaskSnapshot(AsTask(s), views)
         IN  /\ now.title = s.title /\ now.identifier = s.identifier
             /\ now.due_date = s.due_date /\ now.labels = s.labels
             /\ now.view_buckets = AsTuples(s.view_buckets)
<1>1. /\ AsTask(s).title = s.title /\ AsTask(s).identifier = s.identifier
      /\ AsTask(s).due_date = s.due_date
      /\ AsTask(s).labels = s.labels /\ AsTask(s).view_buckets = {s.view_buckets}
  BY DEF AsTask
<1>2. DueDate(s.due_date) = s.due_date
  <2>1. s.due_date \in Dues \cup {Unset}
    BY DEF Made, Snapshots
  <2> QED
    BY <2>1, TextConstants DEF DueDate
<1>3. Sorted(s.labels) = s.labels
  <2>1. of.labels \in LabelSets /\ s.labels = InOrder(of.labels)
    BY DEF Made, Facts
  <2>2. ToSet(s.labels) = of.labels
    BY <2>1, LabelsAre, InOrderIs
  <2> QED
    BY <2>1, <2>2 DEF Sorted
<1>4. ViewBuckets(AsTask(s), views) = AsTuples(s.view_buckets)
  BY <1>1 DEF ViewBuckets
<1> QED
  BY <1>1, <1>2, <1>3, <1>4 DEF TaskSnapshot

LEMMA SameLabels ==
  ASSUME NEW a \in Facts, NEW b \in Facts, InOrder(a.labels) = InOrder(b.labels)
  PROVE  a.labels = b.labels
<1>1. a.labels \in LabelSets /\ b.labels \in LabelSets
  BY DEF Facts
<1>2. ToSet(InOrder(a.labels)) = a.labels /\ ToSet(InOrder(b.labels)) = b.labels
  BY <1>1, LabelsAre, InOrderIs
<1> QED
  BY <1>2

LEMMA KnowledgeFields ==
  ASSUME NEW of, NEW s
  PROVE  LET k == Knowledge(of, s)
         IN  /\ k["title"] = of.title /\ k["due_date"] = of.due_date /\ k["labels"] = of.labels
             /\ k["bucket"] = s.bucket /\ k["view_buckets"] = AsTuples(s.view_buckets)
BY DEF Knowledge

(* What is the same in two snapshots is the same to a reader; and a date   *)
(* or labels that are not have changed in Vikunja.                         *)
LEMMA SameToReader ==
  ASSUME NEW a, NEW ofA, Made(a, ofA), NEW b, NEW ofB, Made(b, ofB), NEW f \in Fields, a[f] = b[f]
  PROVE  Knowledge(ofA, a)[f] = Knowledge(ofB, b)[f]
<1>1. ofA \in Facts /\ ofB \in Facts
  BY DEF Made
<1>2. CASE f = "labels"
  BY <1>1, <1>2, SameLabels, KnowledgeFields DEF Made
<1>3. CASE f # "labels"
  BY <1>3, KnowledgeFields DEF Made, Fields
<1> QED
  BY <1>2, <1>3

LEMMA NoAlarm ==
  ASSUME NEW a, NEW ofA, Made(a, ofA), NEW b, NEW ofB, Made(b, ofB),
         NEW f \in {"due_date", "labels"}, a[f] # b[f]
  PROVE  ofA[f] # ofB[f]
BY DEF Made

-----------------------------------------------------------------------------
(* The queue.                                                              *)
LEMMA QueueIs ==
  ASSUME QueueInv
  PROVE  /\ DOMAIN queue = 1 .. Len(queue) /\ Len(queue) \in Nat
         /\ \A n \in 1 .. Len(queue) : queue[n] \in Events /\ EventInv(n)
BY DEF QueueInv

(* An event is appended: to all before it the place of the task is noted.  *)
LEMMA QueueAfterAnnounce ==
  ASSUME QueueInv, NEW kind \in {"created", "update", "comment", "delete"}, Announce(kind),
         vik' \in Tasks, vik'.exists = (kind # "delete"), kind = "comment" => vik' = vik
  PROVE  /\ QueueInv'
         /\ Len(queue') = Len(queue) + 1
         /\ \A n \in 1 .. Len(queue) : /\ queue'[n].kind = queue[n].kind
                                       /\ queue'[n].wait = queue[n].wait
                                       /\ queue[n].since \subseteq queue'[n].since
         /\ \A k \in 0 .. Len(queue) : QuietAfter(k)' => QuietAfter(k) /\ vik' = vik
<1>1. /\ DOMAIN queue = 1 .. Len(queue) /\ Len(queue) \in Nat
      /\ \A n \in 1 .. Len(queue) : queue[n] \in Events /\ EventInv(n)
  BY QueueIs
<1>2. PICK t, q, k : t = vik' /\ q = queue /\ k = Len(queue) /\ k \in Nat
  BY <1>1
<1>3. t \in Tasks /\ t.at \subseteq Buckets
  BY <1>2 DEF Tasks, Positions
<1>4. PICK noted : noted = [n \in 1 .. k |-> [q[n] EXCEPT !.since = @ \cup t.at]]
  OBVIOUS
<1>5. \A n \in 1 .. k : /\ noted[n] \in Events /\ noted[n].kind = q[n].kind /\ noted[n].task = q[n].task
                        /\ noted[n].since = q[n].since \cup t.at /\ noted[n].wait = q[n].wait
  <2> TAKE n \in 1 .. k
  <2>1. q[n] \in Events /\ noted[n] = [q[n] EXCEPT !.since = q[n].since \cup t.at]
    BY <1>1, <1>2, <1>4
  <2> QED
    BY <1>3, <2>1 DEF Events
<1>6. noted \in Seq(Events) /\ Len(noted) = k
  <2>1. \A n \in 1 .. k : noted[n] \in Events
    BY <1>5
  <2>2. noted = [n \in 1 .. k |-> noted[n]]
    BY <1>4
  <2> QED
    BY <1>2, <2>1, <2>2
<1>7. PICK new : /\ new = [kind |-> kind, task |-> t, since |-> t.at, wait |-> "new"]
                 /\ new \in Events
  <2>1. t.at \in SUBSET Buckets /\ t \in Tasks
    BY <1>3
  <2>2. [kind |-> kind, task |-> t, since |-> t.at, wait |-> "new"] \in Events
    BY <2>1 DEF Events
  <2> QED
    BY <2>2
<1>8. PICK r : r = queue' /\ r = Append(noted, new)
  BY <1>1, <1>2, <1>4, <1>7 DEF Announce
<1>9. r \in Seq(Events) /\ Len(r) = k + 1 /\ r[k + 1] = new /\ \A n \in 1 .. k : r[n] = noted[n]
  BY <1>6, <1>7, <1>8
<1>10. \A n \in 1 .. k : /\ r[n].kind = q[n].kind /\ r[n].task = q[n].task
                         /\ r[n].since = q[n].since \cup t.at /\ r[n].wait = q[n].wait
  BY <1>5, <1>9
<1>11. ASSUME NEW n \in 0 .. k, QuietAfter(n)'
       PROVE  QuietAfter(n) /\ t = vik
  <2>1. \A m \in n + 1 .. k + 1 : r[m].kind = "comment"
    BY <1>8, <1>9, <1>11 DEF QuietAfter
  <2>2. r[k + 1].kind = "comment"
    BY <1>2, <2>1
  <2>3. \A m \in n + 1 .. k : r[m].kind = "comment" /\ m \in 1 .. k
    BY <1>2, <2>1
  <2>4. \A m \in n + 1 .. Len(queue) : queue[m].kind = "comment"
    BY <1>2, <1>10, <2>3
  <2>5. kind = "comment"
    BY <1>7, <1>9, <2>2
  <2> QED
    BY <1>2, <2>4, <2>5 DEF QuietAfter
<1>12. \A n \in 1 .. k : q[n].kind # "delete"
  BY <1>1, <1>2 DEF EventInv, Announce
<1>13. ASSUME NEW n \in 1 .. k
       PROVE  EventInv(n)'
  <2>1. EventInv(n) /\ q[n] \in Events
    BY <1>1, <1>2
  <2>2. /\ r[n].task = q[n].task /\ r[n].kind = q[n].kind /\ r[n].since = q[n].since \cup t.at
        /\ q[n].kind # "delete" /\ r[n].wait = q[n].wait
    BY <1>10, <1>12
  <2>3. r[n].task.at \subseteq r[n].since /\ t.at \subseteq r[n].since
    BY <1>2, <2>1, <2>2 DEF EventInv
  <2>4. r[n].task.exists = (r[n].kind # "delete")
    BY <1>2, <2>1, <2>2 DEF EventInv
  <2>5. r[n].wait # "overtaken" /\ QuietAfter(n)' => r[n].task = t
    BY <1>2, <1>11, <2>1, <2>2 DEF EventInv
  <2> QED
    BY <1>2, <1>8, <2>2, <2>3, <2>4, <2>5 DEF EventInv
<1>14. EventInv(k + 1)'
  <2>1. t.at \in SUBSET Buckets /\ r[k + 1].task = t /\ r[k + 1].since = t.at /\ r[k + 1].kind = kind
    BY <1>3, <1>7, <1>9
  <2> QED
    BY <1>2, <1>8, <1>9, <2>1 DEF EventInv
<1>15. QueueInv'
  <2>1. \A n \in 1 .. k + 1 : EventInv(n)'
    BY <1>2, <1>13, <1>14
  <2>2. DOMAIN r = 1 .. k + 1
    BY <1>9
  <2> QED
    BY <1>2, <1>3, <1>8, <1>9, <2>1, <2>2 DEF QueueInv
<1> QED
  BY <1>2, <1>8, <1>9, <1>10, <1>11, <1>15

(* An event is completed, and those before it have been overtaken. *)
LEMMA QueueAfterFinish ==
  ASSUME QueueInv, job.at \in 1 .. Len(queue), queue' = Done, vik' = vik
  PROVE  /\ QueueInv' /\ (QuietAfter(0)' => QuietAfter(job.at))
         /\ Event.kind = "comment" => (QuietAfter(0)' => QuietAfter(0))
<1>1. /\ DOMAIN queue = 1 .. Len(queue) /\ Len(queue) \in Nat
      /\ \A n \in 1 .. Len(queue) : queue[n] \in Events /\ EventInv(n)
  BY QueueIs
<1>2. PICK q, k, a : /\ q = queue /\ k = Len(queue) /\ a = job.at
                     /\ k \in Nat /\ a \in 1 .. k /\ q \in Seq(Events)
  BY <1>1 DEF QueueInv
<1>3. PICK r : /\ r = queue'
               /\ r = [n \in 1 .. k - 1 |->
                        IF n < a THEN [q[n] EXCEPT !.wait = "overtaken"] ELSE q[n + 1]]
  BY <1>2 DEF Done
<1>4. \A n \in 1 .. k - 1 : n < a =>
        /\ r[n] \in Events /\ r[n].wait = "overtaken" /\ r[n].kind = q[n].kind
        /\ r[n].task = q[n].task /\ r[n].since = q[n].since
  <2> SUFFICES ASSUME NEW n \in 1 .. k - 1, n < a
               PROVE  /\ r[n] \in Events /\ r[n].wait = "overtaken" /\ r[n].kind = q[n].kind
                      /\ r[n].task = q[n].task /\ r[n].since = q[n].since
    OBVIOUS
  <2>1. q[n] \in Events /\ r[n] = [q[n] EXCEPT !.wait = "overtaken"]
    BY <1>1, <1>2, <1>3
  <2> QED
    BY <2>1 DEF Events
<1>5. \A n \in 1 .. k - 1 : ~(n < a) => r[n] = q[n + 1] /\ r[n] \in Events /\ n + 1 \in 1 .. k
  BY <1>1, <1>2, <1>3
<1>6. r \in Seq(Events) /\ Len(r) = k - 1 /\ DOMAIN r = 1 .. k - 1
  <2>1. \A n \in 1 .. k - 1 : r[n] \in Events
    BY <1>4, <1>5
  <2>2. DOMAIN r = 1 .. k - 1 /\ k - 1 \in Nat /\ r = [n \in 1 .. k - 1 |-> r[n]]
    BY <1>2, <1>3
  <2> QED
    BY <2>1, <2>2
<1>7. ASSUME NEW n \in a - 1 .. k - 1, QuietAfter(n)'
      PROVE  QuietAfter(n + 1)
  <2>1. \A m \in n + 1 .. k - 1 : r[m].kind = "comment"
    BY <1>3, <1>6, <1>7 DEF QuietAfter
  <2>2. \A m \in (n + 1) + 1 .. k :
          m - 1 \in n + 1 .. k - 1 /\ m - 1 \in 1 .. k - 1 /\ ~(m - 1 < a) /\ (m - 1) + 1 = m
    BY <1>2
  <2>3. \A m \in (n + 1) + 1 .. k : q[m].kind = "comment"
    BY <1>5, <2>1, <2>2
  <2> QED
    BY <1>2, <2>3 DEF QuietAfter
<1>8. ASSUME NEW n \in 1 .. k - 1
      PROVE  EventInv(n)'
  <2>1. CASE n < a
    <3>1. n \in 1 .. k /\ EventInv(n)
      BY <1>1, <1>2
    <3>2. /\ r[n].task.at \subseteq r[n].since /\ vik.at \subseteq r[n].since
          /\ r[n].task.exists = (r[n].kind # "delete")
          /\ r[n].kind = "delete" => ~vik.exists
      BY <1>2, <1>4, <2>1, <3>1 DEF EventInv
    <3>3. r[n].wait = "overtaken"
      BY <1>4, <2>1
    <3> QED
      BY <1>3, <3>2, <3>3 DEF EventInv
  <2>2. CASE ~(n < a)
    <3>1. n + 1 \in 1 .. k /\ EventInv(n + 1) /\ r[n] = q[n + 1]
      BY <1>1, <1>2, <1>5, <2>2
    <3>2. n \in a - 1 .. k - 1
      BY <1>2, <2>2
    <3>3. QuietAfter(n)' => QuietAfter(n + 1)
      BY <1>7, <3>2
    <3>4. /\ r[n].task.at \subseteq r[n].since /\ vik.at \subseteq r[n].since
          /\ r[n].task.exists = (r[n].kind # "delete")
          /\ r[n].kind = "delete" => ~vik.exists
          /\ r[n].wait # "overtaken" /\ QuietAfter(n)' => r[n].task = vik
      BY <1>2, <3>1, <3>3 DEF EventInv
    <3> QED
      BY <1>3, <3>4 DEF EventInv
  <2> QED
    BY <2>1, <2>2
<1>9. QueueInv'
  BY <1>3, <1>6, <1>8 DEF QueueInv
<1>10. ASSUME QuietAfter(0)'
       PROVE  QuietAfter(a)
  <2>1. \A m \in 0 + 1 .. k - 1 : r[m].kind = "comment"
    BY <1>3, <1>6, <1>10 DEF QuietAfter
  <2>2. \A m \in (a - 1) + 1 .. k - 1 : r[m].kind = "comment"
    BY <1>2, <2>1
  <2>3. QuietAfter(a - 1)'
    BY <1>3, <1>6, <2>2 DEF QuietAfter
  <2>4. a - 1 \in a - 1 .. k - 1 /\ (a - 1) + 1 = a
    BY <1>2
  <2> QED
    BY <1>7, <2>3, <2>4
<1>11. ASSUME QuietAfter(0)', q[a].kind = "comment"
       PROVE  QuietAfter(0)
  <2>0. \A m \in 0 + 1 .. k - 1 : r[m].kind = "comment"
    BY <1>3, <1>6, <1>11 DEF QuietAfter
  <2>1. \A m \in 1 .. k - 1 : r[m].kind = "comment"
    BY <2>0
  <2>2. ASSUME NEW m \in 1 .. k
        PROVE  q[m].kind = "comment"
    <3>1. CASE m < a
      <4>1. m \in 1 .. k - 1
        BY <1>2, <3>1
      <4> QED
        BY <1>4, <2>1, <3>1, <4>1
    <3>2. CASE m = a
      BY <1>11, <3>2
    <3>3. CASE a < m
      <4>1. m - 1 \in 1 .. k - 1 /\ ~(m - 1 < a) /\ (m - 1) + 1 = m
        BY <1>2, <3>3
      <4> QED
        BY <1>5, <2>1, <4>1
    <3> QED
      BY <1>2, <3>1, <3>2, <3>3
  <2> QED
    BY <1>2, <2>2 DEF QuietAfter
<1> QED
  BY <1>2, <1>9, <1>10, <1>11 DEF Event

(* An event is left for a retry. *)
LEMMA QueueAfterRetry ==
  ASSUME QueueInv, job.at \in 1 .. Len(queue), Retry, vik' = vik
  PROVE  QueueInv' /\ (QuietAfter(0)' => QuietAfter(0))
<1>1. /\ DOMAIN queue = 1 .. Len(queue) /\ Len(queue) \in Nat
      /\ \A n \in 1 .. Len(queue) : queue[n] \in Events /\ EventInv(n)
  BY QueueIs
<1>2. PICK q, k, a : /\ q = queue /\ k = Len(queue) /\ a = job.at
                     /\ k \in Nat /\ a \in 1 .. k /\ q \in Seq(Events)
  BY <1>1 DEF QueueInv
<1>3. PICK wait : wait = IF q[a].wait = "new" THEN "backoff" ELSE q[a].wait
  OBVIOUS
<1>4. PICK r : r = queue' /\ r = [q EXCEPT ![a] = [q[a] EXCEPT !.wait = wait]]
  BY <1>2, <1>3 DEF Retry
<1>5. /\ r[a] \in Events /\ r[a].kind = q[a].kind /\ r[a].task = q[a].task
      /\ r[a].since = q[a].since /\ (r[a].wait = "overtaken" <=> q[a].wait = "overtaken")
  <2>1. q[a] \in Events /\ r[a] = [q[a] EXCEPT !.wait = wait]
    BY <1>1, <1>2, <1>4
  <2> QED
    BY <1>3, <2>1 DEF Events
<1>6. \A n \in 1 .. k : n # a => r[n] = q[n]
  BY <1>2, <1>4
<1>7. r \in Seq(Events) /\ Len(r) = k /\ DOMAIN r = 1 .. k
  <2>1. \A n \in 1 .. k : r[n] \in Events
    BY <1>1, <1>2, <1>5, <1>6
  <2>2. DOMAIN r = 1 .. k /\ r = [n \in 1 .. k |-> r[n]]
    BY <1>1, <1>2, <1>4
  <2> QED
    BY <1>2, <2>1, <2>2
<1>8. ASSUME NEW n \in 0 .. k
      PROVE  QuietAfter(n)' => QuietAfter(n)
  <2>1. \A m \in n + 1 .. k : r[m].kind = q[m].kind
    BY <1>2, <1>5, <1>6
  <2> QED
    BY <1>2, <1>4, <1>7, <2>1 DEF QuietAfter
<1>9. ASSUME NEW n \in 1 .. k
      PROVE  EventInv(n)'
  <2>1. EventInv(n) /\ n \in 0 .. k
    BY <1>1, <1>2
  <2>2. /\ r[n].kind = q[n].kind /\ r[n].task = q[n].task /\ r[n].since = q[n].since
        /\ (r[n].wait = "overtaken" <=> q[n].wait = "overtaken")
    BY <1>5, <1>6
  <2>3. r[n].wait # "overtaken" /\ QuietAfter(n)' => r[n].task = vik
    BY <1>2, <1>8, <2>1, <2>2 DEF EventInv
  <2>4. /\ r[n].task.at \subseteq r[n].since /\ vik.at \subseteq r[n].since
        /\ r[n].task.exists = (r[n].kind # "delete")
        /\ r[n].kind = "delete" => ~vik.exists
    BY <1>2, <2>1, <2>2 DEF EventInv
  <2> QED
    BY <1>4, <2>3, <2>4 DEF EventInv
<1> QED
  BY <1>2, <1>4, <1>7, <1>8, <1>9 DEF QueueInv

-----------------------------------------------------------------------------
(* What stays as it is. *)
LEMMA SaysMore ==
  ASSUME NEW A, NEW B, A \subseteq B, NEW obj, Says(obj, A)
  PROVE  Says(obj, B)
BY DEF Says

LEMMA WithinMore ==
  ASSUME NEW A, NEW B, A \subseteq B, NEW s, Within(s, A)
  PROVE  Within(s, B)
<1>1. s.bucket \in {Untitled} \cup {Bucket[b].title : b \in B}
  BY DEF Within
<1>2. \A n \in DOMAIN s.view_buckets : \E b \in B :
        /\ Bucket[b].view = s.view_buckets[n].view /\ Bucket[b].title = s.view_buckets[n].title
  BY DEF Within
<1> QED
  BY <1>1, <1>2 DEF Within

LEMMA SameRows ==
  ASSUME RowsInv, UNCHANGED row, pc' # "tell" \/ (pc' = pc /\ UNCHANGED job),
         pc' \in {"save", "tell"} => \A r \in row : ~r.deleted
  PROVE  RowsInv'
<1>2. PICK rows : rows = row /\ rows = row'
  OBVIOUS
<1>3. rows = {} \/ \E r \in rows : rows = {r} /\ RowInv(r)
  BY <1>2 DEF RowsInv
<1>4. pc' = "tell" => \E r \in job'.previous : job'.previous = {r} /\ RowInv(r)
  BY DEF RowsInv
<1>5. (row = {} \/ \E r \in row : row = {r} /\ RowInv(r))'
  BY <1>2, <1>3 DEF RowInv
<1>6. (pc = "tell" => \E r \in job.previous : job.previous = {r} /\ RowInv(r))'
  BY <1>4 DEF RowInv
<1> QED
  BY <1>5, <1>6 DEF RowsInv

LEMMA SameCard ==
  ASSUME CardInv, UNCHANGED <<row, card>>, pc' \in {"save", "tell"} => card.face = "live"
  PROVE  CardInv'
BY DEF CardInv, BucketsAreReal, NoticeRepeatsCard

LEMMA SameTold ==
  ASSUME ToldInv, UNCHANGED <<row, told, missed>>,
         (pc' = "tell") <=> (pc = "tell"), pc' = "tell" => UNCHANGED job
  PROVE  ToldInv'
<1>1. PICK rows, said, skipped, prior :
        rows = row /\ rows = row' /\ said = told /\ said = told' /\ skipped = missed /\ skipped = missed'
        /\ prior = job.previous /\ (pc = "tell" => prior = job'.previous)
  BY DEF ToldInv
<1>2. skipped \subseteq Fields /\ \A known \in said : \A r \in IF pc = "tell" THEN prior ELSE rows :
        Unknown(known, r) \subseteq skipped
  BY <1>1 DEF ToldInv
<1> QED
  BY <1>1, <1>2 DEF ToldInv, Unknown

LEMMA SameSettled ==
  ASSUME SettledInv, UNCHANGED <<row, vik>>, QuietAfter(0)' => QuietAfter(0)
  PROVE  SettledInv'
BY DEF SettledInv, FactsOf

(* A delivery that stops, for a retry or because it is done. *)
LEMMA IdleJob ==
  ASSUME pc' = "idle", job' = NoJob
  PROVE  JobInv'
<1>1. /\ NoJob.views = << >> /\ NoJob.answers = [v \in Views |-> Unasked]
      /\ DOMAIN NoJob = {"at", "task", "views", "answers", "previous"}
  BY DEF NoJob
<1>2. DOMAIN NoJob.answers = Views /\ NoJob.views \in Seq(Views)
  BY <1>1
<1> QED
  BY <1>1, <1>2 DEF JobInv

LEMMA SameBudgets ==
  ASSUME BudgetInv, UNCHANGED <<hook, changes, edits>>,
         faults' = faults \/ (faults > 0 /\ faults' = faults - 1),
         pc' \in {"idle", "task", "views", "show", "save", "tell", "deletion"}
  PROVE  BudgetInv'
<1>1. faults' \in 0 .. MaxFaults
  BY TextConstants DEF BudgetInv
<1> QED
  BY <1>1 DEF BudgetInv

LEMMA SameQueue ==
  ASSUME QueueInv, UNCHANGED <<queue, vik>>
  PROVE  QueueInv' /\ \A k \in Nat : QuietAfter(k)' <=> QuietAfter(k)
<1>1. \A k \in Nat : QuietAfter(k)' <=> QuietAfter(k)
  BY DEF QuietAfter
<1>2. \A n \in DOMAIN queue : EventInv(n) => EventInv(n)'
  <2> TAKE n \in DOMAIN queue
  <2>1. n \in Nat
    BY QueueIs
  <2> QED
    BY <1>1, <2>1 DEF EventInv
<1> QED
  BY <1>1, <1>2 DEF QueueInv

-----------------------------------------------------------------------------
(* The actions: Vikunja and the owner.                                     *)
LEMMA AnnounceKeeps ==
  ASSUME TextInv, NEW kind \in {"created", "update", "comment", "delete"}, Announce(kind),
         vik' \in Tasks, vik'.exists = (kind # "delete"), kind = "comment" => vik' = vik
  PROVE  TextInv'
<1>0. /\ vik.exists /\ changes > 0 /\ changes' = changes - 1
      /\ UNCHANGED <<hook, row, card, told, missed, pc, job, faults, edits>>
  BY DEF Announce
<1>1. QueueInv /\ JobInv /\ RowsInv /\ CardInv /\ ToldInv /\ SettledInv /\ BudgetInv
  BY DEF TextInv
<1>2. /\ QueueInv'
      /\ Len(queue') = Len(queue) + 1
      /\ \A n \in 1 .. Len(queue) : /\ queue'[n].kind = queue[n].kind
                                    /\ queue'[n].wait = queue[n].wait
                                    /\ queue[n].since \subseteq queue'[n].since
      /\ \A k \in 0 .. Len(queue) : QuietAfter(k)' => QuietAfter(k) /\ vik' = vik
  BY <1>1, QueueAfterAnnounce
<1>3. Len(queue) \in Nat
  BY <1>1, QueueIs
<1>4. pc # "idle" => /\ job.at \in 1 .. Len(queue) /\ job.at \in 1 .. Len(queue')
                     /\ Event'.kind = Event.kind /\ Event'.wait = Event.wait
                     /\ Event.since \subseteq Event'.since
                     /\ (QuietAfter(job.at)' => QuietAfter(job.at) /\ vik' = vik)
  <2> SUFFICES ASSUME pc # "idle"
               PROVE  /\ job.at \in 1 .. Len(queue) /\ job.at \in 1 .. Len(queue')
                      /\ Event'.kind = Event.kind /\ Event'.wait = Event.wait
                      /\ Event.since \subseteq Event'.since
                      /\ (QuietAfter(job.at)' => QuietAfter(job.at) /\ vik' = vik)
    OBVIOUS
  <2>1. PICK at : at = job.at /\ at = job'.at /\ at \in 1 .. Len(queue) /\ at \in 0 .. Len(queue)
    BY <1>0, <1>1, <1>3 DEF JobInv
  <2>2. Event = queue[at] /\ Event' = queue'[at]
    BY <2>1 DEF Event
  <2>3. QuietAfter(job.at)' <=> QuietAfter(at)'
    BY <2>1 DEF QuietAfter
  <2> QED
    BY <1>2, <1>3, <2>1, <2>2, <2>3
<1>5. RowsInv'
  <2>1. pc' \in {"save", "tell"} => \A r \in row : ~r.deleted
    BY <1>0, <1>1 DEF RowsInv
  <2> QED
    BY <1>0, <1>1, <2>1, SameRows
<1>6. CardInv'
  BY <1>0, <1>1, SameCard DEF CardInv
<1>7. ToldInv'
  BY <1>0, <1>1, SameTold
<1>8. SettledInv'
  <2>1. QuietAfter(0)' => QuietAfter(0) /\ vik' = vik
    BY <1>2, <1>3
  <2> QED
    BY <1>0, <1>1, <2>1 DEF SettledInv, FactsOf
<1>9. BudgetInv'
  <2>1. changes' \in 0 .. MaxChanges
    BY <1>0, <1>1, TextConstants DEF BudgetInv
  <2> QED
    BY <1>0, <1>1, <2>1 DEF BudgetInv
<1>10. \A of : pc # "idle" /\ Fresh(of) => Fresh(of)'
  BY <1>4 DEF Fresh, FactsOf
<1>11. JobInv'
  <2>2. /\ job.views \in Seq(Views) /\ DOMAIN job.answers = Views
        /\ DOMAIN job = {"at", "task", "views", "answers", "previous"}
    BY <1>1 DEF JobInv
  <2>3. pc # "idle" => job.at \in 1 .. Len(queue') /\ (pc = "deletion" <=> Event'.kind = "delete")
    BY <1>1, <1>4 DEF JobInv
  <2>4. ASSUME pc = "views", NEW v \in Views PROVE Heard(job.answers[v])'
    <3>1. Heard(job.answers[v]) /\ pc # "idle"
      BY <1>1, <2>4 DEF JobInv
    <3>2. PICK a : a = job.answers[v] /\ a = (job.answers[v])'
      BY <1>0
    <3>3. a.kind = "hit" => \E obj \in a.task : a.task = {obj} /\ Says(obj, Event.since) /\ Fresh(obj.of)
      BY <3>1, <3>2 DEF Heard
    <3>4. \A obj : Says(obj, Event.since) => Says(obj, Event'.since)
      BY <1>4, <3>1, SaysMore
    <3>5. \A obj : Fresh(obj.of) => Fresh(obj.of)'
      BY <1>10, <3>1
    <3>6. a.kind = "hit" => \E obj \in a.task : a.task = {obj} /\ Says(obj, Event.since)' /\ Fresh(obj.of)'
      BY <3>3, <3>4, <3>5 DEF Says
    <3> QED
      BY <3>2, <3>6 DEF Heard
  <2>5. ASSUME pc \in {"show", "save", "tell"}
        PROVE  \E task \in job.task :
                 /\ job.task = {task}
                 /\ Made(task.now, task.of) /\ InForm(task.now, "tuple") /\ Fresh(task.of)'
                 /\ job.views = << >> => task.now.view_buckets = << >>
                 /\ pc = "show" => Within(task.now, Event'.since)
                 /\ pc = "save" => job.previous = row
                 /\ pc = "tell" => \E r \in row : /\ r.snapshot = Json(task.now) /\ r.of = task.of
                                                  /\ r.overtaken <=> Event'.wait = "overtaken"
    <3>1. pc # "idle"
      BY <2>5
    <3>2. PICK task \in job.task :
            /\ job.task = {task}
            /\ Made(task.now, task.of) /\ InForm(task.now, "tuple") /\ Fresh(task.of)
            /\ job.views = << >> => task.now.view_buckets = << >>
            /\ pc = "show" => Within(task.now, Event.since)
            /\ pc = "save" => job.previous = row
            /\ pc = "tell" => \E r \in row : /\ r.snapshot = Json(task.now) /\ r.of = task.of
                                             /\ r.overtaken <=> Event.wait = "overtaken"
      BY <1>1, <2>5 DEF JobInv
    <3>3. Fresh(task.of)'
      BY <1>10, <3>1, <3>2
    <3>4. pc = "show" => Within(task.now, Event'.since)
      BY <1>4, <3>1, <3>2, WithinMore
    <3>5. Event'.wait = Event.wait
      BY <1>4, <3>1
    <3> QED
      BY <3>2, <3>3, <3>4, <3>5
  <2>6. pc = "views" => job.views # << >>
    BY <1>1 DEF JobInv
  <2> QED
    BY <1>0, <2>2, <2>3, <2>4, <2>5, <2>6 DEF JobInv, Made, InForm, Within
<1> QED
  BY <1>2, <1>5, <1>6, <1>7, <1>8, <1>9, <1>11 DEF TextInv

LEMMA VikunjaKeeps ==
  ASSUME TextInv, Create \/ Change \/ Comment \/ Delete
  PROVE  TextInv'
<1>1. vik \in Tasks
  BY DEF TextInv, QueueInv
<1>2. CASE Create
  <2>1. Announce("created") /\ vik' = vik /\ vik.exists
    BY <1>2 DEF Create, Announce
  <2>2. vik'.exists = ("created" # "delete")
    BY <1>1, <2>1 DEF Tasks
  <2> QED
    BY <1>1, <2>1, <2>2, AnnounceKeeps
<1>3. CASE Comment
  <2>1. Announce("comment") /\ vik' = vik /\ vik.exists
    BY <1>3 DEF Comment, Announce
  <2>2. vik'.exists = ("comment" # "delete")
    BY <1>1, <2>1 DEF Tasks
  <2> QED
    BY <1>1, <2>1, <2>2, AnnounceKeeps
<1>4. CASE Change
  <2>1. Announce("update") /\ vik.exists
    BY <1>4 DEF Change, Announce
  <2>2. vik' \in Tasks /\ vik'.exists = ("update" # "delete")
    <3>1. CASE \E facts \in Facts \ {FactsOf(vik)} :
                 vik' = Task(facts, vik.at, TRUE)
      <4>1. PICK facts \in Facts : vik' = Task(facts, vik.at, TRUE)
        BY <3>1
      <4>2. /\ facts.title \in Titles /\ facts.identifier \in Idents
            /\ facts.due_date \in Dues \cup {Unset} /\ facts.labels \in LabelSets
        BY DEF Facts
      <4>3. vik.at \in Positions
        BY <1>1 DEF Tasks
      <4>4. vik' \in Tasks
        BY <4>1, <4>2, <4>3 DEF Tasks, Task
      <4> QED
        BY <4>1, <4>4 DEF Task
    <3>2. CASE \E at \in Positions \ {vik.at} : vik' = [vik EXCEPT !.at = at]
      BY <1>1, <2>1, <3>2 DEF Tasks
    <3> QED
      BY <1>4, <3>1, <3>2 DEF Change
  <2> QED
    BY <2>1, <2>2, AnnounceKeeps
<1>5. CASE Delete
  <2>1. Announce("delete") /\ vik' = [vik EXCEPT !.exists = FALSE]
    BY <1>5 DEF Delete
  <2>2. vik' \in Tasks /\ vik'.exists = ("delete" # "delete")
    BY <1>1, <2>1 DEF Tasks
  <2> QED
    BY <2>1, <2>2, AnnounceKeeps
<1> QED
  BY <1>2, <1>3, <1>4, <1>5

LEMMA EditHookKeeps ==
  ASSUME TextInv, EditHook
  PROVE  TextInv'
<1>1. QueueInv /\ JobInv /\ RowsInv /\ CardInv /\ ToldInv /\ SettledInv /\ BudgetInv
  BY DEF TextInv
<1>2. /\ hook' \in HookModes /\ edits > 0 /\ edits' = edits - 1
      /\ UNCHANGED <<vik, queue, row, card, told, missed, pc, job, faults, changes>>
  BY DEF EditHook
<1>3. QueueInv' /\ \A k \in Nat : QuietAfter(k)' <=> QuietAfter(k)
  BY <1>1, <1>2, SameQueue
<1>4. JobInv'
  BY <1>1, <1>2, <1>3 DEF JobInv, Heard, Fresh, FactsOf, Event, Made, InForm, Within, Says
<1>5. RowsInv'
  BY <1>1, <1>2 DEF RowsInv, RowInv
<1>6. CardInv'
  BY <1>1, <1>2, SameCard DEF CardInv
<1>7. ToldInv'
  BY <1>1, <1>2, SameTold
<1>8. SettledInv'
  BY <1>1, <1>2, <1>3, SameSettled
<1>9. BudgetInv'
  BY <1>1, <1>2, TextConstants DEF BudgetInv
<1> QED
  BY <1>3, <1>4, <1>5, <1>6, <1>7, <1>8, <1>9 DEF TextInv

-----------------------------------------------------------------------------
(* The actions: a delivery, up to the snapshot of the task object.         *)
LEMMA EventIs ==
  ASSUME QueueInv, job.at \in 1 .. Len(queue)
  PROVE  /\ Event \in Events /\ Event.task \in Tasks /\ Event.since \in SUBSET Buckets
         /\ Event.task.at \subseteq Event.since /\ vik.at \subseteq Event.since
         /\ Event.task.exists = (Event.kind # "delete")
         /\ Event.kind = "delete" => ~vik.exists
         /\ Event.wait # "overtaken" /\ QuietAfter(job.at) => Event.task = vik
         /\ vik \in Tasks
<1>1. Event = queue[job.at] /\ queue[job.at] \in Events /\ EventInv(job.at)
  BY QueueIs DEF Event
<1>2. vik \in Tasks
  BY DEF QueueInv
<1> QED
  BY <1>1, <1>2 DEF EventInv, Events

LEMMA StartKeeps ==
  ASSUME TextInv, Start
  PROVE  TextInv'
<1>1. QueueInv /\ JobInv /\ RowsInv /\ CardInv /\ ToldInv /\ SettledInv /\ BudgetInv
  BY DEF TextInv
<1>0. PICK at \in DOMAIN queue :
        /\ job' = [NoJob EXCEPT !.at = at, !.views = hook.views]
        /\ pc' = IF queue[at].kind = "delete" THEN "deletion"
                 ELSE IF hook.filters THEN "views" ELSE "task"
  BY DEF Start, Go
<1>2. /\ pc = "idle" /\ at \in 1 .. Len(queue)
      /\ UNCHANGED <<queue, faults, vik, hook, changes, edits, row, card, told, missed>>
  BY <1>1, QueueIs DEF Start, UnchangedWorld, UnchangedChat
<1>3. QueueInv' /\ \A k \in Nat : QuietAfter(k)' <=> QuietAfter(k)
  BY <1>1, <1>2, SameQueue
<1>4. hook \in HookModes /\ hook.views \in Seq(Views) /\ (hook.filters => hook.views # << >>)
  BY <1>1, TextConstants DEF BudgetInv
<1>5. JobInv'
  <2>1. job' = [at |-> at, task |-> {}, views |-> hook.views,
                answers |-> [v \in Views |-> Unasked], previous |-> {}]
    BY <1>0 DEF NoJob
  <2>2. PICK j : j = job' /\ j.at = at /\ j.views = hook.views /\ DOMAIN j.answers = Views
                 /\ DOMAIN j = {"at", "task", "views", "answers", "previous"}
                 /\ \A v \in Views : j.answers[v].kind # "hit"
    BY <2>1 DEF Unasked, Answer
  <2>3. \A v \in Views : Heard(job.answers[v])'
    BY <2>2 DEF Heard
  <2>4. (job.at \in 1 .. Len(queue) /\ (pc = "deletion" <=> Event.kind = "delete"))'
    BY <1>0, <1>2, <2>2 DEF Event
  <2>5. pc' \notin {"show", "save", "tell"} /\ (pc' = "views" => hook.filters)
    BY <1>0
  <2> QED
    BY <1>2, <1>4, <2>2, <2>3, <2>4, <2>5 DEF JobInv
<1>6. pc' \notin {"save", "tell"}
  BY <1>0
<1>7. RowsInv' /\ CardInv' /\ ToldInv' /\ SettledInv'
  <2>1. RowsInv'
    BY <1>1, <1>2, <1>6, SameRows
  <2>2. CardInv'
    BY <1>1, <1>2, <1>6, SameCard
  <2>3. ToldInv'
    BY <1>1, <1>2, <1>6, SameTold
  <2>4. SettledInv'
    BY <1>1, <1>2, <1>3, SameSettled
  <2> QED
    BY <2>1, <2>2, <2>3, <2>4
<1>8. BudgetInv'
  BY <1>0, <1>1, <1>2, SameBudgets
<1> QED
  BY <1>3, <1>5, <1>7, <1>8 DEF TextInv

(* A task object is taken for the card: what it says is true of the event. *)
LEMMA HoldKeeps ==
  ASSUME TextInv, pc \in {"task", "views"}, NEW obj, Hold(obj), Says(obj, Event.since), Fresh(obj.of),
         UNCHANGED <<queue, vik, hook, changes, edits, row, card, told, missed>>,
         faults' = faults \/ (faults > 0 /\ faults' = faults - 1)
  PROVE  TextInv'
<1>1. QueueInv /\ JobInv /\ RowsInv /\ CardInv /\ ToldInv /\ SettledInv /\ BudgetInv
  BY DEF TextInv
<1>2. pc' = "show" /\ job' = [NoJob EXCEPT !.at = job.at, !.views = job.views,
                                !.task = {[now |-> TaskSnapshot(obj, job.views), of |-> obj.of]}]
  BY DEF Hold, Go
<1>3. QueueInv' /\ \A k \in Nat : QuietAfter(k)' <=> QuietAfter(k)
  BY <1>1, SameQueue
<1>4. job.at \in 1 .. Len(queue) /\ Event.kind # "delete" /\ job.views \in Seq(Views)
  BY <1>1 DEF JobInv
<1>5. Event.since \in SUBSET Buckets
  BY <1>1, <1>4, EventIs
<1>6. JobInv'
  <2>1. PICK now : /\ now = TaskSnapshot(obj, job.views)
                   /\ Made(now, obj.of) /\ InForm(now, "tuple") /\ Within(now, Event.since)
                   /\ job.views = << >> => now.view_buckets = << >>
    BY <1>4, <1>5, SnapshotIs
  <2>2. PICK task : task = [now |-> now, of |-> obj.of]
    OBVIOUS
  <2>3. job' = [at |-> job.at, task |-> {task}, views |-> job.views,
                answers |-> [v \in Views |-> Unasked], previous |-> {}]
    BY <1>2, <2>1, <2>2 DEF NoJob
  <2>4. PICK j : /\ j = job' /\ j.views = job.views /\ DOMAIN j.answers = Views /\ j.task = {task}
                 /\ j.at = job.at /\ DOMAIN j = {"at", "task", "views", "answers", "previous"}
    BY <1>4, <2>3
  <2>6. Event' = Event
    BY <2>4 DEF Event
  <2>5. Fresh(task.of)'
    <3>1. QuietAfter(job.at)' => QuietAfter(job.at)
      BY <2>4 DEF QuietAfter
    <3> QED
      BY <2>2, <2>6, <3>1 DEF Fresh, FactsOf
  <2>7. Within(task.now, Event.since)'
    BY <2>1, <2>2, <2>6 DEF Within
  <2>8. (Made(task.now, task.of) /\ InForm(task.now, "tuple"))'
    BY <2>1, <2>2 DEF Made, InForm
  <2>9. j.views = << >> => task.now.view_buckets = << >>
    BY <2>1, <2>2, <2>4
  <2> QED
    BY <1>2, <1>4, <2>4, <2>5, <2>6, <2>7, <2>8, <2>9 DEF JobInv
<1>7. RowsInv' /\ CardInv' /\ ToldInv' /\ SettledInv'
  <2>1. RowsInv'
    BY <1>1, <1>2, SameRows
  <2>2. CardInv'
    BY <1>1, <1>2, SameCard
  <2>3. ToldInv'
    BY <1>1, <1>2, SameTold
  <2>4. SettledInv'
    BY <1>1, <1>3, SameSettled
  <2> QED
    BY <2>1, <2>2, <2>3, <2>4
<1>8. BudgetInv'
  BY <1>1, <1>2, SameBudgets
<1> QED
  BY <1>3, <1>6, <1>7, <1>8 DEF TextInv

(* The delivery stops with the card and the mapping as they are; it may be *)
(* done with an event that is about nothing but a comment.                 *)
LEMMA StopKeeps ==
  ASSUME TextInv, pc \notin {"idle", "tell"}, pc' = "idle", job' = NoJob,
         Retry \/ (queue' = Done /\ Event.kind = "comment"),
         UNCHANGED <<vik, hook, changes, edits, row, card, told, missed>>,
         faults' = faults \/ (faults > 0 /\ faults' = faults - 1)
  PROVE  TextInv'
<1>1. QueueInv /\ JobInv /\ RowsInv /\ CardInv /\ ToldInv /\ SettledInv /\ BudgetInv
  BY DEF TextInv
<1>2. job.at \in 1 .. Len(queue)
  BY <1>1 DEF JobInv
<1>3. QueueInv' /\ (QuietAfter(0)' => QuietAfter(0))
  BY <1>1, <1>2, QueueAfterRetry, QueueAfterFinish
<1>4. JobInv'
  BY IdleJob
<1>5. RowsInv' /\ CardInv' /\ ToldInv' /\ SettledInv'
  <2>1. RowsInv'
    BY <1>1, <1>2, SameRows
  <2>2. CardInv'
    BY <1>1, <1>2, SameCard
  <2>3. ToldInv'
    BY <1>1, <1>2, SameTold
  <2>4. SettledInv'
    BY <1>1, <1>3, SameSettled
  <2> QED
    BY <2>1, <2>2, <2>3, <2>4
<1>6. BudgetInv'
  BY <1>1, SameBudgets
<1> QED
  BY <1>3, <1>4, <1>5, <1>6 DEF TextInv

(* There is an object of every task. *)
LEMMA SomeObject ==
  ASSUME NEW t, NEW ids, NEW parts, {} \in parts
  PROVE  \E obj : obj \in Objects(t, ids, parts)
<1> DEFINE plain(id, part) ==
      [title |-> t.title, identifier |-> t.identifier, due_date |-> t.due_date,
       bucket |-> {}, bucket_id |-> id, view_buckets |-> {},
       labels |-> SetToSeq(t.labels), buckets |-> SetToSeq(part), of |-> FactsOf(t)]
<1>1. PICK more : more = {NoBucket} \cup ids
  OBVIOUS
<1>2. Objects(t, ids, parts) = {plain(id, part) : id \in more, part \in parts}
  BY <1>1 DEF Objects
<1> HIDE DEF plain
<1>3. NoBucket \in more
  BY <1>1
<1>4. plain(NoBucket, {}) \in {plain(id, part) : id \in more, part \in parts}
  BY <1>3
<1> QED
  BY <1>2, <1>4

LEMMA ReadTaskKeeps ==
  ASSUME TextInv, ReadTask
  PROVE  TextInv'
<1>1. QueueInv /\ JobInv
  BY DEF TextInv
<1>2. /\ pc = "task" /\ (Embedded \/ Enriched \/ NotEnriched)
      /\ UNCHANGED <<vik, hook, changes, edits, row, card, told, missed>>
  BY DEF ReadTask, UnchangedWorld, UnchangedChat
<1>3. job.at \in 1 .. Len(queue) /\ Event.kind # "delete"
  BY <1>1, <1>2 DEF JobInv
<1>4. /\ Event.task \in Tasks /\ Event.since \in SUBSET Buckets
      /\ Event.task.at \subseteq Event.since /\ vik.at \subseteq Event.since
      /\ Event.wait # "overtaken" /\ QuietAfter(job.at) => Event.task = vik
      /\ vik \in Tasks
  BY <1>1, <1>3, EventIs
<1>5. \A obj \in EmbeddedObjects : Says(obj, Event.since) /\ Fresh(obj.of)
  <2> TAKE obj \in EmbeddedObjects
  <2>0. PICK t, parts : t = Event.task /\ parts = {{}, t.at}
    OBVIOUS
  <2>1. PICK plain \in Objects(t, t.at, parts) : obj \in Forms(plain)
    BY <2>0 DEF EmbeddedObjects, WebhookObjects
  <2>2. parts \in SUBSET SUBSET t.at /\ t.at \in SUBSET t.at
    BY <2>0
  <2>3. Says(plain, Event.since) /\ plain.of = FactsOf(Event.task)
    BY <1>4, <2>0, <2>1, <2>2, ObjectsSay
  <2>4. Says(obj, Event.since) /\ obj.of = FactsOf(Event.task)
    BY <2>1, <2>3, FormsSay
  <2> QED
    BY <1>4, <2>4 DEF Fresh
<1>6. \A obj \in ReadObjects(vik) : Says(obj, Event.since) /\ Fresh(obj.of)
  <2> TAKE obj \in ReadObjects(vik)
  <2>1. PICK plain \in Objects(vik, vik.at, {vik.at}) : obj \in Forms(plain)
    BY DEF ReadObjects
  <2>2. {vik.at} \in SUBSET SUBSET vik.at /\ vik.at \in SUBSET vik.at
    OBVIOUS
  <2>3. Says(plain, Event.since) /\ plain.of = FactsOf(vik)
    BY <1>4, <2>1, <2>2, ObjectsSay
  <2>4. Says(obj, Event.since) /\ obj.of = FactsOf(vik)
    BY <2>1, <2>3, FormsSay
  <2> QED
    BY <2>4 DEF Fresh
<1>7. CASE Embedded
  <2>1. PICK obj \in EmbeddedObjects : Hold(obj) /\ UNCHANGED <<queue, faults>>
    BY <1>7 DEF Embedded
  <2> QED
    BY <1>2, <1>5, <2>1, HoldKeeps
<1>8. CASE Enriched
  <2>1. UNCHANGED <<queue, faults>>
    BY <1>8 DEF Enriched
  <2>2. PICK read \in ReadObjects(vik) :
          \/ \E obj \in EmbeddedObjects :
               Hold(IF job.views # << >> THEN read ELSE MergeEventBucket(obj, read))
          \/ Hold(read)
    BY <1>8 DEF Enriched
  <2>3. Says(read, Event.since) /\ Fresh(read.of)
    BY <1>6
  <2>4. CASE Hold(read)
    BY <1>2, <2>1, <2>3, <2>4, HoldKeeps
  <2>5. ASSUME NEW obj \in EmbeddedObjects, Hold(MergeEventBucket(obj, read))
        PROVE  TextInv'
    <3>1. /\ Says(MergeEventBucket(obj, read), Event.since)
          /\ MergeEventBucket(obj, read).of = read.of
      BY <1>5, <2>3, EventBucketSays
    <3> QED
      BY <1>2, <2>1, <2>3, <2>5, <3>1, HoldKeeps
  <2> QED
    BY <2>2, <2>4, <2>5
<1>9. CASE NotEnriched
  <2>1. faults' = faults \/ (faults > 0 /\ faults' = faults - 1)
    BY <1>9 DEF NotEnriched
  <2>2. CASE \E obj \in EmbeddedObjects : Hold(obj) /\ UNCHANGED queue
    BY <1>2, <1>5, <2>1, <2>2, HoldKeeps
  <2>3. CASE EmbeddedObjects = {} /\ Finish
    <3>1. pc' = "idle" /\ job' = NoJob /\ queue' = Done
      BY <2>3 DEF Finish
    <3>2. Event.kind = "comment"
      <4>1. WebhookObjects(Event.task) # {}
        <5>1. PICK t, parts : t = Event.task /\ parts = {{}, t.at}
          OBVIOUS
        <5>2. PICK obj \in Objects(t, t.at, parts) : TRUE
          BY <5>1, SomeObject
        <5>3. obj \in Forms(obj)
          BY DEF Forms
        <5> QED
          BY <5>1, <5>2, <5>3 DEF WebhookObjects
      <4> QED
        BY <2>3, <4>1 DEF EmbeddedObjects
    <3> QED
      BY <1>2, <2>1, <3>1, <3>2, StopKeeps
  <2> QED
    BY <1>9, <2>2, <2>3 DEF NotEnriched
<1> QED
  BY <1>2, <1>7, <1>8, <1>9

-----------------------------------------------------------------------------
(* The actions: a delivery that asks the selected views.                   *)
LEMMA AskViewKeeps ==
  ASSUME TextInv, NEW v \in Views, AskView(v)
  PROVE  TextInv'
<1>1. QueueInv /\ JobInv /\ RowsInv /\ CardInv /\ ToldInv /\ SettledInv /\ BudgetInv
  BY DEF TextInv
<1>2. /\ pc = "views"
      /\ UNCHANGED <<queue, pc, vik, hook, changes, edits, row, card, told, missed>>
  BY DEF AskView, UnchangedWorld, UnchangedChat
<1>3. job.at \in 1 .. Len(queue)
  BY <1>1, <1>2 DEF JobInv
<1>4. /\ Event.since \in SUBSET Buckets /\ vik.at \subseteq Event.since /\ vik \in Tasks
  BY <1>1, <1>3, EventIs
<1>5. QueueInv' /\ \A k \in Nat : QuietAfter(k)' <=> QuietAfter(k)
  BY <1>1, <1>2, SameQueue
<1>6. \A obj \in ViewObjects(vik, v) : Says(obj, Event.since) /\ Fresh(obj.of)
  <2> TAKE obj \in ViewObjects(vik, v)
  <2>1. PICK ids, parts : /\ ids = InView(vik.at, v) /\ parts = {vik.at, InView(vik.at, v)}
                          /\ obj \in Objects(vik, ids, parts)
    BY DEF ViewObjects
  <2>2. ids \in SUBSET vik.at /\ parts \in SUBSET SUBSET vik.at
    BY <2>1 DEF InView
  <2>3. Says(obj, Event.since) /\ obj.of = FactsOf(vik)
    BY <1>4, <2>1, <2>2, ObjectsSay
  <2> QED
    BY <2>3 DEF Fresh
<1>7. PICK answer : job' = [job EXCEPT !.answers[v] = answer] /\ Heard(answer)
  <2>1. CASE Hears(v, Answer("absent", {})) \/ Hears(v, Answer("failed", {}))
    <3>1. Heard(Answer("absent", {})) /\ Heard(Answer("failed", {}))
      BY DEF Heard, Answer
    <3> QED
      BY <2>1, <3>1 DEF Hears
  <2>2. CASE \E obj \in ViewObjects(vik, v) : Hears(v, Answer("hit", {obj}))
    <3>1. PICK obj \in ViewObjects(vik, v) : Hears(v, Answer("hit", {obj}))
      BY <2>2
    <3>2. Answer("hit", {obj}).task = {obj}
      BY DEF Answer
    <3>3. Heard(Answer("hit", {obj}))
      BY <1>6, <3>2 DEF Heard
    <3> QED
      BY <3>1, <3>3 DEF Hears
  <2> QED
    BY <2>1, <2>2 DEF AskView
<1>8. faults' = faults \/ (faults > 0 /\ faults' = faults - 1)
  BY DEF AskView
<1>9. JobInv'
  <2>1. /\ DOMAIN job = {"at", "task", "views", "answers", "previous"} /\ DOMAIN job.answers = Views
        /\ job.views \in Seq(Views) /\ job.views # << >> /\ Event.kind # "delete"
        /\ \A w \in Views : Heard(job.answers[w])
    BY <1>1, <1>2 DEF JobInv
  <2>2. PICK heard : heard = [job.answers EXCEPT ![v] = answer]
    OBVIOUS
  <2>3. DOMAIN heard = Views /\ \A w \in Views : Heard(heard[w])
    BY <1>7, <2>1, <2>2
  <2>4. PICK j : j = job' /\ j = [job EXCEPT !.answers = heard]
    BY <1>7, <2>2
  <2>5. /\ DOMAIN j = {"at", "task", "views", "answers", "previous"}
        /\ j.views = job.views /\ j.answers = heard /\ j.at = job.at
    BY <2>1, <2>4
  <2>9. Event' = Event /\ job'.at = job.at
    BY <1>2, <2>4, <2>5 DEF Event
  <2>10. QuietAfter(job.at)' <=> QuietAfter(job.at)
    BY <1>2, <2>9 DEF QuietAfter
  <2>6. \A w \in Views : Heard(heard[w])'
    BY <1>2, <2>3, <2>9, <2>10 DEF Heard, Fresh, FactsOf, Says
  <2>7. \A w \in Views : Heard(job.answers[w])'
    BY <2>4, <2>5, <2>6 DEF Heard
  <2>8. (job.at \in 1 .. Len(queue) /\ (pc = "deletion" <=> Event.kind = "delete"))'
    BY <1>2, <1>3, <2>1, <2>9
  <2> QED
    BY <1>2, <2>1, <2>3, <2>4, <2>5, <2>7, <2>8 DEF JobInv
<1>10. RowsInv' /\ CardInv' /\ ToldInv' /\ SettledInv'
  <2>1. RowsInv'
    BY <1>1, <1>2, SameRows
  <2>2. CardInv'
    BY <1>1, <1>2, SameCard
  <2>3. ToldInv'
    BY <1>1, <1>2, SameTold
  <2>4. SettledInv'
    BY <1>1, <1>2, <1>5, SameSettled
  <2> QED
    BY <2>1, <2>2, <2>3, <2>4
<1>11. BudgetInv'
  BY <1>1, <1>2, <1>8, SameBudgets
<1> QED
  BY <1>5, <1>9, <1>10, <1>11 DEF TextInv

(* The answers that have the task, in the order of the views. *)
LEMMA MatchingIs ==
  ASSUME QueueInv, JobInv, pc = "views", "hit" \in Kinds
  PROVE  /\ Matching \in Seq(TaskObject) /\ Len(Matching) # 0 /\ 1 \in DOMAIN Matching
         /\ \A n \in DOMAIN Matching : Says(Matching[n], Event.since) /\ Fresh(Matching[n].of)
<1>1. job.views \in Seq(Views) /\ \A v \in Views : Heard(job.answers[v])
  BY DEF JobInv
<1>2. PICK views, answers : views = job.views /\ answers = job.answers /\ views \in Seq(Views)
  BY <1>1
<1>3. PICK places : /\ places = {n \in DOMAIN views : answers[views[n]].kind = "hit"}
                    /\ places \in SUBSET DOMAIN views
  OBVIOUS
<1>4. places # {}
  <2>1. PICK v \in ToSet(views) : answers[v].kind = "hit"
    BY <1>2 DEF Kinds
  <2>2. PICK n \in DOMAIN views : v = views[n]
    BY DEF ToSet
  <2> QED
    BY <1>3, <2>1, <2>2
<1>5. PICK hits : hits = Picked(views, places)
  OBVIOUS
<1>6. /\ hits \in Seq(Views) /\ DOMAIN hits = 1 .. Len(hits) /\ Len(hits) \in Nat /\ Len(hits) # 0
      /\ \A n \in DOMAIN hits : \E k \in places : hits[n] = views[k]
  <2>1. /\ Picked(views, places) \in Seq(Views)
        /\ DOMAIN Picked(views, places) = 1 .. Len(Picked(views, places))
        /\ Len(Picked(views, places)) \in Nat /\ Len(Picked(views, places)) # 0
    <3>1. views \in Seq(Views) /\ places \in SUBSET DOMAIN views /\ places # {}
      BY <1>2, <1>3, <1>4
    <3> QED
      BY <3>1, PickedIs
  <2>2. ASSUME NEW n \in DOMAIN Picked(views, places)
        PROVE  \E k \in places : Picked(views, places)[n] = views[k]
    <3>1. places \in SUBSET DOMAIN views
      BY <1>3
    <3> QED
      BY <1>2, <2>2, <3>1, PickedFrom
  <2> QED
    BY <1>5, <2>1, <2>2
<1>7. PICK matching : /\ matching = Matching
                      /\ matching = [n \in DOMAIN hits |-> CHOOSE obj \in answers[hits[n]].task : TRUE]
  <2> DEFINE Found(t) == CHOOSE obj \in t : TRUE
             p == Picked(job.views, {n \in DOMAIN job.views : job.answers[job.views[n]].kind = "hit"})
  <2>1. p = hits
    BY <1>2, <1>3, <1>5
  <2>2. Matching = [n \in DOMAIN p |-> Found(job.answers[p[n]].task)]
    BY DEF Matching
  <2> HIDE DEF Found, p
  <2>3. Matching = [n \in DOMAIN hits |-> Found(answers[hits[n]].task)]
    BY <1>2, <2>1, <2>2
  <2> QED
    BY <2>3 DEF Found
<1>8. ASSUME NEW n \in DOMAIN hits
      PROVE  Says(matching[n], Event.since) /\ Fresh(matching[n].of) /\ matching[n] \in TaskObject
  <2>1. hits[n] \in Views /\ answers[hits[n]].kind = "hit"
    BY <1>3, <1>6
  <2>2. PICK obj \in answers[hits[n]].task :
          answers[hits[n]].task = {obj} /\ Says(obj, Event.since) /\ Fresh(obj.of)
    BY <1>1, <1>2, <2>1 DEF Heard
  <2>3. matching[n] = obj
    BY <1>7, <2>2
  <2> QED
    BY <2>2, <2>3 DEF Says
<1>9. matching \in Seq(TaskObject) /\ DOMAIN matching = 1 .. Len(hits) /\ Len(matching) = Len(hits)
  <2>1. \A n \in 1 .. Len(hits) : matching[n] \in TaskObject
    BY <1>6, <1>8
  <2>2. matching = [n \in 1 .. Len(hits) |-> matching[n]]
    BY <1>6, <1>7
  <2> QED
    BY <1>6, <2>1, <2>2
<1> QED
  BY <1>6, <1>7, <1>8, <1>9

LEMMA FilteredOutKeeps ==
  ASSUME TextInv, pc = "views", FilteredOut,
         UNCHANGED <<vik, hook, changes, edits, told, missed, faults>>
  PROVE  TextInv'
<1>1. QueueInv /\ JobInv /\ RowsInv /\ CardInv /\ ToldInv /\ SettledInv /\ BudgetInv
  BY DEF TextInv
<1>2. pc' = "idle" /\ job' = NoJob /\ queue' = Done
  BY DEF FilteredOut, Finish
<1>3. job.at \in 1 .. Len(queue) /\ job.views # << >>
  BY <1>1 DEF JobInv
<1>4. QueueInv' /\ JobInv'
  BY <1>1, <1>2, <1>3, QueueAfterFinish, IdleJob
<1>5. BudgetInv'
  BY <1>1, <1>2, SameBudgets
<1>7. CASE row = {} \/ \E r \in row : row = {r} /\ (r.deleted \/ r.filtered)
  <2>1. UNCHANGED <<row, card>>
    BY <1>7 DEF FilteredOut
  <2>2. RowsInv' /\ CardInv' /\ ToldInv'
    BY <1>1, <1>2, <1>3, <2>1, SameRows, SameCard, SameTold
  <2>3. SettledInv'
    BY <1>7, <2>1 DEF SettledInv
  <2> QED
    BY <1>4, <1>5, <2>2, <2>3 DEF TextInv
<1>8. CASE \E r \in row : row = {r} /\ RowInv(r) /\ ~r.deleted /\ ~r.filtered
  <2>1. PICK r \in row : row = {r} /\ RowInv(r) /\ ~r.deleted /\ ~r.filtered
    BY <1>8
  <2>2. /\ card' = [card EXCEPT !.face = "filtered",
                      !.lines = {Lines(TaskSnapshot(AsTask(r.snapshot), job.views), job.views)}]
        /\ row' = {[r EXCEPT !.filtered = TRUE]}
    BY <2>1 DEF FilteredOut
  <2>3. PICK s, now : /\ s = r.snapshot /\ now = TaskSnapshot(AsTask(s), job.views)
                      /\ Made(s, r.of)
                      /\ now.title = s.title /\ now.identifier = s.identifier
                      /\ now.due_date = s.due_date /\ now.labels = s.labels
                      /\ now.view_buckets = AsTuples(s.view_buckets)
    BY <2>1, NoticeIs DEF RowInv
  <2>0. PICK out : out = [r EXCEPT !.filtered = TRUE]
    OBVIOUS
  <2>4. /\ row' = {out}
        /\ out.snapshot = s /\ out.of = r.of /\ out.views = r.views /\ out.shown = r.shown
        /\ out.filtered = TRUE /\ out.deleted = FALSE
        /\ out.overtaken = r.overtaken
        /\ DOMAIN out = {"snapshot", "of", "views", "shown", "overtaken", "filtered", "deleted"}
    BY <2>0, <2>1, <2>2, <2>3 DEF RowInv
  <2>5. RowInv(out)
    BY <2>0, <2>1, <2>3, <2>4 DEF RowInv
  <2>6. RowsInv'
    BY <1>2, <2>4, <2>5 DEF RowsInv, RowInv
  <2>7. r.shown = Lines(AsShown(s), r.views)
    BY <2>1, <2>3 DEF RowInv
  <2>8. Lines(now, job.views) = [r.shown EXCEPT !.bucket = Untitled]
    <3>1. s \in Snapshots
      BY <2>3 DEF Made
    <3>2. /\ AsShown(s).title = s.title /\ AsShown(s).identifier = s.identifier
          /\ AsShown(s).due_date = s.due_date
          /\ AsShown(s).labels = s.labels /\ AsShown(s).view_buckets = AsTuples(s.view_buckets)
      BY <3>1 DEF AsShown, Snapshots
    <3>3. Heading(now) = Heading(AsShown(s))
      BY <2>3, <3>2 DEF Heading
    <3>4. r.views = << >> => now.view_buckets = << >>
      <4>1. r.views = << >> => s.view_buckets = << >>
        BY <2>1, <2>3 DEF RowInv
      <4>2. AsTuples(<< >>) = << >>
        BY DEF AsTuples
      <4> QED
        BY <2>3, <4>1, <4>2
    <3>5. PICK said : said = r.shown /\ said = Lines(AsShown(s), r.views)
      BY <2>7
    <3>6. /\ DOMAIN said = {"heading", "buckets", "bucket", "due_date", "labels"}
          /\ said.heading = Heading(now) /\ said.buckets = now.view_buckets
          /\ said.due_date = now.due_date /\ said.labels = now.labels
      BY <2>3, <3>2, <3>3, <3>4, <3>5 DEF Lines
    <3>7. [said EXCEPT !.bucket = Untitled] =
            [heading |-> Heading(now), buckets |-> now.view_buckets, bucket |-> Untitled,
             due_date |-> now.due_date, labels |-> now.labels]
      BY <3>5, <3>6 DEF Lines
    <3> QED
      BY <1>3, <3>5, <3>7 DEF Lines
  <2>14. PICK c : c = card'
    OBVIOUS
  <2>9. /\ c = card' /\ c.face = "filtered" /\ c.lines = {Lines(now, job.views)}
        /\ c.since = card.since /\ DOMAIN c = {"face", "lines", "since"}
    BY <1>1, <2>2, <2>3, <2>14 DEF CardInv
  <2>10. BucketsAreReal' /\ NoticeRepeatsCard'
    BY <2>4, <2>8, <2>9 DEF BucketsAreReal, NoticeRepeatsCard
  <2>11. CardInv'
    BY <1>1, <1>2, <2>9, <2>10 DEF CardInv
  <2>12. ToldInv'
    BY <1>1, <1>2, <2>1, <2>3, <2>4 DEF ToldInv, Unknown
  <2>13. SettledInv'
    BY <2>4 DEF SettledInv
  <2> QED
    BY <1>4, <1>5, <2>6, <2>11, <2>12, <2>13 DEF TextInv
<1> QED
  BY <1>1, <1>7, <1>8 DEF RowsInv

LEMMA DecideVisibilityKeeps ==
  ASSUME TextInv, DecideVisibility
  PROVE  TextInv'
<1>1. QueueInv /\ JobInv
  BY DEF TextInv
<1>2. /\ pc = "views" /\ (Visible \/ Undecided \/ FilteredOut)
      /\ UNCHANGED <<vik, hook, changes, edits, told, missed, faults>>
  BY DEF DecideVisibility, UnchangedWorld
<1>3. CASE Visible
  <2>1. /\ "hit" \in Kinds /\ UNCHANGED <<queue, row, card>>
        /\ \E obj \in Forms(MergeViewTasks(Matching, job.views)) : Hold(obj)
    BY <1>3 DEF Visible
  <2>2. job.at \in 1 .. Len(queue)
    BY <1>1, <1>2 DEF JobInv
  <2>3. Event.since \in SUBSET Buckets
    BY <1>1, <2>2, EventIs
  <2>4. /\ Matching \in Seq(TaskObject) /\ Len(Matching) # 0 /\ 1 \in DOMAIN Matching
        /\ \A n \in DOMAIN Matching : Says(Matching[n], Event.since) /\ Fresh(Matching[n].of)
    BY <1>1, <1>2, <2>1, MatchingIs
  <2>5. PICK merged : /\ merged = MergeViewTasks(Matching, job.views) /\ Says(merged, Event.since)
                      /\ Fresh(merged.of)
    <3>1. /\ Says(MergeViewTasks(Matching, job.views), Event.since)
          /\ MergeViewTasks(Matching, job.views).of = Matching[1].of
      BY <2>3, <2>4, ViewTasksSay
    <3> QED
      BY <2>4, <3>1
  <2>6. PICK obj \in Forms(merged) : Hold(obj)
    BY <2>1, <2>5
  <2>7. Says(obj, Event.since) /\ obj.of = merged.of
    BY <2>5, <2>6, FormsSay
  <2>8. Fresh(obj.of)
    BY <2>5, <2>7
  <2> QED
    BY <1>2, <2>1, <2>6, <2>7, <2>8, HoldKeeps
<1>4. CASE Undecided
  <2>1. Retry /\ pc' = "idle" /\ job' = NoJob /\ UNCHANGED <<row, card>>
    BY <1>4 DEF Undecided, Retry
  <2> QED
    BY <1>2, <2>1, StopKeeps
<1>5. CASE FilteredOut
  BY <1>2, <1>5, FilteredOutKeeps
<1> QED
  BY <1>2, <1>3, <1>4, <1>5

-----------------------------------------------------------------------------
(* The actions: the card, the mapping and the reply.                       *)
LEMMA HeldIs ==
  ASSUME TextInv, pc \in {"show", "save", "tell"}
  PROVE  /\ Made(Current, Of) /\ InForm(Current, "tuple") /\ Of \in Facts
         /\ job.at \in 1 .. Len(queue) /\ Event.kind # "delete" /\ job.views \in Seq(Views)
         /\ Event.wait # "overtaken" /\ QuietAfter(job.at) => Of = FactsOf(vik) /\ vik.exists
         /\ job.views = << >> => Current.view_buckets = << >>
         /\ pc = "show" => Within(Current, Event.since)
         /\ pc = "save" => job.previous = row
         /\ pc = "tell" => \E r \in row : /\ r.snapshot = Json(Current) /\ r.of = Of
                                          /\ r.overtaken <=> Event.wait = "overtaken"
<1>1. QueueInv /\ JobInv
  BY DEF TextInv
<1>2. PICK task \in job.task :
        /\ job.task = {task}
        /\ Made(task.now, task.of) /\ InForm(task.now, "tuple") /\ Fresh(task.of)
        /\ job.views = << >> => task.now.view_buckets = << >>
        /\ pc = "show" => Within(task.now, Event.since)
        /\ pc = "save" => job.previous = row
        /\ pc = "tell" => \E r \in row : /\ r.snapshot = Json(task.now) /\ r.of = task.of
                                         /\ r.overtaken <=> Event.wait = "overtaken"
  BY <1>1 DEF JobInv
<1>3. (CHOOSE t \in job.task : TRUE) = task
  BY <1>2
<1>4. Current = task.now /\ Of = task.of
  BY <1>3 DEF Current, Of
<1>5. job.at \in 1 .. Len(queue) /\ Event.kind # "delete" /\ job.views \in Seq(Views)
  BY <1>1 DEF JobInv
<1>6. Event.wait # "overtaken" /\ QuietAfter(job.at) => Event.task = vik /\ Event.task.exists = TRUE
  BY <1>1, <1>5, EventIs
<1>7. Event.wait # "overtaken" /\ QuietAfter(job.at) => Of = FactsOf(vik) /\ vik.exists
  BY <1>2, <1>4, <1>6 DEF Fresh
<1>8. Of \in Facts
  BY <1>2, <1>4 DEF Made
<1> QED
  BY <1>2, <1>4, <1>5, <1>7, <1>8

LEMMA ShowCardKeeps ==
  ASSUME TextInv, ShowCard
  PROVE  TextInv'
<1>1. QueueInv /\ JobInv /\ RowsInv /\ CardInv /\ ToldInv /\ SettledInv /\ BudgetInv
  BY DEF TextInv
<1>2. /\ pc = "show" /\ pc' = "save" /\ job' = [job EXCEPT !.previous = row]
      /\ card' = [face |-> "live", lines |-> {Lines(Current, job.views)}, since |-> Event.since]
      /\ UNCHANGED <<queue, row, told, missed, faults, vik, hook, changes, edits>>
      /\ \A r \in row : ~r.deleted
  BY DEF ShowCard, Go, UnchangedWorld
<1>3. /\ Made(Current, Of) /\ job.at \in 1 .. Len(queue) /\ job.views \in Seq(Views)
      /\ Within(Current, Event.since)
  BY <1>2, HeldIs
<1>4. QueueInv' /\ \A k \in Nat : QuietAfter(k)' <=> QuietAfter(k)
  BY <1>1, <1>2, SameQueue
<1>5. JobInv'
  <2>1. PICK j : j = job'
    OBVIOUS
  <2>2. /\ j.at = job.at /\ DOMAIN j = {"at", "task", "views", "answers", "previous"} /\ j.views = job.views
        /\ j.answers = job.answers /\ j.task = job.task /\ j.previous = row
        /\ DOMAIN job.answers = Views
    BY <1>1, <1>2, <2>1 DEF JobInv
  <2>3. PICK task \in job.task :
          /\ job.task = {task} /\ Made(task.now, task.of) /\ InForm(task.now, "tuple")
          /\ Fresh(task.of) /\ (job.views = << >> => task.now.view_buckets = << >>)
    BY <1>1, <1>2 DEF JobInv
  <2>6. Event' = Event /\ job'.at = job.at
    BY <1>2, <2>1, <2>2 DEF Event
  <2>7. QuietAfter(job.at)' <=> QuietAfter(job.at)
    BY <1>2, <2>6 DEF QuietAfter
  <2>4. (Made(task.now, task.of) /\ InForm(task.now, "tuple") /\ Fresh(task.of))'
    BY <1>2, <2>3, <2>6, <2>7 DEF Made, InForm, Fresh, FactsOf
  <2>5. (job.at \in 1 .. Len(queue) /\ Event.kind # "delete")'
    BY <1>2, <2>6, HeldIs
  <2> QED
    BY <1>2, <1>3, <2>1, <2>2, <2>3, <2>4, <2>5 DEF JobInv
<1>6. RowsInv'
  BY <1>1, <1>2, SameRows
<1>7. CardInv'
  <2>1. Event.since \in SUBSET Buckets
    BY <1>1, <1>3, EventIs
  <2>2. PICK c, now, views, since :
          /\ c = card' /\ now = Current /\ views = job.views /\ since = Event.since
          /\ c = [face |-> "live", lines |-> {Lines(now, views)}, since |-> since]
          /\ Within(now, since)
    BY <1>2, <1>3
  <2>3. /\ c.face = "live" /\ c.lines = {Lines(now, views)} /\ c.since = since
        /\ DOMAIN c = {"face", "lines", "since"}
    BY <2>2
  <2>4. /\ Lines(now, views).bucket \in {Untitled} \cup {Bucket[b].title : b \in since}
        /\ \A n \in DOMAIN Lines(now, views).buckets : \E b \in since :
             /\ Bucket[b].view = Lines(now, views).buckets[n].view
             /\ Bucket[b].title = Lines(now, views).buckets[n].title
    BY <2>2 DEF Lines, Within
  <2>5. BucketsAreReal'
    BY <2>2, <2>3, <2>4 DEF BucketsAreReal
  <2>7. NoticeRepeatsCard'
    BY <1>2, <2>2, <2>3 DEF NoticeRepeatsCard
  <2> QED
    BY <1>2, <2>1, <2>2, <2>3, <2>5, <2>7 DEF CardInv
<1>8. ToldInv'
  BY <1>1, <1>2, SameTold
<1>9. SettledInv'
  BY <1>1, <1>2, <1>4, SameSettled
<1>10. BudgetInv'
  BY <1>1, <1>2, SameBudgets
<1> QED
  BY <1>4, <1>5, <1>6, <1>7, <1>8, <1>9, <1>10 DEF TextInv

LEMMA IgnoreEventKeeps ==
  ASSUME TextInv, IgnoreEvent
  PROVE  TextInv'
<1>1. QueueInv /\ JobInv /\ RowsInv /\ CardInv /\ ToldInv /\ SettledInv /\ BudgetInv
  BY DEF TextInv
<1>2. /\ pc = "show" /\ pc' = "idle" /\ job' = NoJob /\ queue' = Done /\ \E r \in row : r.deleted
      /\ UNCHANGED <<row, card, told, missed, faults, vik, hook, changes, edits>>
  BY DEF IgnoreEvent, Finish, UnchangedWorld
<1>3. job.at \in 1 .. Len(queue)
  BY <1>2, HeldIs
<1>4. QueueInv' /\ JobInv'
  BY <1>1, <1>2, <1>3, QueueAfterFinish, IdleJob
<1>5. RowsInv' /\ CardInv' /\ ToldInv' /\ BudgetInv'
  <2>1. RowsInv'
    BY <1>1, <1>2, SameRows
  <2>2. CardInv'
    BY <1>1, <1>2, SameCard
  <2>3. ToldInv'
    BY <1>1, <1>2, SameTold
  <2>4. BudgetInv'
    BY <1>1, <1>2, SameBudgets
  <2> QED
    BY <2>1, <2>2, <2>3, <2>4
<1>6. \A r \in row : r.deleted
  BY <1>1, <1>2 DEF RowsInv
<1>7. SettledInv'
  BY <1>2, <1>6 DEF SettledInv
<1> QED
  BY <1>4, <1>5, <1>7 DEF TextInv

LEMMA SavedRowIs ==
  ASSUME TextInv, pc = "save"
  PROVE  /\ RowInv(SavedRow) /\ SavedRow.snapshot = Json(Current) /\ SavedRow.of = Of
         /\ SavedRow.overtaken <=> Event.wait = "overtaken"
         /\ SavedRow.filtered = FALSE /\ SavedRow.deleted = FALSE
<1>1. /\ Made(Current, Of) /\ InForm(Current, "tuple") /\ job.views \in Seq(Views) /\ Of \in Facts
      /\ job.views = << >> => Current.view_buckets = << >>
  BY HeldIs
<1>10. /\ Made(Json(Current), Of) /\ InForm(Json(Current), "list") /\ AsShown(Json(Current)) = Current
       /\ Json(Current) \in Snapshots
  BY <1>1, JsonIs
<1>11. job.views = << >> => Json(Current).view_buckets = << >>
  <2>1. Current.view_buckets = << >> => Json(Current).view_buckets = << >>
    BY <1>1, JsonIs
  <2> QED
    BY <1>1, <2>1
<1>2. PICK s : /\ s = Json(Current) /\ (job.views = << >> => s.view_buckets = << >>)
               /\ Made(s, Of) /\ InForm(s, "list") /\ AsShown(s) = Current /\ s \in Snapshots
  BY <1>10, <1>11
<1>3. PICK r : r = SavedRow
  OBVIOUS
<1>8. PICK late \in BOOLEAN : late <=> Event.wait = "overtaken"
  OBVIOUS
<1>9. late = (Event.wait = "overtaken")
  BY <1>8
<1>4. r = [snapshot |-> s, of |-> Of, views |-> job.views,
           shown |-> Lines(AsShown(s), job.views), overtaken |-> late,
           filtered |-> FALSE, deleted |-> FALSE]
  BY <1>2, <1>3, <1>9 DEF SavedRow
<1>5. /\ r.overtaken = late
      /\ r.snapshot = s /\ r.of = Of /\ r.views = job.views /\ r.filtered = FALSE /\ r.deleted = FALSE
  BY <1>4
<1>6. r \in [snapshot : Snapshots, of : Facts, views : Seq(Views),
             shown : {Lines(AsShown(s), job.views)},
             overtaken : BOOLEAN, filtered : BOOLEAN, deleted : BOOLEAN]
  BY <1>1, <1>2, <1>4, <1>8
<1>7. RowInv(r)
  BY <1>2, <1>5, <1>6 DEF RowInv
<1> QED
  BY <1>2, <1>3, <1>5, <1>7, <1>8

LEMMA KnowledgeStored ==
  ASSUME NEW s, NEW of, Made(s, of), InForm(s, "tuple")
  PROVE  Knowledge(of, Json(s)) = Knowledge(of, s)
<1>1. /\ AsTuples(Json(s).view_buckets) = s.view_buckets /\ AsTuples(s.view_buckets) = s.view_buckets
      /\ Json(s).bucket = s.bucket
  BY JsonIs
<1> QED
  BY <1>1 DEF Knowledge

LEMMA SaveKeeps ==
  ASSUME TextInv, Save
  PROVE  TextInv'
<1>1. QueueInv /\ JobInv /\ RowsInv /\ CardInv /\ ToldInv /\ SettledInv /\ BudgetInv
  BY DEF TextInv
<1>2. /\ pc = "save" /\ row' = {SavedRow}
      /\ UNCHANGED <<card, missed, faults, vik, hook, changes, edits>>
  BY DEF Save, UnchangedWorld
<1>3. /\ Made(Current, Of) /\ InForm(Current, "tuple") /\ Of \in Facts
      /\ job.at \in 1 .. Len(queue) /\ Event.kind # "delete" /\ job.views \in Seq(Views)
      /\ Event.wait # "overtaken" /\ QuietAfter(job.at) => Of = FactsOf(vik) /\ vik.exists
      /\ job.previous = row
  BY <1>2, HeldIs
<1>4. PICK r : /\ r = SavedRow /\ row' = {r} /\ RowInv(r)
               /\ (r.overtaken <=> Event.wait = "overtaken")
               /\ r.snapshot = Json(Current) /\ r.of = Of /\ r.filtered = FALSE /\ r.deleted = FALSE
  BY <1>2, SavedRowIs
<1>5. card.face = "live"
  BY <1>1, <1>2 DEF CardInv
<1>6. CardInv'
  <2>1. BucketsAreReal' /\ NoticeRepeatsCard'
    BY <1>1, <1>2, <1>4, <1>5 DEF CardInv, BucketsAreReal, NoticeRepeatsCard
  <2> QED
    BY <1>1, <1>2, <1>5, <2>1 DEF CardInv
<1>7. CASE job.previous = {}
  <2>1. /\ told' = {Knowledge(Of, Current)}
        /\ pc' = "idle" /\ job' = NoJob /\ queue' = Done
    BY <1>7 DEF Save, Finish
  <2>2. QueueInv' /\ (QuietAfter(0)' => QuietAfter(job.at)) /\ JobInv'
    BY <1>1, <1>2, <1>3, <2>1, QueueAfterFinish, IdleJob
  <2>3. RowsInv'
    BY <1>4, <2>1 DEF RowsInv, RowInv
  <2>4. ToldInv'
    <3>1. Knowledge(r.of, r.snapshot) = Knowledge(Of, Current)
      BY <1>3, <1>4, KnowledgeStored
    <3>2. PICK known : known = Knowledge(Of, Current)
      OBVIOUS
    <3>3. Unknown(known, r) = {}
      BY <3>1, <3>2 DEF Unknown
    <3>4. told' = {known} /\ missed \subseteq Fields
      BY <1>1, <2>1, <3>2 DEF ToldInv
    <3> QED
      BY <1>2, <1>4, <2>1, <3>3, <3>4 DEF ToldInv, Unknown
  <2>5. SettledInv'
    BY <1>2, <1>3, <1>4, <2>2 DEF SettledInv, FactsOf
  <2>6. BudgetInv'
    BY <1>1, <1>2, <2>1, SameBudgets
  <2> QED
    BY <1>6, <2>2, <2>3, <2>4, <2>5, <2>6 DEF TextInv
<1>8. CASE job.previous # {}
  <2>1. pc' = "tell" /\ UNCHANGED <<told, job, queue>>
    BY <1>8 DEF Save, Go
  <2>2. QueueInv' /\ \A k \in Nat : QuietAfter(k)' <=> QuietAfter(k)
    BY <1>1, <1>2, <2>1, SameQueue
  <2>3. JobInv'
    <3>1. PICK task \in job.task :
            /\ job.task = {task} /\ Made(task.now, task.of) /\ InForm(task.now, "tuple")
            /\ Fresh(task.of) /\ (job.views = << >> => task.now.view_buckets = << >>)
      BY <1>1, <1>2 DEF JobInv
    <3>2. Current = task.now /\ Of = task.of
      <4>1. (CHOOSE t \in job.task : TRUE) = task
        BY <3>1
      <4> QED
        BY <4>1 DEF Current, Of
    <3>6. Event' = Event /\ (QuietAfter(job.at)' <=> QuietAfter(job.at))
      BY <2>1 DEF Event, QuietAfter
    <3>3. (Made(task.now, task.of) /\ InForm(task.now, "tuple") /\ Fresh(task.of))'
      BY <1>2, <3>1, <3>6 DEF Made, InForm, Fresh, FactsOf
    <3>4. (\E x \in row : /\ x.snapshot = Json(task.now) /\ x.of = task.of
                          /\ x.overtaken <=> Event.wait = "overtaken")'
      BY <1>4, <3>2, <3>6 DEF Json
    <3>5. (job.at \in 1 .. Len(queue) /\ Event.kind # "delete")'
      BY <1>3, <2>1, <3>6
    <3> QED
      BY <1>1, <2>1, <3>1, <3>3, <3>4, <3>5 DEF JobInv
  <2>4. RowsInv'
    <3>1. row # {} /\ \E x \in row : row = {x} /\ RowInv(x)
      BY <1>1, <1>3, <1>8 DEF RowsInv
    <3> QED
      BY <1>3, <1>4, <2>1, <3>1 DEF RowsInv, RowInv
  <2>5. ToldInv'
    BY <1>1, <1>2, <1>3, <2>1 DEF ToldInv, Unknown
  <2>6. SettledInv'
    <3>1. QuietAfter(0) => QuietAfter(job.at)
      <4>1. \A m \in job.at + 1 .. Len(queue) : m \in 0 + 1 .. Len(queue)
        BY <1>1, <1>3, QueueIs
      <4> QED
        BY <4>1 DEF QuietAfter
    <3> QED
      BY <1>2, <1>3, <1>4, <2>2, <3>1 DEF SettledInv, FactsOf
  <2>7. BudgetInv'
    BY <1>1, <1>2, <2>1, SameBudgets
  <2> QED
    BY <1>6, <2>2, <2>3, <2>4, <2>5, <2>6, <2>7 DEF TextInv
<1> QED
  BY <1>7, <1>8

(* When the reply is due: the mapping is of the snapshot just shown, and   *)
(* what a reader knows is compared with the one before.                    *)
LEMMA ReplyIs ==
  ASSUME TextInv, pc = "tell"
  PROVE  /\ RowInv(Previous) /\ job.previous = {Previous}
         /\ \A r \in row : /\ row = {r} /\ r.of = Of
                           /\ r.overtaken <=> Event.wait = "overtaken"
                           /\ Knowledge(r.of, r.snapshot) = Knowledge(Of, Current)
         /\ \A known \in told : Unknown(known, Previous) \subseteq missed
<1>1. RowsInv /\ ToldInv
  BY DEF TextInv
<1>2. PICK p \in job.previous : job.previous = {p} /\ RowInv(p)
  BY <1>1 DEF RowsInv
<1>3. (CHOOSE r \in job.previous : TRUE) = p
  BY <1>2
<1>4. Previous = p
  BY <1>3 DEF Previous
<1>5. /\ Made(Current, Of) /\ InForm(Current, "tuple")
      /\ \E r \in row : /\ r.snapshot = Json(Current) /\ r.of = Of
                        /\ r.overtaken <=> Event.wait = "overtaken"
  BY HeldIs
<1>6. PICK r \in row : /\ r.snapshot = Json(Current) /\ r.of = Of
                       /\ r.overtaken <=> Event.wait = "overtaken"
  BY <1>5
<1>7. row = {r}
  BY <1>1, <1>6 DEF RowsInv
<1>8. Knowledge(r.of, r.snapshot) = Knowledge(Of, Current)
  BY <1>5, <1>6, KnowledgeStored
<1>9. \A known \in told : Unknown(known, p) \subseteq missed
  BY <1>1, <1>2 DEF ToldInv
<1> QED
  BY <1>2, <1>4, <1>6, <1>7, <1>8, <1>9

LEMMA TellKeeps ==
  ASSUME TextInv, Tell
  PROVE  TextInv'
<1>1. QueueInv /\ JobInv /\ RowsInv /\ CardInv /\ ToldInv /\ SettledInv /\ BudgetInv
  BY DEF TextInv
<1>2. /\ pc = "tell" /\ pc' = "idle" /\ job' = NoJob /\ queue' = Done
      /\ told' = {[f \in Fields |-> IF f \in Named THEN Knowledge(Of, Current)[f]
                                    ELSE known[f]] : known \in told}
      /\ missed' = IF Event.kind = "update" THEN missed \ Named ELSE missed \cup Changed
      /\ UNCHANGED <<row, card, faults, vik, hook, changes, edits>>
  BY DEF Tell, Finish, UnchangedWorld
<1>3. /\ Made(Current, Of) /\ job.at \in 1 .. Len(queue) /\ Event.kind # "delete"
      /\ Event.wait # "overtaken" /\ QuietAfter(job.at) => Of = FactsOf(vik) /\ vik.exists
  BY <1>2, HeldIs
<1>4. /\ RowInv(Previous)
      /\ \A r \in row : /\ row = {r} /\ r.of = Of
                        /\ r.overtaken <=> Event.wait = "overtaken"
                        /\ Knowledge(r.of, r.snapshot) = Knowledge(Of, Current)
      /\ \A known \in told : Unknown(known, Previous) \subseteq missed
  BY <1>2, ReplyIs
<1>5. QueueInv' /\ (QuietAfter(0)' => QuietAfter(job.at)) /\ JobInv'
  BY <1>1, <1>2, <1>3, QueueAfterFinish, IdleJob
<1>6. RowsInv' /\ CardInv' /\ BudgetInv'
  BY <1>1, <1>2, SameRows, SameCard, SameBudgets
<1>7. SettledInv'
  BY <1>2, <1>3, <1>4, <1>5 DEF SettledInv, FactsOf
<1>8. PICK now, was : now = Knowledge(Of, Current) /\ was = Knowledge(Previous.of, Previous.snapshot)
  OBVIOUS
<1>9. \A f \in Fields : f \notin Changed <=> was[f] = now[f]
  BY <1>8 DEF Changed
<1>10. \A f \in Fields : Event.kind = "update" /\ f \notin Named => was[f] = now[f]
  <2> SUFFICES ASSUME NEW f \in Fields, Event.kind = "update", f \notin Named
               PROVE  was[f] = now[f]
    OBVIOUS
  <2>1. Previous.snapshot[f] = Current[f]
    BY DEF Named, ChangeSummary, SummaryFields
  <2>2. Made(Previous.snapshot, Previous.of)
    BY <1>4 DEF RowInv
  <2> QED
    BY <1>3, <1>8, <2>1, <2>2, SameToReader
<1>11. ASSUME NEW said \in told', NEW f \in Fields, said[f] # now[f]
       PROVE  f \in missed'
  <2>1. PICK known \in told :
          said = [g \in Fields |-> IF g \in Named THEN Knowledge(Of, Current)[g] ELSE known[g]]
    BY <1>2
  <2>2. f \notin Named /\ known[f] # now[f]
    BY <1>8, <1>11, <2>1
  <2>3. was[f] = now[f] => f \in missed
    BY <1>4, <1>8, <2>2 DEF Unknown
  <2>4. CASE Event.kind = "update"
    BY <1>2, <1>10, <2>2, <2>3, <2>4
  <2>5. CASE Event.kind # "update"
    BY <1>2, <1>9, <2>3, <2>5
  <2> QED
    BY <2>4, <2>5
<1>12. missed' \subseteq Fields
  BY <1>1, <1>2 DEF ToldInv, Changed
<1>13. ToldInv'
  <2>1. PICK skipped, says, rows :
          skipped = missed' /\ says = told' /\ rows = row /\ rows = row' /\ skipped \subseteq Fields
    BY <1>2, <1>12
  <2>2. \A known \in says : \A r \in rows : Unknown(known, r) \subseteq skipped
    BY <1>4, <1>8, <1>11, <2>1 DEF Unknown
  <2> QED
    BY <1>2, <2>1, <2>2 DEF ToldInv, Unknown
<1> QED
  BY <1>5, <1>6, <1>7, <1>13 DEF TextInv

LEMMA TellDeletedKeeps ==
  ASSUME TextInv, TellDeleted
  PROVE  TextInv'
<1>1. QueueInv /\ JobInv /\ RowsInv /\ CardInv /\ ToldInv /\ SettledInv /\ BudgetInv
  BY DEF TextInv
<1>2. /\ pc = "deletion" /\ pc' = "idle" /\ job' = NoJob /\ queue' = Done
      /\ UNCHANGED <<told, missed, faults, vik, hook, changes, edits>>
  BY DEF TellDeleted, Finish, UnchangedWorld
<1>3. job.at \in 1 .. Len(queue)
  BY <1>1, <1>2 DEF JobInv
<1>4. QueueInv' /\ JobInv'
  BY <1>1, <1>2, <1>3, QueueAfterFinish, IdleJob
<1>6. BudgetInv'
  BY <1>1, <1>2, SameBudgets
<1>7. CASE row = {} \/ \E r \in row : row = {r} /\ r.deleted
  <2>1. UNCHANGED <<row, card>>
    BY <1>7 DEF TellDeleted
  <2>2. RowsInv' /\ CardInv' /\ ToldInv'
    BY <1>1, <1>2, <2>1, SameRows, SameCard, SameTold
  <2>3. SettledInv'
    BY <1>7, <2>1 DEF SettledInv
  <2> QED
    BY <1>4, <1>6, <2>2, <2>3 DEF TextInv
<1>8. CASE \E r \in row : row = {r} /\ RowInv(r) /\ ~r.deleted
  <2>1. PICK r \in row : row = {r} /\ RowInv(r) /\ ~r.deleted
    BY <1>8
  <2>2. /\ card' = [card EXCEPT !.face = "deleted",
                      !.lines = {Heading(TaskSnapshot(AsTask(r.snapshot), << >>))}]
        /\ row' = {[r EXCEPT !.deleted = TRUE]}
    BY <2>1 DEF TellDeleted
  <2>3. PICK s, now : /\ s = r.snapshot /\ now = TaskSnapshot(AsTask(s), << >>)
                      /\ Made(s, r.of) /\ now.title = s.title /\ now.identifier = s.identifier
    BY <2>1, NoticeIs DEF RowInv
  <2>4. PICK out : out = [r EXCEPT !.deleted = TRUE]
    OBVIOUS
  <2>5. /\ row' = {out} /\ out.snapshot = s /\ out.of = r.of /\ out.shown = r.shown
        /\ out.deleted = TRUE
    BY <2>1, <2>2, <2>3, <2>4 DEF RowInv
  <2>6. RowInv(out)
    BY <2>1, <2>3, <2>4, <2>5 DEF RowInv
  <2>7. RowsInv'
    BY <1>2, <2>5, <2>6 DEF RowsInv, RowInv
  <2>8. r.shown.heading = Heading(now)
    <3>1. r.shown = Lines(AsShown(s), r.views)
      BY <2>1, <2>3 DEF RowInv
    <3>2. AsShown(s).title = s.title /\ AsShown(s).identifier = s.identifier
      BY <2>3 DEF AsShown, Made, Snapshots
    <3> QED
      BY <2>3, <3>1, <3>2 DEF Lines, Heading
  <2>9. PICK c : c = card'
    OBVIOUS
  <2>10. /\ c = card' /\ c.face = "deleted" /\ c.lines = {Heading(now)}
         /\ c.since = card.since /\ DOMAIN c = {"face", "lines", "since"}
    BY <1>1, <2>2, <2>3, <2>9 DEF CardInv
  <2>11. BucketsAreReal' /\ NoticeRepeatsCard'
    BY <2>5, <2>8, <2>10 DEF BucketsAreReal, NoticeRepeatsCard
  <2>12. CardInv'
    BY <1>1, <1>2, <2>10, <2>11 DEF CardInv
  <2>13. ToldInv'
    BY <1>1, <1>2, <2>1, <2>3, <2>5 DEF ToldInv, Unknown
  <2>14. SettledInv'
    BY <2>5 DEF SettledInv
  <2> QED
    BY <1>4, <1>6, <2>7, <2>12, <2>13, <2>14 DEF TextInv
<1> QED
  BY <1>1, <1>7, <1>8 DEF RowsInv

LEMMA FailKeeps ==
  ASSUME TextInv, Fail
  PROVE  TextInv'
<1>1. QueueInv /\ JobInv /\ RowsInv /\ CardInv /\ ToldInv /\ SettledInv /\ BudgetInv
  BY DEF TextInv
<1>2. /\ pc \in {"show", "save", "tell", "deletion"} /\ pc' = "idle" /\ job' = NoJob
      /\ faults > 0 /\ faults' = faults - 1 /\ Retry
      /\ UNCHANGED <<row, card, told, vik, hook, changes, edits>>
  BY DEF Fail, Retry, UnchangedWorld
<1>3. CASE pc # "tell"
  <2>1. missed' = missed
    BY <1>3 DEF Fail
  <2> QED
    BY <1>2, <1>3, <2>1, StopKeeps
<1>4. CASE pc = "tell"
  <2>1. missed' = missed \cup Changed
    BY <1>4 DEF Fail
  <2>2. QueueInv' /\ (QuietAfter(0)' => QuietAfter(0))
    <3>1. job.at \in 1 .. Len(queue)
      BY <1>1, <1>4 DEF JobInv
    <3> QED
      BY <1>1, <1>2, <3>1, QueueAfterRetry
  <2>3. JobInv' /\ BudgetInv'
    BY <1>1, <1>2, IdleJob, SameBudgets
  <2>4. RowsInv' /\ CardInv'
    BY <1>1, <1>2, SameRows, SameCard
  <2>5. SettledInv'
    BY <1>1, <1>2, <2>2, SameSettled
  <2>6. /\ \A r \in row : Knowledge(r.of, r.snapshot) = Knowledge(Of, Current)
        /\ \A known \in told : Unknown(known, Previous) \subseteq missed
    BY <1>4, ReplyIs
  <2>7. PICK skipped, says, rows, now, was :
          /\ skipped = missed' /\ says = told /\ says = told' /\ rows = row /\ rows = row'
          /\ now = Knowledge(Of, Current) /\ was = Knowledge(Previous.of, Previous.snapshot)
    BY <1>2
  <2>8. \A f \in Fields : f \in Changed <=> was[f] # now[f]
    BY <2>7 DEF Changed
  <2>9. \A known \in says : \A r \in rows : Unknown(known, r) \subseteq skipped
    BY <2>1, <2>6, <2>7, <2>8 DEF Unknown
  <2>10. skipped \subseteq Fields
    BY <1>1, <2>1, <2>7 DEF ToldInv, Changed
  <2>11. ToldInv'
    BY <1>2, <2>7, <2>9, <2>10 DEF ToldInv, Unknown
  <2> QED
    BY <2>2, <2>3, <2>4, <2>5, <2>11 DEF TextInv
<1> QED
  BY <1>3, <1>4

-----------------------------------------------------------------------------
(* The invariant, and what follows from it. *)
LEMMA TextInit ==
  ASSUME Init
  PROVE  TextInv
<1>1. /\ queue = << >> /\ hook \in HookModes /\ row = {} /\ card = NoCard /\ told = {}
      /\ missed = {} /\ pc = "idle" /\ job = NoJob
      /\ faults = MaxFaults /\ changes = MaxChanges /\ edits = MaxEdits
  BY DEF Init
<1>2. vik \in Tasks
  <2>1. PICK facts \in Facts, at \in Positions :
          vik = [title |-> facts.title, identifier |-> facts.identifier,
                 due_date |-> facts.due_date, labels |-> facts.labels, at |-> at, exists |-> TRUE]
    BY DEF Init, Task
  <2>2. /\ facts.title \in Titles /\ facts.identifier \in Idents
        /\ facts.due_date \in Dues \cup {Unset} /\ facts.labels \in LabelSets
    BY DEF Facts
  <2> QED
    BY <2>1, <2>2 DEF Tasks
<1>3. QueueInv
  BY <1>1, <1>2 DEF QueueInv
<1>4. JobInv
  <2>1. /\ NoJob.views = << >> /\ NoJob.answers = [v \in Views |-> Unasked]
        /\ DOMAIN NoJob = {"at", "task", "views", "answers", "previous"}
    BY DEF NoJob
  <2>2. DOMAIN NoJob.answers = Views /\ NoJob.views \in Seq(Views)
    BY <2>1
  <2> QED
    BY <1>1, <2>1, <2>2 DEF JobInv
<1>5. RowsInv
  BY <1>1 DEF RowsInv
<1>6. CardInv
  BY <1>1 DEF CardInv, NoCard, BucketsAreReal, NoticeRepeatsCard
<1>7. ToldInv
  BY <1>1 DEF ToldInv
<1>8. SettledInv
  BY <1>1 DEF SettledInv
<1>9. BudgetInv
  BY <1>1, TextConstants DEF BudgetInv
<1> QED
  BY <1>3, <1>4, <1>5, <1>6, <1>7, <1>8, <1>9 DEF TextInv

LEMMA TextStutter ==
  ASSUME TextInv, UNCHANGED vars
  PROVE  TextInv'
<1>1. QueueInv /\ JobInv /\ RowsInv /\ CardInv /\ ToldInv /\ SettledInv /\ BudgetInv
  BY DEF TextInv
<1>2. UNCHANGED <<vik, queue, hook, row, card, told, missed, pc, job, faults, changes, edits>>
  BY DEF vars, budgetVars
<1>3. QueueInv' /\ \A k \in Nat : QuietAfter(k)' <=> QuietAfter(k)
  BY <1>1, <1>2, SameQueue
<1>4. JobInv'
  BY <1>1, <1>2, <1>3 DEF JobInv, Heard, Fresh, FactsOf, Event, Made, InForm, Within, Says
<1>5. RowsInv'
  BY <1>1, <1>2 DEF RowsInv, RowInv
<1>6. CardInv'
  BY <1>1, <1>2, SameCard DEF CardInv
<1>7. ToldInv'
  BY <1>1, <1>2, SameTold
<1>8. SettledInv'
  BY <1>1, <1>2, <1>3, SameSettled
<1>9. BudgetInv'
  BY <1>1, <1>2 DEF BudgetInv
<1> QED
  BY <1>3, <1>4, <1>5, <1>6, <1>7, <1>8, <1>9 DEF TextInv

LEMMA TextStep ==
  ASSUME TextInv, [Next]_vars
  PROVE  TextInv'
<1>1. CASE Create \/ Change \/ Comment \/ Delete
  BY <1>1, VikunjaKeeps
<1>2. CASE EditHook
  BY <1>2, EditHookKeeps
<1>3. CASE Start
  BY <1>3, StartKeeps
<1>4. CASE ReadTask
  BY <1>4, ReadTaskKeeps
<1>5. CASE \E v \in Views : AskView(v)
  BY <1>5, AskViewKeeps
<1>6. CASE DecideVisibility
  BY <1>6, DecideVisibilityKeeps
<1>7. CASE ShowCard
  BY <1>7, ShowCardKeeps
<1>8. CASE Save
  BY <1>8, SaveKeeps
<1>9. CASE Tell
  BY <1>9, TellKeeps
<1>10. CASE TellDeleted
  BY <1>10, TellDeletedKeeps
<1>11. CASE Fail
  BY <1>11, FailKeeps
<1>12. CASE IgnoreEvent
  BY <1>12, IgnoreEventKeeps
<1>13. CASE UNCHANGED vars
  BY <1>13, TextStutter
<1> QED
  BY <1>1, <1>2, <1>3, <1>4, <1>5, <1>6, <1>7, <1>8, <1>9, <1>10, <1>11, <1>12, <1>13 DEF Next

(* The strengthening that all of the theorems below rest on holds of every *)
(* state: what is held, stored, shown and known is of the task as it was   *)
(* at the event or later.                                                  *)
THEOREM TextInvariant == Spec => []TextInv
<1>1. Init => TextInv
  BY TextInit
<1>2. TextInv /\ [Next]_vars => TextInv'
  BY TextStep
<1> QED
  BY <1>1, <1>2, PTL DEF Spec

(* Every variable keeps to what the code may have in it, task_messages to  *)
(* snapshots of the form task_text.py:12-28 makes.                         *)
THEOREM TextTypeCorrect == Spec => []TypeOK
<1>1. TextInv => TypeOK
  <2> SUFFICES ASSUME TextInv PROVE TypeOK
    OBVIOUS
  <2>1. QueueInv /\ RowsInv /\ CardInv /\ ToldInv /\ BudgetInv
    BY DEF TextInv
  <2>2. vik.at \in Positions /\ FactsOf(vik) \in Facts /\ vik.exists \in BOOLEAN
    BY <2>1 DEF QueueInv, Tasks, FactsOf, Facts
  <2>3. \A n \in DOMAIN queue : /\ queue[n].kind \in {"created", "update", "comment", "delete"}
                               /\ queue[n].wait \in {"new", "backoff", "overtaken"}
    <3> TAKE n \in DOMAIN queue
    <3>1. queue[n] \in Events
      BY <2>1, QueueIs
    <3> QED
      BY <3>1 DEF Events
  <2>4. \A r \in row : r.snapshot \in Snapshots /\ r.of \in Facts
    BY <2>1 DEF RowsInv, RowInv, Made
  <2>5. missed \subseteq Fields
    BY <2>1 DEF ToldInv
  <2>6. card.face \in {"none", "live", "filtered", "deleted"} /\ card.since \subseteq Buckets
    BY <2>1 DEF CardInv
  <2> QED
    BY <2>1, <2>2, <2>3, <2>4, <2>5, <2>6 DEF TypeOK, BudgetInv
<1> QED
  BY <1>1, TextInvariant, PTL

(* No bucket on a card is one of another view or one the task left before  *)
(* the event, though the card is put together from the event, from reads   *)
(* and from the answers of several views (event_worker.py:343-379,         *)
(* task_text.py:150-201).                                                  *)
THEOREM CardsShowRealBuckets == Spec => []BucketsAreReal
<1>1. TextInv => BucketsAreReal
  BY DEF TextInv, CardInv
<1> QED
  BY <1>1, TextInvariant, PTL

(* A reply names the due date or the labels only if they are not in        *)
(* Vikunja what they were when the mapping was last saved: neither Go's    *)
(* zero time, nor the order of the labels, nor the way of the former       *)
(* snapshot through JSON is taken for a change (task_text.py:12-24,        *)
(* 142-144, 229-232).                                                      *)
THEOREM RepliesRaiseNoFalseAlarm == Spec => []NoFalseAlarm
<1>1. TextInv => NoFalseAlarm
  <2> SUFFICES ASSUME TextInv, pc = "tell", NEW f \in Named \cap {"due_date", "labels"}
               PROVE  Previous.of[f] # Of[f]
    BY DEF NoFalseAlarm
  <2>1. Made(Current, Of)
    BY HeldIs
  <2>2. Made(Previous.snapshot, Previous.of)
    BY ReplyIs DEF RowInv
  <2>3. Previous.snapshot[f] # Current[f]
    BY DEF Named, ChangeSummary
  <2> QED
    BY <2>1, <2>2, <2>3, NoAlarm
<1> QED
  BY <1>1, TextInvariant, PTL

(* Of every field but the identifier: when the card no longer says what it *)
(* said when it was sent or the field was last named, a reply has named    *)
(* it, unless that reply failed or was about a comment                     *)
(* (event_worker.py:249-281, task_text.py:121-147).                        *)
THEOREM RepliesNameWhatChanged == Spec => []RepliesNameChanges
<1>1. TextInv => RepliesNameChanges
  <2> SUFFICES ASSUME TextInv, pc = "idle", NEW r \in row, NEW known \in told, NEW f \in Fields,
                      known[f] # Knowledge(r.of, r.snapshot)[f]
               PROVE  f \in missed
    BY DEF RepliesNameChanges
  <2>1. Unknown(known, r) \subseteq missed
    BY DEF TextInv, ToldInv
  <2> QED
    BY <2>1 DEF Unknown
<1> QED
  BY <1>1, TextInvariant, PTL

(* Once every event is dealt with, a card that can be acted on is of a     *)
(* task that exists and shows it as it is, whatever reads failed, however  *)
(* far apart the views were asked and whatever deliveries backed off,      *)
(* unless it was saved for an event that a later one had overtaken         *)
(* (event_worker.py:41-66, 91-97, 117-126).                                *)
THEOREM CardsAreCurrent == Spec => []CardIsCurrent
<1>1. TextInv => CardIsCurrent
  <2> SUFFICES ASSUME TextInv, queue = << >>, NEW r \in row,
                      ~r.deleted, ~r.filtered, ~r.overtaken
               PROVE  vik.exists /\ r.of = FactsOf(vik)
    BY DEF CardIsCurrent
  <2>1. QuietAfter(0)
    BY DEF QuietAfter
  <2> QED
    BY <2>1 DEF TextInv, SettledInv
<1> QED
  BY <1>1, TextInvariant, PTL

(* The notice on a filtered card says what the card said, whatever views   *)
(* were selected when it was saved and have been since, but leaves out the *)
(* bucket of the task, and that of a deleted task repeats its heading      *)
(* (task_text.py:47-56, 65-93, 178-190).                                   *)
THEOREM NoticesRepeatTheCard == Spec => []NoticeRepeatsCard
<1>1. TextInv => NoticeRepeatsCard
  BY DEF TextInv, CardInv
<1> QED
  BY <1>1, TextInvariant, PTL
=============================================================================
