------------------------------ MODULE CardText ------------------------------
(***************************************************************************)
(* What a card says (task_text.py) and where the task object it is made of *)
(* comes from (EventEnricher and the two merges in event_worker.py): the   *)
(* webhook's own object, a fresh read with the service account, or one     *)
(* answer per selected view.  The snapshot of what was shown is stored as  *)
(* JSON and read back, to summarise the next change below the card and to  *)
(* write the notice that replaces the card.                                *)
(*                                                                         *)
(* One worker delivers the events of one task to a group that wants        *)
(* comment updates, and there is a service account.  A delivery that fails *)
(* backs off, and later events are claimed before it, as in WorkQueue;     *)
(* what else may happen to a delivery is TaskDelivery's.                   *)
(* title stands for every field that is compared as it is (also done),     *)
(* labels for the sorted ones (also assignees).  The identifier is shown   *)
(* beside the title, and no reply names it.                                *)
(***************************************************************************)
EXTENDS Naturals, Sequences, FiniteSets, SequencesExt

CONSTANTS
  Titles,       \* titles of the task
  Idents,       \* its identifiers: the number it has in its project
  Dues,         \* due dates
  Unset,        \* no due date: the field is empty
  ZeroTime,     \* no due date: Go's zero time, 0001-01-01
  LabelSets,    \* sets of labels, as numbers in the order of their names
  Views,        \* the project's views
  Bucket,       \* the buckets: [view, title], the title "" if it has none
  HookModes,    \* selections of views and whether delivery is filtered
  MaxChanges,   \* bound: events
  MaxFaults,    \* bound: failed calls
  MaxEdits      \* bound: times the owner selects other views

Buckets == DOMAIN Bucket
NoBucket == "none"
Untitled == ""

ASSUME TextConstants ==
  /\ \A labels \in LabelSets : labels \subseteq Nat /\ IsFiniteSet(labels)
  /\ Unset \notin Dues /\ ZeroTime \notin Dues /\ NoBucket \notin Buckets
  /\ IsFiniteSet(Buckets) /\ \A b \in Buckets : Bucket[b].view \in Views
  /\ HookModes \subseteq [views : Seq(Views), filters : BOOLEAN]
  /\ \A mode \in HookModes : mode.filters => mode.views # << >>
  /\ MaxChanges \in Nat /\ MaxFaults \in Nat /\ MaxEdits \in Nat

VARIABLES
  vik,       \* the task as Vikunja has it
  queue,     \* the events still to be delivered, the oldest first
  hook,      \* the hook: selected views, and whether they filter
  row,       \* task_messages: the mapping of the task, if there is one
  card,      \* the card in Telegram
  told,      \* of each field, what the card said when it was sent or a reply last named it
  missed,    \* fields whose last change no reply could name, by a fault or a comment
  pc, job,   \* where the delivery is, and what it remembers
  faults, changes, edits   \* budgets left

budgetVars == <<faults, changes, edits>>
vars == <<vik, queue, hook, row, card, told, missed, pc, job, budgetVars>>

-----------------------------------------------------------------------------
(* Facts are what holds in Vikunja; the same facts have several objects.   *)
Facts == [title : Titles, identifier : Idents, due_date : Dues \cup {Unset}, labels : LabelSets]
Positions == {S \in SUBSET Buckets :
                \A b, c \in S : Bucket[b].view = Bucket[c].view => b = c}
FactsOf(t) == [title |-> t.title, identifier |-> t.identifier, due_date |-> t.due_date,
               labels |-> t.labels]
Task(facts, at, exists) ==
  [title |-> facts.title, identifier |-> facts.identifier, due_date |-> facts.due_date,
   labels |-> facts.labels, at |-> at, exists |-> exists]

(* A task object.  bucket and view_buckets are sets of at most one value:  *)
(* Vikunja leaves them out, a stored snapshot has both.  of: its facts.    *)
Objects(t, ids, parts) ==
  {[title |-> t.title, identifier |-> t.identifier, due_date |-> t.due_date,
    bucket |-> {}, bucket_id |-> id, view_buckets |-> {},
    labels |-> SetToSeq(t.labels), buckets |-> SetToSeq(part), of |-> FactsOf(t)] :
     id \in {NoBucket} \cup ids, part \in parts}

(* It comes in two forms: of no due date, and of the order of the labels.  *)
(* That of the buckets makes no difference: each is of another view.       *)
Forms(obj) ==
  {obj, [obj EXCEPT !.due_date = IF @ = Unset THEN ZeroTime ELSE @, !.labels = Reverse(@)]}

(* bucket_id may be 0 (NoBucket).  A webhook's object may leave the buckets*)
(* out; a read expands them.  A view's answer has the bucket_id of the     *)
(* view and the buckets of that view or of every one; which form it has is *)
(* left open until it is taken.                                            *)
InView(at, v) == {b \in at : Bucket[b].view = v}
WebhookObjects(t) == UNION {Forms(obj) : obj \in Objects(t, t.at, {{}, t.at})}
ReadObjects(t) == UNION {Forms(obj) : obj \in Objects(t, t.at, {t.at})}
ViewObjects(t, v) == Objects(t, InView(t.at, v), {t.at, InView(t.at, v)})

(* What is shown of a view: tuples in memory, lists once read from JSON.   *)
Pairs == [view : Views, title : {Bucket[b].title : b \in Buckets}, form : {"tuple", "list"}]

(* The fields that replies are to name. *)
Fields == {"title", "due_date", "bucket", "view_buckets", "labels"}

-----------------------------------------------------------------------------
(* The numbers of a set in order, and what is at those places of a sequence. *)
InOrder(S) ==
  CHOOSE s \in [1 .. Cardinality(S) -> S] : \A m, n \in DOMAIN s : m < n => s[m] < s[n]
Picked(seq, places) == [n \in DOMAIN InOrder(places) |-> seq[InOrder(places)[n]]]

(* task_snapshot *)
AnyDate(due) == due    \* mutant: Go's zero time is taken for a date

DueDate(due) == IF due = ZeroTime THEN Unset ELSE due

BucketName(obj) ==
  IF obj.bucket # {} THEN CHOOSE title \in obj.bucket : TRUE
  ELSE IF obj.bucket_id \in ToSet(obj.buckets) THEN Bucket[obj.bucket_id].title
  ELSE IF Len(obj.buckets) = 1 THEN Bucket[obj.buckets[1]].title
  ELSE Untitled

AsTuples(pairs) == [n \in DOMAIN pairs |-> [pairs[n] EXCEPT !.form = "tuple"]]

FirstTitle(v, buckets) ==    \* mutant: any view's bucket
  IF buckets = << >> THEN Untitled ELSE Bucket[buckets[1]].title

(* The dict comprehension: of two buckets of one view the last one counts. *)
TitleIn(v, buckets) ==
  LET own == {n \in DOMAIN buckets : Bucket[buckets[n]].view = v}
  IN  IF own = {} THEN Untitled ELSE Bucket[buckets[Max(own)]].title

FromBuckets(obj, views) ==
  LET titled == Picked(views, {n \in DOMAIN views : TitleIn(views[n], obj.buckets) # Untitled})
  IN  [n \in DOMAIN titled |-> [view |-> titled[n], form |-> "tuple",
                                title |-> TitleIn(titled[n], obj.buckets)]]

ViewBuckets(obj, views) ==
  IF obj.view_buckets # {} THEN AsTuples(CHOOSE pairs \in obj.view_buckets : TRUE)
  ELSE FromBuckets(obj, views)

AsListed(names) == names   \* mutant: the order of the answer is kept

Sorted(names) == InOrder(ToSet(names))

TaskSnapshot(obj, views) ==
  [title |-> obj.title, identifier |-> obj.identifier, due_date |-> DueDate(obj.due_date),
   bucket |-> BucketName(obj), view_buckets |-> ViewBuckets(obj, views),
   labels |-> Sorted(obj.labels)]

(* The JSON column: a tuple comes back as a list. *)
Json(snapshot) ==
  [snapshot EXCEPT !.view_buckets = [n \in DOMAIN @ |-> [@[n] EXCEPT !.form = "list"]]]

(* A stored snapshot taken for a task, to write a notice. *)
AsTask(stored) ==
  [title |-> stored.title, identifier |-> stored.identifier,
   due_date |-> stored.due_date, labels |-> stored.labels, bucket |-> {stored.bucket},
   bucket_id |-> NoBucket, buckets |-> << >>, view_buckets |-> {stored.view_buckets}]

(* _render_task_snapshot: the heading and the lines below it; with views   *)
(* selected their buckets are shown in place of the one of the task.       *)
Heading(snapshot) == [title |-> snapshot.title, identifier |-> snapshot.identifier]
Lines(snapshot, views) ==
  [heading |-> Heading(snapshot),
   buckets |-> IF views # << >> THEN snapshot.view_buckets ELSE << >>,
   bucket |-> IF views # << >> THEN Untitled ELSE snapshot.bucket,
   due_date |-> snapshot.due_date, labels |-> snapshot.labels]

(* change_summary: the fields that a reply names. *)
MostFields == Fields \ {"title"}   \* mutant: a field is forgotten

SummaryFields == Fields

ChangeSummary(kind, previous, current) ==
  IF kind \in {"created", "comment"} THEN {}
  ELSE {f \in SummaryFields : previous[f] # current[f]}

-----------------------------------------------------------------------------
(* EventEnricher *)
(* bucket_id is an int in every object Vikunja sends, 0 (NoBucket) or not. *)
NeedsBucket(obj) == BucketName(obj) = Untitled
Enriches(obj, views) == views # << >> \/ NeedsBucket(obj)

(* The bucket the event names is kept over the one read later. *)
MergeEventBucket(embedded, enriched) ==
  [enriched EXCEPT
     !.bucket_id = IF embedded.bucket_id # NoBucket THEN embedded.bucket_id ELSE @,
     !.buckets = IF embedded.buckets # << >> THEN embedded.buckets ELSE @]

(* The first answer in the order of the views, with the buckets of the     *)
(* selected views that any answer names.                                   *)
Selected(views, b) == Bucket[b].view \in ToSet(views)
MergeViewTasks(matching, views) ==
  LET all == FlattenSeq([n \in DOMAIN matching |-> matching[n].buckets])
      first == {n \in DOMAIN all : Selected(views, all[n]) /\ \A m \in 1 .. n - 1 : all[m] # all[n]}
  IN  [matching[1] EXCEPT !.buckets = Picked(all, first)]

-----------------------------------------------------------------------------
Snapshots == [title : Titles, identifier : Idents, due_date : Dues \cup {Unset},
              bucket : {Untitled} \cup {Bucket[b].title : b \in Buckets},
              view_buckets : Seq(Pairs), labels : Seq(UNION LabelSets)]

(* Of a row: of: the facts its snapshot is of; shown, views: the lines the *)
(* card had when it was saved, and the views selected then; overtaken:     *)
(* whether the event it was saved for had been overtaken.                  *)
NoCard == [face |-> "none", lines |-> {}, since |-> {}]

TypeOK ==
  /\ vik.at \in Positions /\ FactsOf(vik) \in Facts /\ vik.exists \in BOOLEAN
  /\ \A n \in DOMAIN queue : /\ queue[n].kind \in {"created", "update", "comment", "delete"}
                               /\ queue[n].wait \in {"new", "backoff", "overtaken"}
  /\ hook \in HookModes
  /\ \A r \in row : r.snapshot \in Snapshots /\ r.of \in Facts
  /\ card.face \in {"none", "live", "filtered", "deleted"} /\ card.since \subseteq Buckets
  /\ missed \subseteq Fields
  /\ pc \in {"idle", "task", "views", "show", "save", "tell", "deletion"}
  /\ faults \in 0 .. MaxFaults /\ changes \in 0 .. MaxChanges /\ edits \in 0 .. MaxEdits

Answer(kind, task) == [kind |-> kind, task |-> task]
Unasked == Answer("unasked", {})

NoJob == [at |-> 0, task |-> {}, views |-> << >>, answers |-> [v \in Views |-> Unasked],
          previous |-> {}]

Init ==
  /\ \E facts \in Facts, at \in Positions : vik = Task(facts, at, TRUE)
  /\ queue = << >>
  /\ hook \in HookModes
  /\ row = {} /\ card = NoCard
  /\ told = {} /\ missed = {}
  /\ pc = "idle" /\ job = NoJob
  /\ faults = MaxFaults /\ changes = MaxChanges /\ edits = MaxEdits

-----------------------------------------------------------------------------
(* Vikunja.  task: the task when the event came about, from which its      *)
(* object is made when it is delivered; since: where the task has been from*)
(* then on; wait: whether it is new, has failed and backs off, or a later  *)
(* event was dealt with before it.                                         *)
Announce(kind) ==
  /\ vik.exists
  /\ changes > 0 /\ changes' = changes - 1
  /\ queue' = Append([n \in DOMAIN queue |-> [queue[n] EXCEPT !.since = @ \cup vik'.at]],
                     [kind |-> kind, task |-> vik', since |-> vik'.at, wait |-> "new"])
  /\ UNCHANGED <<hook, row, card, told, missed, pc, job, faults, edits>>

Create == changes = MaxChanges /\ UNCHANGED vik /\ Announce("created")

Change ==
  /\ \/ \E facts \in Facts \ {FactsOf(vik)} : vik' = Task(facts, vik.at, TRUE)
     \/ \E at \in Positions \ {vik.at} : vik' = [vik EXCEPT !.at = at]
  /\ Announce("update")

Comment == UNCHANGED vik /\ Announce("comment")

Delete == vik' = [vik EXCEPT !.exists = FALSE] /\ Announce("delete")

EditHook ==
  /\ edits > 0 /\ edits' = edits - 1
  /\ hook' \in HookModes \ {hook}
  /\ UNCHANGED <<vik, queue, row, card, told, missed, pc, job, faults, changes>>

-----------------------------------------------------------------------------
(* A delivery. *)
Event == queue[job.at]

(* The object of the webhook; a comment's need not embed the task. *)
EmbeddedObjects == IF Event.kind = "comment" THEN {} ELSE WebhookObjects(Event.task)

Go(place) == pc' = place

(* The event is done, and the older ones that wait have been overtaken.    *)
Done == [n \in 1 .. Len(queue) - 1 |->
           IF n < job.at THEN [queue[n] EXCEPT !.wait = "overtaken"] ELSE queue[n + 1]]
Finish == pc' = "idle" /\ job' = NoJob /\ queue' = Done

(* The delivery has failed, and the event is tried again later. *)
Retry ==
  /\ pc' = "idle" /\ job' = NoJob
  /\ queue' = [queue EXCEPT ![job.at].wait = IF @ = "new" THEN "backoff" ELSE @]

UnchangedWorld == UNCHANGED <<vik, hook, changes, edits>>
UnchangedChat == UNCHANGED <<row, card, told, missed>>

(* claim_next_event passes over those that back off, for a time or not;    *)
(* get_active_hook: the selected views are remembered as they are now.     *)
Start ==
  /\ pc = "idle"
  /\ \E n \in DOMAIN queue :
       /\ \A m \in 1 .. n - 1 : queue[m].wait # "new"
       /\ job' = [NoJob EXCEPT !.at = n, !.views = hook.views]
       /\ Go(IF queue[n].kind = "delete" THEN "deletion"
             ELSE IF hook.filters THEN "views" ELSE "task")
  /\ UNCHANGED <<queue, faults>> /\ UnchangedWorld /\ UnchangedChat

(* What _deliver_task begins with: the snapshot of the task object.        *)
Hold(obj) ==
  /\ job' = [NoJob EXCEPT !.at = job.at, !.views = job.views,
                          !.task = {[now |-> TaskSnapshot(obj, job.views), of |-> obj.of]}]
  /\ Go("show")

Embedded ==
  /\ \E obj \in EmbeddedObjects : ~Enriches(obj, job.views) /\ Hold(obj)
  /\ UNCHANGED <<queue, faults>>

Enriched ==
  /\ vik.exists
  /\ \E read \in ReadObjects(vik) :
       \/ \E obj \in EmbeddedObjects :
            /\ Enriches(obj, job.views)
            /\ Hold(IF job.views # << >> THEN read ELSE MergeEventBucket(obj, read))
       \/ EmbeddedObjects = {} /\ Hold(read)
  /\ UNCHANGED <<queue, faults>>

NotEnrichedSkips ==   \* mutant: without the read the event is completed
  /\ vik.exists => faults > 0
  /\ faults' = IF vik.exists THEN faults - 1 ELSE faults
  /\ \A obj \in EmbeddedObjects : Enriches(obj, job.views)
  /\ Finish

(* The read fails, for the task is gone or by a fault: what is embedded is *)
(* shown; without it the event is taken for one of no task and completed.  *)
NotEnriched ==
  /\ vik.exists => faults > 0
  /\ faults' = IF vik.exists THEN faults - 1 ELSE faults
  /\ \/ \E obj \in EmbeddedObjects : Enriches(obj, job.views) /\ Hold(obj) /\ UNCHANGED queue
     \/ EmbeddedObjects = {} /\ Finish

ReadTask ==
  /\ pc = "task"
  /\ Embedded \/ Enriched \/ NotEnriched
  /\ UnchangedWorld /\ UnchangedChat

(* One view answers; the views are asked at once and answer in any order.  *)
Hears(v, answer) == job' = [job EXCEPT !.answers[v] = answer]

AskView(v) ==
  /\ pc = "views" /\ v \in ToSet(job.views) /\ job.answers[v] = Unasked
  /\ \/ /\ ~vik.exists \/ InView(vik.at, v) = {}
        /\ Hears(v, Answer("absent", {})) /\ UNCHANGED faults
     \/ /\ vik.exists /\ InView(vik.at, v) # {}
        /\ \E obj \in ViewObjects(vik, v) : Hears(v, Answer("hit", {obj}))
        /\ UNCHANGED faults
     \/ faults > 0 /\ faults' = faults - 1 /\ Hears(v, Answer("failed", {}))
  /\ UNCHANGED <<queue, pc>> /\ UnchangedWorld /\ UnchangedChat

Kinds == {job.answers[v].kind : v \in ToSet(job.views)}
Matching ==
  LET hits == Picked(job.views, {n \in DOMAIN job.views : job.answers[job.views[n]].kind = "hit"})
  IN  [n \in DOMAIN hits |-> CHOOSE obj \in job.answers[hits[n]].task : TRUE]

(* task_visible_in_views: one answer with the task is enough; without one, *)
(* a failure is raised for a retry, and all "absent" filters the card out. *)
Visible ==
  /\ "hit" \in Kinds
  /\ \E obj \in Forms(MergeViewTasks(Matching, job.views)) : Hold(obj)
  /\ UNCHANGED <<queue, row, card>>

Undecided ==
  /\ "hit" \notin Kinds /\ "failed" \in Kinds
  /\ Retry
  /\ UNCHANGED <<row, card>>

(* _deliver_task_filtered_out: the notice is made of the stored snapshot.  *)
FilteredOut ==
  /\ Kinds = {"absent"}
  /\ \A r \in row : r.deleted \/ r.filtered => UNCHANGED <<row, card>>
  /\ \A r \in row : ~r.deleted /\ ~r.filtered =>
       /\ LET notice == TaskSnapshot(AsTask(r.snapshot), job.views)
          IN  card' = [card EXCEPT !.face = "filtered", !.lines = {Lines(notice, job.views)}]
       /\ row' = {[r EXCEPT !.filtered = TRUE]}
  /\ row = {} => UNCHANGED <<row, card>>
  /\ Finish

DecideVisibility ==
  /\ pc = "views" /\ "unasked" \notin Kinds
  /\ Visible \/ Undecided \/ FilteredOut
  /\ UNCHANGED <<told, missed, faults>> /\ UnchangedWorld

(* _deliver_task: the card is written, then the mapping, then the reply;   *)
(* nothing is done for an event that the deletion of its task overtook.    *)
Current == (CHOOSE task \in job.task : TRUE).now
Of == (CHOOSE task \in job.task : TRUE).of

ShowCard ==
  /\ pc = "show" /\ \A r \in row : ~r.deleted
  /\ card' = [face |-> "live", lines |-> {Lines(Current, job.views)}, since |-> Event.since]
  /\ job' = [job EXCEPT !.previous = row]
  /\ Go("save")
  /\ UNCHANGED <<queue, row, told, missed, faults>> /\ UnchangedWorld

IgnoreEvent ==
  /\ pc = "show" /\ \E r \in row : r.deleted
  /\ Finish
  /\ UNCHANGED <<row, card, told, missed, faults>> /\ UnchangedWorld

(* What a card says to a reader: the facts, and the buckets shown. *)
Knowledge(of, snapshot) ==
  [title |-> of.title, due_date |-> of.due_date, labels |-> of.labels,
   bucket |-> snapshot.bucket, view_buckets |-> AsTuples(snapshot.view_buckets)]

SavedRow == [snapshot |-> Json(Current), of |-> Of, views |-> job.views,
             shown |-> Lines(Current, job.views), overtaken |-> Event.wait = "overtaken",
             filtered |-> FALSE, deleted |-> FALSE]

Save ==
  /\ pc = "save"
  /\ row' = {SavedRow}
  /\ IF job.previous = {}
     THEN told' = {Knowledge(Of, Current)} /\ Finish
     ELSE Go("tell") /\ UNCHANGED <<told, job, queue>>
  /\ UNCHANGED <<card, missed, faults>> /\ UnchangedWorld

Previous == CHOOSE r \in job.previous : TRUE
Changed == {f \in Fields : Knowledge(Previous.of, Previous.snapshot)[f]
                             # Knowledge(Of, Current)[f]}
Named == ChangeSummary(Event.kind, Previous.snapshot, Current)

(* The reply below the card.  It names fields, and what they are now is on *)
(* the card.  A reply to a comment, or that the task was created, has no   *)
(* room for what else changed.                                             *)
Tell ==
  /\ pc = "tell"
  /\ told' = {[f \in Fields |-> IF f \in Named THEN Knowledge(Of, Current)[f]
                                ELSE known[f]] : known \in told}
  /\ missed' = IF Event.kind = "update" THEN missed \ Named ELSE missed \cup Changed
  /\ Finish
  /\ UNCHANGED <<row, card, faults>> /\ UnchangedWorld

(* _deliver_task_deletion; without a mapping the notice is of the event's  *)
(* own object and no card is remembered.                                   *)
TellDeleted ==
  /\ pc = "deletion"
  /\ row = {} => UNCHANGED <<row, card>>
  /\ \A r \in row : r.deleted => UNCHANGED <<row, card>>
  /\ \A r \in row : ~r.deleted =>
       /\ card' = [card EXCEPT !.face = "deleted",
                               !.lines = {Heading(TaskSnapshot(AsTask(r.snapshot), << >>))}]
       /\ row' = {[r EXCEPT !.deleted = TRUE]}
  /\ Finish
  /\ UNCHANGED <<told, missed, faults>> /\ UnchangedWorld

(* A call to Telegram or to the database fails: the event is retried, and  *)
(* then compares the snapshot saved last with its own.                     *)
Fail ==
  /\ pc \in {"show", "save", "tell", "deletion"}
  /\ faults > 0 /\ faults' = faults - 1
  /\ missed' = IF pc = "tell" THEN missed \cup Changed ELSE missed
  /\ Retry
  /\ UNCHANGED <<row, card, told>> /\ UnchangedWorld

Next ==
  \/ Create \/ Change \/ Comment \/ Delete \/ EditHook
  \/ Start \/ ReadTask \/ (\E v \in Views : AskView(v)) \/ DecideVisibility
  \/ ShowCard \/ IgnoreEvent \/ Save \/ Tell \/ TellDeleted \/ Fail

Spec == Init /\ [][Next]_vars

-----------------------------------------------------------------------------
(* Properties. *)

(* A bucket on a live card is one the task has been in since the event     *)
(* that the card shows, and one of the view it is shown for: of the event, *)
(* the reads and the answers of several views nothing is mixed up          *)
(* (event_worker.py:343-379, task_text.py:150-201).                        *)
BucketsAreReal ==
  card.face = "live" => \A lines \in card.lines :
    /\ lines.bucket \in {Untitled} \cup {Bucket[b].title : b \in card.since}
    /\ \A n \in DOMAIN lines.buckets : \E b \in card.since :
         Bucket[b].view = lines.buckets[n].view /\ Bucket[b].title = lines.buckets[n].title

(* A reply names the due date or the labels only if they changed in        *)
(* Vikunja, though the two tasks it compares came in different forms: from *)
(* an event or a read, with or without Go's zero time, the labels in any   *)
(* order, the former one by way of JSON (task_text.py:12-24, 142-144,      *)
(* 229-232).  The buckets are left out: they are named without a change.   *)
NoFalseAlarm ==
  pc = "tell" =>
    \A f \in Named \cap {"due_date", "labels"} : Previous.of[f] # Of[f]

(* Since the card was first sent, a reply has named every field that the   *)
(* card says something else of, but for what changed when a reply failed   *)
(* or was about a comment (event_worker.py:249-281, task_text.py:121-147). *)
RepliesNameChanges ==
  pc = "idle" => \A r \in row, known \in told : \A f \in Fields :
    known[f] # Knowledge(r.of, r.snapshot)[f] => f \in missed

(* When every event has been dealt with, a card that can be acted on shows *)
(* a task that exists, and shows it as it is, unless the event that it was *)
(* saved for had been overtaken by a later one: neither a read that        *)
(* failed, for which a comment event is completed unseen, nor answers of   *)
(* views given at different moments, nor an older event still backing off  *)
(* when the card was saved have left it behind                             *)
(* (event_worker.py:41-66, 91-97, 117-126).                                *)
CardIsCurrent ==
  pc = "idle" /\ queue = << >> =>
    \A r \in row : ~r.deleted /\ ~r.filtered /\ ~r.overtaken =>
      vik.exists /\ r.of = FactsOf(vik)

(* A card that is filtered out repeats what it said when it was last       *)
(* saved, whatever views have been selected since, except that the bucket  *)
(* of the task, shown while no view is selected, is left out; and that of  *)
(* a deleted task repeats its heading (task_text.py:47-56, 65-93, 178-190).*)
NoticeRepeatsCard ==
  \A r \in row, said \in card.lines :
    /\ r.deleted => said = r.shown.heading
    /\ card.face = "filtered" /\ ~r.deleted => said = [r.shown EXCEPT !.bucket = Untitled]
=============================================================================
