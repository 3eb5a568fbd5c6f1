# A verification of vikunjbot in TLA+

vikunjbot shows the tasks of a Vikunja project as Telegram messages ("cards") and lets
replies act on them. This directory holds TLA+ models of its core, translated from the
Python source, TLC configurations that check them on small instances, and TLAPS proofs
that hold for every instance. Paths and line numbers refer to `src/`; modules without a
path are in `src/src/vikunjbot/`.

## 1. The system

| Part | State it keeps | Operations | Talks to |
|---|---|---|---|
| Ingress (`redpanda-connect.yaml`) | `events.db`, a SQLite buffer | accept a webhook, hand it on in order, repeat for ever | Vikunja → sink |
| Sink (`relay.py`, `routing.py`) | none of its own | validate, look up the hook, commit the event or answer 4xx/5xx | ingress → PostgreSQL |
| Event queue (`database.py:270-361`) | table `events`: state, attempts, `available_at`, `lease_until` | enqueue, claim, complete, retry | sink and worker |
| Worker loop (`event_worker.py:107-129`, `bot.py:886-893`) | the claimed event | poll, deliver, complete or retry | queue |
| Delivery (`event_worker.py:131-336`) | table `task_messages`, one row per hook and task; the cards in Telegram | send, edit, replace, react, revoke | Vikunja, Telegram, PostgreSQL |
| Hook administration (`bot.py:157-472, 632-755`) | tables `hooks`, `hook_views`; webhooks in Vikunja | create, install, switch, filter, select views, delete | owner, Vikunja, PostgreSQL |
| Reply actions (`bot.py:474-523`, `authorization.py`, `task_actions.py`, `tokens.py`) | token bindings | find the card, authorise, toggle labels and assignees, comment | Telegram, Vikunja |
| Rendering (`task_text.py`, `task_fields.py`, `hook_ui.py`) | none | text and keyboards | – |
| Settings, migrations (`settings.py`, `migrate.py`, `migrations/`) | schema | run before the rest | – |

An event travels Vikunja → ingress → sink → `events` → worker → Telegram and
`task_messages`; a reply travels Telegram → `task_messages` → Vikunja; an owner's button
travels Telegram → `hooks` and Vikunja's webhooks. Everything in the bot process runs on
one asyncio loop: a handler or the worker runs undisturbed up to an `await`, and anything
else may run there. Each database method is one transaction.

What is hard, and what makes each part correct:

* **Queue** – leases that lapse, late completions without fencing, retries with backoff,
  crashes. Correct if an event has one worker at a time, is never lost, is never
  delivered again once done, and is delivered in the end.
* **Delivery** – every `await` may fail, with or without effect; events are retried
  after younger ones; the card may be gone, or still there and past editing. Correct if a
  task has one card that shows its latest state, a deleted task has nothing to act on, and
  each failure leaves at most one stray card.
* **Administration** – two buttons pressed in a row are two handlers; Vikunja may carry
  out a call it reported as failed. Correct if a retired route stays retired and leaves no
  webhook behind, and a filtering route has views.
  A press of a button should count.
* **Ingress and sink** – repeated requests, handlers nobody waits for any more, head-of-line
  blocking by a route that is switched off. Correct if an acknowledged event reaches the
  queue, in order, once.
* **Replies** – a token revoked or rebound between reads, partial completion, the same
  label twice, two replies at once. Correct if only a granted actor acts, under an account
  of their own, and what is reported as done is done.
* **Task text** – the object a card is made of comes from the event, from a later read or
  from several views' answers; snapshots pass through JSON. Correct if the card shows
  nothing the task never was, and what it says anew has been named by a reply below it.

`PROJECT.json` lists every part with its status, and the hazards at their lines.

## 2. The modules

| Module | Models | Role |
|---|---|---|
| `WorkQueue` | what the queue promises | abstract specification: absent, fresh, held, waiting, done |
| `LeasedQueue` | `database.py:270-361`, `timeutils.py:27-31`, `event_worker.py:107-129`, `bot.py:886-893` | the table with leases, backoff and clock; implements `WorkQueue` |
| `TaskDelivery` | `event_worker.py:38-97, 131-336`, `database.py:147-158, 414-525` | extends `WorkQueue`: one delivery, await by await |
| `CardText` | `task_text.py`, `event_worker.py:38-97, 338-379` | what a card and the replies below it say, and the task objects they are made of |
| `HookAdmin` | `bot.py:157-472, 632-755`, `database.py:109-268`, `vikunja.py` (webhooks, views) | handlers, the hooks table and Vikunja's webhooks |
| `HookPages` | `hook_ui.py:19-45` | the paging of the list of hooks; no state, only theorems |
| `Inbox` | what the way into the queue promises | abstract specification: accepted, taken, queued, closed |
| `Ingress` | `redpanda-connect.yaml`, `relay.py:31-100`, `database.py:147-158, 290-305` | buffer, resends and relay handlers; implements `Inbox` |
| `TokenBindings` | `tokens.py`, `bot.py` (/login, /logout), `database.py` (token bindings), `authorization.py` | which account an actor acts as |
| `ReplyActions` | `bot.py:474-523`, `task_actions.py`, `authorization.py`, `database.py` (lookups of a card), `vikunja.py` (labels, users) | extends `TokenBindings`: one reply, call by call |
| `LeasedQueueProofs`, `TaskDeliveryProofs`, `TaskRestProofs`, `HookAdminProofs`, `IngressProofs`, `ReplyActionsProofs`, `CardTextProofs` | | theorems |
| `MC…` | | symmetry sets and instance data for TLC |

How they fit together. `Ingress` implements `Inbox`, whose `queue` is the events table as it
grows; `LeasedQueue` takes a row from there and implements `WorkQueue`; `TaskDelivery` and
its workers are built on the actions of `WorkQueue`, so that delivery is checked without
clocks, leases and backoff. `CardText` looks closely at what `TaskDelivery` keeps as a
version number: how the shown task comes about and what the text says of it; in turn it
leaves out parallel workers and lost cards, and a run has one failed call. `HookAdmin` owns the
state that `Ingress` (a hook's condition), `TaskDelivery` (switches, retirement) and
`CardText` (the selected views) see as environment. `ReplyActions` acts under the identity
that `TokenBindings` establishes, on the card whose life `TaskDelivery` describes.

### LeasedQueue

`rows` is the table in id order, `worker` each loop with the event it claimed, `faults` a
budget. Time is relative: a row keeps what is left of its wait and of its lease, and
`Tick` lets one unit pass for all rows and workers. `Claim` is the whole transaction:
lapsed rows are reclaimed and then the oldest claimable one is taken. A claim that finds
nothing (`PollInVain`) leaves the lapsed rows as they are, which the next claim or tick
cannot tell from having reclaimed them. `Complete` and `Retry` match the id only, as the
code does. `Crash` leaves the row leased; `DatabaseError` is an exception that leaves
`run()` and ends the worker while the bot lives on. `attempts` is kept up to `AttemptCap`,
beyond which the backoff does not change.

### TaskDelivery

`pc` is the `await` a worker is at: `hook`, `task` or `views`, `row`, `edit` or `send`,
`save`, `react`, `mark`, `close`. `job` is what the coroutine remembers from earlier reads
(the task, the mapping as it was found, the message worked on): everything stale in the code
is stale in the model. `row` is `task_messages`, `chat` the messages in Telegram by id,
`vik` Vikunja's tasks, `event` the stored payloads. A task's displayable state is a version
and a done flag. `Fails` can interrupt any `await`, before or after its effect, and also
stands for the death of the process: the event goes back to the queue. `Stop` is a database
error where nothing catches it (claim, completion, retry): `run()` ends, and the worker is in
`stopped` until someone restarts the container (`Restart`). `hook.mode` says how a task is
read: not at all for want of a service account (a comment event then has no task to show and
is dropped), as embedded in the event, read afresh, or through the selected views
(`filter_by_views`).

A card can be lost to the bot in two ways, and the code treats both alike
(`event_worker.py:388-412`): it is removed (`shown` is false), or Telegram refuses to edit it
any more while everybody still sees it and can reply to it (`fixed`). `Editable` is neither.
A live card that is not editable is replaced; a deletion or a filtered event goes on
without it, so a fixed card keeps looking live.

A change in Vikunja and the event it causes are one step, in order, and only while the hook
is active: the ingress keeps the order and holds events of a hook that is off. What a hook
shows does not change during a run.

### CardText

A task is its `Facts` and its position, at most one bucket of each view. The same facts have
several objects (`Objects`): buckets are left out or expanded, no due date is an empty field
or Go's zero time, lists come in either order. `ReadTask` is the enricher (the embedded
object, a read merged with the event's bucket, or a read that failed), `AskView` one view's
answer, which may come before or after a move, `DecideVisibility` the three outcomes of
`task_visible_in_views`. `ShowCard`, `Save` and `Tell` write the card, the mapping with its
JSON snapshot and the reply; `IgnoreEvent` is the early return for a deleted mapping. `title`
stands for every field that is compared as it is, `labels` for the sorted ones; `identifier`
is a field of its own, in the heading and the snapshot and in no reply.

`queue` holds the events in the order of their ids. `Start` may take any event before which
none is `new`: those that failed are in `backoff`, for an unknown time, and are passed over
while it lasts. An event becomes `overtaken` when a later one is done before it (`Done`). Some
variables are history: `card.since` (the buckets the task has been in since the event that
the card shows), `row.overtaken` (the mapping was saved for an overtaken event), `told` (of
each field, what the card said when it was sent or a reply last named the field: a reply
names fields, their values are on the card above it) and `missed` (fields whose last change
no reply could name).

### HookAdmin

`hook` is a row of `hooks` with its views, fields and window, `webhook` Vikunja's list by
id, `late` creations still on their way, `existing` the project's views. A session is one
Telegram update being handled; `job.seen` is the hook as it read it. Each write changes its
own columns of the row as it is now, under `WHERE … deleted_at IS NULL` (`Write`): no row
means a RuntimeError and the handler is `lost`. `PostFails` has the three outcomes of an
HTTP error: done, not done, done later. `Pages` is what Vikunja lists of its webhooks: all
of them or, as the code asks for one page only, any `PageSize` of them; webhooks of others
can fill it. `Arrives` counts the handlers that begin while another runs (`overlaps`), and
`job.raced` notes that another handler of the same setting of the same hook has run beside
this one.

### Ingress

`buffer` is every request the ingress has acknowledged to Vikunja, `acked` how many of them
have left the SQLite buffer, `serving` the handler whose answer is awaited (`max_in_flight:
1`). `at` and `record` are the await and the record of each handler of the relay. A timeout
or a restart of the ingress (`GiveUp`) forgets the handler, which goes on: it may store the
record late, beside the handler of the resend. `Validate`, `GetActiveHook`, `GetHook` and
`EnqueueEvent` are `receive_event` await by await, with its answers 4xx, 202 and 503;
`DatabaseError` may have committed. The same body sent twice is one record with two places.

### TokenBindings and ReplyActions

`binding` is the table, `owner` whose token it is in Vikunja's eyes, `proven` the accounts
an actor has ever supplied a token of (history). An interaction reads the binding, asks
Vikunja once who the token belongs to and keeps that client (`client`); /login, /logout and
a revocation can come in between. A reply goes `card` or `thread`, `binding`, `whoami`,
`labels`, `search`, `create`, `label`, `assignees`, `finduser`, `user`, `comment`. `known`
and `users` are what it read once and updates from memory; `done` is what it will report. Words are abstracted
to a label in a spelling, a user and plain text; a title is a number, because the search of
a label returns those that contain it. `before` is the task as the reply found it, as long
as no other handler has run beside it.

### HookPages

`PageCount`, `Clamped`, `Visible` and `Navigation` are the arithmetic of `hooks_list_panel`
for any number of hooks and any page number a button carries.

## 3. What the runs check

| Run | Instance | Shows |
|---|---|---|
| `lq_short_deliveries` | 2 workers, 2 bodies (one always fails), lease = longest delivery = 2, 3 faults | types, the inductive invariant, exclusive claims, done is final, refinement of `WorkQueue` |
| `lq_every_event` | 1 worker, 3 events (two always fail), fairness | every deliverable event is delivered in the end |
| `td_one_worker` | 1 worker (the number `run_bot` starts), 1 task, 2 views, all four modes, 3 events; 1 fault, 1 card removed or past editing, 1 switch, 1 lapse | a deleted card says so; at most one stray card per fault; a task keeps its card; deletion revokes; the card, its check mark and its filtered state converge |
| `td_two_workers` | 2 workers on one task, 3 events, 1 fault | a deleted mapping is never revived or moved |
| `td_live` | filtering hook, 3 events, 2 faults (one may stop the worker), 1 lapse, fairness | deletion takes effect and lasts, unless the worker is stopped for good |
| `ct_changes` | 2 titles, 2 identifiers, 2 views with a bucket each, 3 selections of views, 3 events, 1 failed call (and what overtakes the event meanwhile), 1 change of the selection | buckets on a card are real; no reply names a due date or labels that did not change; replies name every change they have a word for but what a fault or a comment hides; a card not saved for an overtaken event ends up as the task is; notices repeat the card |
| `ha_handlers` | 1 hook, 2 views, 2 handlers, pages of 2 webhooks, up to 2 webhooks of others; one each of fault, late creation, hand edit, deleted view, overlap | no retired route has a webhook, a filter keeps its views, the ownership check holds until the write, a press counts, a retired hook is never written again |
| `ig_retries` | 2 hooks, 2 bodies (one malformed), 2 handlers of the relay, 3 records, 2 faults, 1 switch or retirement; fairness | accepted records are stored; nothing unreadable is queued; refinement of `Inbox`; every record arrives unless a refused one stands before it |
| `ra_replies` | 2 actors, 2 accounts, 2 tokens, 2 handlers, 3 replies, searches of 2 labels, 1 fault, 1 overlap, 2 commands | only granted actors change a task and under an account of theirs; each name is toggled once; the report is what happened; a label is not created twice |

Three runs refute a statement of the documentation or of a message in the code; each is a
finding in `PROJECT.json`:

* `td_resurrected` – the first update of a task fails and is retried after the deletion.
  The deletion found no mapping and left none, so the retry makes an actionable card for a
  task that is gone (README.md:296-297).
* `td_reaction_restored` – a done task leaves the views (its check mark is cleared, its
  snapshot kept) and comes back; snapshot and task agree, so the mark is not set again
  (README.md:304, 309-313).
* `ha_view_gone` – the guard of the last view counts the stored selection, the write drops
  views that no longer exist; a filtering hook is left without views and each of its events
  fails from then on (event_worker.py:147-149, bot.py:421-425).

Several properties are conditional because the code keeps them only then, and the condition
names the reason.

* Delivery. `InOrder`: nothing was dropped because the hook was off or the window over, and
  either the hook asks Vikunja for the task each time or no delivery was repeated.
  `Undisturbed`: nothing dropped and no delivery cut off. Without the condition
  `CardConverges` fails for a hook that shows embedded tasks, since a retried older event
  overwrites a newer one; `ReactionFollows` fails when a crash falls between the save and
  the reaction; `FilteredCardSaysSo` when it falls between the edit that restores a card and
  the save. With two workers `DeletedCardSaysSo` fails (an update edits the card after the
  deletion did); the shipped bot starts one. A card past editing is left as it is whatever
  becomes of its task, so `DeletedCardSaysSo`, `FilteredCardSaysSo` and `OneStrayPerFault`
  speak of editable cards; `DeletionRevokes` and `CardConverges` of all.
  `DeletionTakesEffect` excludes that every worker has been stopped by a database error and
  nobody starts one again, as `EveryEventDelivered` does.
* Administration. `Sequential` (no two handlers overlapped): without it `NoOrphanWebhook`
  fails (a deletion that overlaps an installation), and so do `FilterKeepsViews` (the filter
  switched on while the last view is removed) and `OwnershipCheckHolds`. `lates = MaxLate`:
  a creation that arrives after it was given up leaves an orphan. Room on the page: with
  `PageSize` webhooks of others the bot looks for its own in vain. `vanish = MaxVanish`: see
  `ha_view_gone`. `raced`: of two presses that decide from the same read one is lost.
* Text. A change is named by the reply of its own event only. If that reply fails, the retry
  compares the saved snapshot with itself; if a comment event read the task first, its reply
  is about the comment. Both are collected in `missed`, which `RepliesNameChanges` excludes.
  A change of the identifier is named by no reply (task_text.py:132-141 has no word for it),
  so it is not among `Fields`. `NoFalseAlarm` leaves the buckets out: with views selected a
  reply names "buckets" every time there are any, as tuples are compared with the lists that
  JSON made of them (task_text.py:142-144), and "bucket" when an event, a read and a view
  give different ones of a task that did not move. It leaves the title out too, which is
  compared as it comes. `CardIsCurrent` excludes a card saved for an overtaken event: the
  retry of an older event can put older content on it, or make an active card of a task that
  is gone, as `td_resurrected` shows. A card that is filtered out drops the bucket of the
  task, which the card shows only while no view is selected; the notice of a deleted task
  has no more than the heading. `NoticeRepeatsCard` says both.
* Replies. One label in two spellings toggles twice; `LoneReplyToggles` and
  `ReportIsHonest` speak of the other replies. A call that failed may have had its effect,
  so a failed reply may have done one thing more than it reports. Two replies at once, or a
  search with more hits than it returns, can create a label twice.

### Bounds

Two workers or handlers are enough for every race of the code, since each critical pair is
between two. Three events allow create, change and delete, or a change retried after two
younger ones; three records a blocked one between two others. One fault per run is enough
to reach every intermediate crash state, as the properties relate the state after one
interruption to what the retry makes of it; `LeasedQueue` has three faults because a crash,
a database error and a failure act on different rows, `Ingress` two because a resend must
itself be cut off for two handlers to work on records that were given up. Pages of two
entries with at most two others, and searches of two labels, are the smallest on which
something falls off the end. Removed cards, switches, lapses, late creations, hand edits and
deleted views have a budget each (`Max…`); every bound is a constant in a guard. In
`lq_short_deliveries` a delivery may last as long as the lease, the worst case of
`LeaseIsEnough`. `ct_changes` has no due dates and one set of two labels: the two forms of
no date and the two orders of the labels occur, a change of either is like one of the title.
Its one failed call lets one event be overtaken by one or two others.

Deadlock is checked in the `lq_` runs only. Elsewhere the system may stop: a bot without
further events, an owner without further hooks, a reply whose budget of commands is spent,
an ingress whose last record has been accepted.

### Fairness

`LeasedQueue`: a worker that is neither crashed nor stopped polls and finishes (its loop
has no other exit and every client call has a timeout), the container's restart policy
starts a crashed process again (README.md:124), time passes. A worker stopped by a database
error is started again by nobody, so `EveryEventDelivered` excludes it.
`TaskDelivery`: each worker that is not stopped goes on (`WF_vars(Step(w))`); none is
assumed of `Restart`, of Vikunja, of users or of faults. `Ingress`: the record at the head
is sent again while it is there (`max_retries: 0` is without end) and some handler is free
to take it, and each handler goes on to its answer, since every call it makes returns or
raises; none of faults, of the owner or of Vikunja.

With a backoff cap that is short compared to what the failing events take,
`EveryEventDelivered` fails: claims go by id and the older failing events come back first
(in `lq_every_event` the cap is 4 and deliveries last up to 2; with a cap of 2 and two
failing events the third starves).

## 4. What is proved

All theorems hold for every value of the constants under the modules' named assumptions.

* `LeasedQueueProofs` – `TypeCorrect` needs nothing more. The others
  assume `LeaseIsEnough`: no delivery outlasts its lease, or there is one worker. The
  inductive invariant `QueueInv` adds to the types that a busy worker owns its row (state
  and attempts agree) and that the row's lease and the worker's clock run together; without
  the latter a step of time could let a lease lapse under its holder. From it follow
  `ClaimsAreExclusive`, `HoldersOwnTheirRows`, `DeliveredStaysDelivered`, and, with the
  auxiliary `UntriedRowIsReady`, the step simulation of
  `LeasedQueueImplementsWorkQueue`: the initial state and every step map to `WorkQueue`.
* `TaskDeliveryProofs` – `DeliveryInv` cuts `TypeOK` along the variables that change
  together and adds that a worker's message was given by Telegram and its event by the
  queue. Every action preserves it and leaves deleted mappings alone, which gives
  `DeliveryTypeCorrect` and `DeletionStaysFinal` for any number of workers, tasks and views.
  The rest of the module is under `OneWorker`, as `run_bot` starts it (with more, two
  deliveries of one task could each send a card). `CardInv` says what a delivery may rely on
  between reading the mapping and writing it: the mapping is still as it was found, the
  message worked on is the mapped one or its replacement, a replaced card is gone or past
  editing, a card to be revoked already looks revoked unless nobody can edit it.
  Hence `DeletedCardsSaySo` and `TasksKeepTheirCards`.
  `FewAbandoned` counts the live, editable cards that no delivery is about to map, of which only an
  interruption makes one more (`FaultsCostOneCard`). `FilteredInv` adds that a card that
  looks otherwise than its filtered mapping is one an uninterrupted worker is still changing
  (`FilteredCardsSaySo`).
* `TaskRestProofs` – also under `OneWorker`: what is true when all is at rest,
  `DeletionsRevoke`, `CardsConverge` and `ReactionsFollow`. Each looks back over all events
  of a task, so the invariant has to say at every moment how far the deliveries have got.
  `HeldInv` and `OrderInv`: the worker holds the one event in hand, and as long as nothing
  failed no event waits for a repetition and none is done before an older one.
  `HistoryInv`: what the queue tells of the tasks (a deletion is the last event of its task,
  the last change carries the task as Vikunja has it). `DeletionInv`: once a deletion is
  delivered the mapping is revoked, and whoever still works on an older event of that task
  is a filtering hook that has found it nowhere and will change nothing. `ConvInv`: from the
  delivery of the last event on the card is right, or the worker at it is on its way to
  make it so, with what that means at each await. `TickInv`: the check mark agrees with the
  mapping, or the delivery under way has the reaction still before it. Without the clauses
  about deliveries under way none of the three is inductive.
* `HookAdminProofs` – every property of `ha_handlers`, for any number of hooks, views,
  handlers and any page size. `AdminInv` (types, a handler's hook was made, its webhook ids
  were given) gives `AdminTypeCorrect` and `RetirementIsFinal`. For the others the invariant
  says what each handler that is under way may rely on as long as nothing overlaps:
  `CalmInv` that its hook is not retired and that what it removed or saw removed is gone
  (`OwnersFindTheirHooks`, `NothingLeftBehind`; the latter counts the webhooks a page can
  hold), `FilterInv` that the views it decided to write leave a filter something
  (`FiltersHaveViews`), `PressInv` that a handler without a rival still finds the setting as
  it read it (`PressesCount`).
* `IngressProofs` – `IngressInv`: besides the types and `HeadOfLine` (a handler
  works on the record at the head or on one already removed), what each handler
  already knows of its record (`HandlersKnow`: past validation the body is readable, past a
  lookup the hook is known), and that what was removed from the buffer is settled. The
  handler a resend overtakes works on a record at or before the head, which is why its late
  insert finds all older records settled; from this follow `NothingAcceptedIsLost`,
  `QueueStaysReadable` and, step by step, `IngressImplementsInbox`.
* `ReplyActionsProofs` – `NobodyElsesAccount`. The invariant `IdentityInv` says that every
  binding is of an account its actor has proven, and that a client past the identity check
  is of a granted actor and uses a token that belongs to nobody else than that actor's
  account, or to nobody.
  The rest of the module is about whole replies, of any length and naming anything, and
  needs of the constants only that a text is a sequence of words (`ReplyTexts`). `FitsInv`
  says what a handler has in mind at each await: the words still due are first words of the
  text, no assignee is touched before the last label, the target is the label or user now
  due, a label it believes attached has that title, every deed it will report is of a word
  it is through with. With the types this is inductive (`RepliesTypeCorrect`), for any
  company. `LoneInv` follows a reply that nobody joins from the task as it came in:
  at each await, a thing has changed exactly if its word is handled, the report says so,
  and what the handler believes attached or assigned is what is. Labels are a case apart:
  two of one title, or one title in two spellings, make belief and task differ, which is
  why `LoneRepliesToggle` and `ReportsAreHonest` except them; the proof needs the exceptions
  where the properties have them and nowhere else. A failed call ends this with one thing
  done that no deed speaks of. `UniqueInv` is for `LabelsUnique`: while handlers do not
  overlap one is under way at most, a label it is about to make was not found, and a search
  that can return all labels containing the title does return those of that title. As the
  number of labels containing a title never falls, a page that holds them all now held them
  all at every search before.
* `CardTextProofs` – every property of `ct_changes`, for any titles, dates, finite sets of
  labels, views, finitely many buckets and selections of views, any number of events and of
  failed calls (`TextConstants` asks no more). First the operators:
  each way to a task object (webhook, read, a view's answer, the two merges) yields one that
  `Says` the facts it is of and names buckets among those of its sources only; a snapshot
  is `Made` of such an object, keeps what it says through JSON, and a notice made of the
  stored one repeats it. Since labels are sorted and a missing date has one form, snapshots of
  the same facts agree in both, whatever the objects looked like (`RepliesRaiseNoFalseAlarm`).
  Then `TextInv`. `QueueInv` says what an event still has to do with the task: a deletion
  leaves no task behind, every place the task has been in since is among its `since`, and an
  event that is not overtaken and has nothing but comments after it carries the task as
  Vikunja has it. Which event is taken next does not matter to it, which is what makes it
  survive the backoff. `JobInv` says what may be held, heard or compared at each await, most
  of it by that clause: a read or a view's answer may be newer than the event, so what is
  held is right only if no change follows and the event is not overtaken (`Fresh`).
  `ToldInv` compares what was told with the mapping before while a reply is due and with the
  one now otherwise, which is where a failed reply loses something. `SettledInv` is
  `CardIsCurrent` for any queue of comments: a comment event whose read failed is completed
  unseen and must find the card right already. From these follow `CardsShowRealBuckets`,
  `RepliesNameWhatChanged`, `CardsAreCurrent` and `NoticesRepeatTheCard`.
* `HookPages` – four theorems of linear arithmetic: no page is empty, each hook is on one
  page, the buttons lead to the neighbours, a button from before a deletion leads to its
  page or the one before.

Only model-checked: everything under fairness (TLAPS does not do liveness), that is
`EveryEventDelivered`, `DeletionTakesEffect` and `EveryRecordArrives`.

## 5. What is not modelled

* Wording, escaping, display fields and the layout of cards and panels: no property is about
  them. The fields a hook shows are in `HookAdmin`; which of them a card prints is not.
* The panels of `hook_ui.py` other than the paged list: rendering without a decision.
* Group and channel settings: `comment_updates` is one flag, written by its command and read
  once per delivery.
* The membership and rights checks of `/install_channel` and `/install_channel_webhook`:
  answers of Telegram that are looked at once and not kept.
* Project notices and deletion notices without a card: sent once, never touched again, part
  of the closing step of `TaskDelivery`.
* Encryption of tokens: a token is a model value; one that cannot be decrypted is like no
  binding.
* HTTP details and retry intervals: a call succeeds, fails without effect, or has its effect
  and fails.
* Settings and migrations: run before the rest and have no behaviour of their own.
