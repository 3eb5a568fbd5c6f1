---------------------------- MODULE TaskDelivery ----------------------------
(***************************************************************************)
(* EventWorker._deliver and what it calls: how the events of one hook      *)
(* become Telegram cards, one card per task, and rows of task_messages     *)
(* that say which card a reply may act on.                                 *)
(*                                                                         *)
(* A delivery is a program counter that stops at every await: the reads of *)
(* the hook, of Vikunja and of the mapping, the Telegram calls and the     *)
(* writes of the mapping are steps of their own, and between two of them   *)
(* the task may change, the card may be removed, the hook may be switched  *)
(* off, another worker may deliver, or the process may die.                *)
(*                                                                         *)
(* Events come from WorkQueue, whose promise LeasedQueue establishes.      *)
(***************************************************************************)
EXTENDS WorkQueue, Sequences, FiniteSets

CONSTANTS
  Tasks,       \* tasks of the hook's project
  NViews,      \* how many project views the hook selects
  HookModes,   \* what the hook may show: see Modes
  MaxFaults,   \* bound: failed calls and process deaths
  MaxLost,     \* bound: cards removed in Telegram, or fixed there as they are
  MaxSwitches, \* bound: times the owner switches the hook on or off
  MaxLapses    \* bound: events delivered after their permission window

(* "alone": there is no service account, and nothing is read from Vikunja; *)
(* "embedded": the task object of the webhook is shown as it came;         *)
(* "fresh": views are selected, or a bucket is to be looked up, so the     *)
(* task is read again when delivered;                                      *)
(* "filtered": delivery is restricted to the views (filter_by_views).      *)
Modes == {"alone", "embedded", "fresh", "filtered"}
Views == 1 .. NViews

ASSUME DeliveryConstants ==
  /\ NViews \in Nat /\ HookModes \subseteq Modes
  /\ "filtered" \in HookModes => NViews > 0
  /\ MaxFaults \in Nat /\ MaxLost \in Nat
  /\ MaxSwitches \in Nat /\ MaxLapses \in Nat

VARIABLES
  vik,     \* Vikunja: each task as it is now
  event,   \* the payloads stored with the queued events
  hook,    \* the hook: whether it is active, and what it shows
  row,     \* task_messages: the mapping of each task
  chat,    \* the cards in the delivery destination, by message id
  pc,      \* where each worker is
  job,     \* what each worker remembers between awaits
  stopped, \* the workers whose loop a database error has ended
  faults, lost, switches, lapses   \* budgets left

deliveryVars == <<row, chat, pc, job, stopped>>
budgetVars == <<faults, lost, switches, lapses>>
vars == <<status, held, vik, event, hook, deliveryVars, budgetVars>>

-----------------------------------------------------------------------------
(* A task's displayable state is a version and whether it is done. *)
Snapshot == [ver : 0 .. MaxEvents, done : BOOLEAN]
Snap(ver, done) == [ver |-> ver, done |-> done]
Blank == Snap(0, FALSE)

(* A comment event names its task but may not embed it. *)
Kinds == {"update", "comment", "delete"}
Payload == [kind : Kinds, task : Tasks, snap : Snapshot]

NoMsg == 0
MsgIds == Nat \ {NoMsg}
Mapping == [msg : MsgIds \cup {NoMsg}, deleted : BOOLEAN, filtered : BOOLEAN,
            snap : Snapshot]
NoMapping == [msg |-> NoMsg, deleted |-> FALSE, filtered |-> FALSE, snap |-> Blank]

Faces == {"live", "deleted", "filtered"}
(* shown: nobody has removed it; fixed: Telegram lets nobody edit it.      *)
Card == [task : Tasks, face : Faces, snap : Snapshot, tick : BOOLEAN,
         shown : BOOLEAN, fixed : BOOLEAN]

(* What one view answers when asked for the task of the event. *)
Answer == [kind : {"none", "absent", "failed", "hit"}, snap : Snapshot]
Reply(kind, snap) == [kind |-> kind, snap |-> snap]
Unasked == [v \in Views |-> Reply("none", Blank)]

(* task: the task object to show; answers: of the views asked so far;      *)
(* found: the mapping as it was read; target: the message worked on.       *)
Job == [task : Snapshot, answers : [Views -> Answer], found : Mapping,
        target : MsgIds \cup {NoMsg}]
NewJob(snap) == [task |-> snap, answers |-> Unasked, found |-> NoMapping,
                 target |-> NoMsg]
NoJob == NewJob(Blank)

Places == {"idle", "hook", "task", "views", "row", "edit", "send", "save",
           "react", "mark", "close"}

Task == [exists : BOOLEAN, snap : Snapshot, in : SUBSET Views]
Hook == [active : BOOLEAN, mode : HookModes]

TypeOK ==
  /\ QueueTypeOK
  /\ vik \in [Tasks -> Task]
  /\ event \in Seq(Payload) /\ Len(event) <= MaxEvents
  /\ \A i \in Ids : status[i] # "absent" <=> i <= Len(event)
  /\ hook \in Hook
  /\ row \in [Tasks -> Mapping]
  /\ \A t \in Tasks : row[t].msg <= Len(chat)
  /\ chat \in Seq(Card)
  /\ pc \in [Workers -> Places]
  /\ \A w \in Workers : pc[w] = "idle" <=> held[w] = NoEvent
  /\ job \in [Workers -> Job]
  /\ stopped \in SUBSET Workers
  /\ faults \in 0 .. MaxFaults /\ lost \in 0 .. MaxLost
  /\ switches \in 0 .. MaxSwitches /\ lapses \in 0 .. MaxLapses

Init ==
  /\ QueueInit
  /\ vik = [t \in Tasks |-> [exists |-> TRUE, snap |-> Blank, in |-> Views]]
  /\ event = << >>
  /\ hook \in [active : {TRUE}, mode : HookModes]
  /\ row = [t \in Tasks |-> NoMapping]
  /\ chat = << >>
  /\ pc = [w \in Workers |-> "idle"]
  /\ job = [w \in Workers |-> NoJob]
  /\ stopped = {}
  /\ faults = MaxFaults /\ lost = MaxLost
  /\ switches = MaxSwitches /\ lapses = MaxLapses

Mine(w) == event[held[w]]

(* A call fails: it raises, or it is answered by an error.                 *)
Fault == faults > 0 /\ faults' = faults - 1

Go(w, place) == pc' = [pc EXCEPT ![w] = place]

At(w, place) == pc[w] = place

-----------------------------------------------------------------------------
(* The world outside the worker.  A change in Vikunja and the event it     *)
(* causes are one step: what separates them, the ingress buffer and the    *)
(* sink, keeps their order and only accepts while the hook is active.      *)
Announce(payload) ==
  /\ hook.active
  /\ Len(event) < MaxEvents
  /\ Accept(Len(event) + 1)
  /\ event' = Append(event, payload)
  /\ UNCHANGED <<hook, deliveryVars, budgetVars>>

Payloads(kind, t, snap) == [kind |-> kind, task |-> t, snap |-> snap]

(* Which views a task is in matters only to a hook that filters by them.   *)
ChangeTask(t) ==
  /\ vik[t].exists
  /\ \E done \in BOOLEAN, in \in SUBSET Views :
       LET snap == Snap(vik[t].snap.ver + 1, done)
       IN  /\ snap \in Snapshot
           /\ hook.mode = "filtered" \/ in = Views
           /\ vik' = [vik EXCEPT ![t] = [exists |-> TRUE, snap |-> snap, in |-> in]]
           /\ Announce(Payloads("update", t, snap))

CommentOnTask(t) ==
  /\ vik[t].exists
  /\ Announce(Payloads("comment", t, Blank))
  /\ UNCHANGED vik

DeleteTask(t) ==
  /\ vik[t].exists
  /\ vik' = [vik EXCEPT ![t] = [exists |-> FALSE, snap |-> vik[t].snap, in |-> {}]]
  /\ Announce(Payloads("delete", t, vik[t].snap))

(* Someone removes the card in Telegram: neither edits nor reactions reach *)
(* it again, and nobody can reply to it.                                   *)
RemoveCard(m) ==
  /\ lost > 0 /\ chat[m].shown
  /\ chat' = [chat EXCEPT ![m].shown = FALSE]
  /\ lost' = lost - 1
  /\ UNCHANGED <<QueueVars, vik, event, hook, row, pc, job, stopped, faults, switches, lapses>>

(* Telegram refuses to edit the card from now on ("message can't be        *)
(* edited"), because it is too old for one.  Everybody still sees it, can  *)
(* reply to it, and it takes reactions.                                    *)
FixCard(m) ==
  /\ lost > 0 /\ chat[m].shown /\ ~chat[m].fixed
  /\ chat' = [chat EXCEPT ![m].fixed = TRUE]
  /\ lost' = lost - 1
  /\ UNCHANGED <<QueueVars, vik, event, hook, row, pc, job, stopped, faults, switches, lapses>>

(* The owner disables or enables the hook in /hooks. *)
SwitchHook ==
  /\ switches > 0
  /\ switches' = switches - 1
  /\ hook' = [hook EXCEPT !.active = ~@]
  /\ UNCHANGED <<QueueVars, vik, event, deliveryVars, faults, lost, lapses>>

-----------------------------------------------------------------------------
(* A delivery, await by await. *)

Start(w) ==
  /\ At(w, "idle") /\ w \notin stopped
  /\ \E i \in Ids : Take(w, i) /\ job' = [job EXCEPT ![w] = NewJob(event[i].snap)]
  /\ Go(w, "hook")
  /\ UNCHANGED <<vik, event, hook, row, chat, stopped, budgetVars>>

FirstRead(w) ==
  IF Mine(w).kind = "delete" THEN "row"
  ELSE IF hook.mode = "filtered" THEN "views"
  ELSE IF hook.mode = "alone" /\ Mine(w).kind = "comment" THEN "close"
  ELSE IF hook.mode = "fresh" \/ Mine(w).kind = "comment" THEN "task"
  ELSE "row"

(* get_active_hook, and what _deliver decides from the hook alone: without *)
(* a service account a comment has no task to show.                        *)
ReadHook(w) ==
  /\ At(w, "hook")
  /\ hook.active
  /\ Go(w, FirstRead(w))
  /\ UNCHANGED <<QueueVars, vik, event, hook, row, chat, job, stopped, budgetVars>>

IgnoreInactive(w) ==
  /\ At(w, "hook")
  /\ ~hook.active
  /\ Go(w, "close")
  /\ UNCHANGED <<QueueVars, vik, event, hook, row, chat, job, stopped, budgetVars>>

(* The permission window of anything but a deletion may be over. *)
IgnoreAnyExpired(w) ==  \* mutant: of a deletion too
  /\ At(w, "hook")
  /\ hook.active
  /\ lapses > 0 /\ lapses' = lapses - 1
  /\ Go(w, "close")
  /\ UNCHANGED <<QueueVars, vik, event, hook, row, chat, job, stopped, faults, lost, switches>>

IgnoreExpired(w) ==
  /\ At(w, "hook")
  /\ hook.active /\ Mine(w).kind # "delete"
  /\ lapses > 0 /\ lapses' = lapses - 1
  /\ Go(w, "close")
  /\ UNCHANGED <<QueueVars, vik, event, hook, row, chat, job, stopped, faults, lost, switches>>

(* EventEnricher.task: the task as the service account sees it now.        *)
ReadTask(w) ==
  /\ At(w, "task")
  /\ vik[Mine(w).task].exists
  /\ job' = [job EXCEPT ![w].task = vik[Mine(w).task].snap]
  /\ Go(w, "row")
  /\ UNCHANGED <<QueueVars, vik, event, hook, row, chat, stopped, budgetVars>>

(* The read fails, because the task is gone or the call did not get        *)
(* through.  The embedded task stands in; without one there is no task and *)
(* the event is dropped as a "non-task event".                             *)
ReadTaskFails(w) ==
  /\ At(w, "task")
  /\ \/ ~vik[Mine(w).task].exists /\ UNCHANGED faults
     \/ vik[Mine(w).task].exists /\ Fault
  /\ Go(w, IF Mine(w).kind = "comment" THEN "close" ELSE "row")
  /\ UNCHANGED <<QueueVars, vik, event, hook, row, chat, job, stopped, lost, switches, lapses>>

(* task_visible_in_views asks every view at once and waits for all: the    *)
(* answers come in any order, each true when it was given.                 *)
AskView(w, v) ==
  /\ At(w, "views")
  /\ job[w].answers[v].kind = "none"
  /\ \E answer \in {Reply("hit", vik[Mine(w).task].snap), Reply("absent", Blank),
                    Reply("failed", Blank)} :
       /\ answer.kind = "hit" => v \in vik[Mine(w).task].in
       /\ answer.kind = "absent" => v \notin vik[Mine(w).task].in
       /\ IF answer.kind = "failed" THEN Fault ELSE UNCHANGED faults
       /\ job' = [job EXCEPT ![w].answers[v] = answer]
  /\ UNCHANGED <<QueueVars, vik, event, hook, row, chat, pc, stopped, lost, switches, lapses>>

Answered(w, kind) == {v \in Views : job[w].answers[v].kind = kind}

(* The first matching view supplies the task; a failure matters only when  *)
(* no view matched, and then it is raised.                                 *)
NoHit(w) == Answered(w, "hit") = {}  \* mutant: an error counts as an absence

Absent(w) == Answered(w, "hit") = {} /\ Answered(w, "failed") = {}

JudgeViews(w) ==
  /\ At(w, "views")
  /\ Answered(w, "none") = {}
  /\ \/ \E v \in Answered(w, "hit") :
          /\ \A u \in Answered(w, "hit") : v <= u
          /\ job' = [job EXCEPT ![w].task = job[w].answers[v].snap]
     \/ Absent(w) /\ UNCHANGED job
  /\ Go(w, "row")
  /\ UNCHANGED <<QueueVars, vik, event, hook, row, chat, stopped, budgetVars>>

(* Which of the three procedures a delivery is in once the views are known. *)
NotEverywhere(w) == Answered(w, "hit") # Views  \* mutant: AND instead of OR

Nowhere(w) == Answered(w, "hit") = {}

Path(w) ==
  IF Mine(w).kind = "delete" THEN "deleted"
  ELSE IF hook.mode = "filtered" /\ Nowhere(w) THEN "filtered"
  ELSE "live"

(* get_task_message, and the early returns that depend on the mapping.  A  *)
(* deletion or a filtered event without a card to change posts at most a   *)
(* notice that nobody can act on.                                          *)
(* Mutant: a deleted mapping is not looked at. *)
StopsButForDeleted(w, found) ==
  Path(w) # "live" /\ (found.msg = NoMsg \/ (Path(w) = "filtered" /\ found.filtered))

Stops(w, found) == \/ found.deleted
                   \/ Path(w) = "filtered" /\ found.filtered
                   \/ Path(w) # "live" /\ found.msg = NoMsg

(* Mutant: a card outside the views is not restored but sent again. *)
HasLiveCard(found) == found.msg # NoMsg /\ ~found.filtered

HasCard(found) == found.msg # NoMsg

ReadRow(w) ==
  LET found == row[Mine(w).task]
  IN  /\ At(w, "row")
      /\ Go(w, IF Stops(w, found) THEN "close"
               ELSE IF HasCard(found) THEN "edit" ELSE "send")
      /\ job' = [job EXCEPT ![w] = [task |-> @.task, answers |-> @.answers,
                                    found |-> found, target |-> found.msg]]
      /\ UNCHANGED <<QueueVars, vik, event, hook, row, chat, stopped, budgetVars>>

(* edit_message_text.  A live card that cannot be edited is replaced; a    *)
(* deletion or a filtered event goes on without it.                        *)
Text(w) == IF Path(w) = "live" THEN job[w].task ELSE job[w].found.snap

(* Mutants: the text of the card is left as it was; a card is rendered as  *)
(* a live one whatever happened to the task.                               *)
Reread(w, card) == [card EXCEPT !.face = Path(w)]
Unrevoked(w, card) == [card EXCEPT !.snap = Text(w)]

Edited(w, card) == [task |-> card.task, face |-> Path(w), snap |-> Text(w),
                    tick |-> card.tick, shown |-> card.shown, fixed |-> card.fixed]

Editable(m) == chat[m].shown /\ ~chat[m].fixed

EditCard(w) ==
  LET m == job[w].target
  IN  /\ At(w, "edit")
      /\ IF Editable(m) THEN chat' = [chat EXCEPT ![m] = Edited(w, @)]
                        ELSE UNCHANGED chat
      /\ Go(w, IF Path(w) = "live"
               THEN IF Editable(m) THEN "save" ELSE "send"
               ELSE IF job[w].found.snap.done THEN "react" ELSE "mark")
      /\ UNCHANGED <<QueueVars, vik, event, hook, row, job, stopped, budgetVars>>

SendCard(w) ==
  /\ At(w, "send")
  /\ chat' = Append(chat, [task |-> Mine(w).task, face |-> "live",
                           snap |-> job[w].task, tick |-> FALSE,
                           shown |-> TRUE, fixed |-> FALSE])
  /\ job' = [job EXCEPT ![w].target = Len(chat) + 1]
  /\ Go(w, "save")
  /\ UNCHANGED <<QueueVars, vik, event, hook, row, stopped, budgetVars>>

(* The reaction is synchronised on a new card if the task is done, on an   *)
(* old one if the snapshot read before the edit says otherwise.            *)
(* Mutant: a replacement is compared with the card it replaces. *)
MustReactIfChanged(w) == job[w].found.snap.done # job[w].task.done

MustReact(w) ==
  IF job[w].found.msg # job[w].target
  THEN job[w].task.done
  ELSE job[w].found.snap.done # job[w].task.done

(* save_task_message: an upsert that leaves a deleted mapping alone.       *)
Live(msg, snap) == [msg |-> msg, deleted |-> FALSE, filtered |-> FALSE, snap |-> snap]

(* Mutants: the upsert without its WHERE; one that does not move the       *)
(* mapping to a replacement.                                               *)
SavedAnyway(w, old) == Live(job[w].target, job[w].task)
SavedInPlace(w, old) ==
  IF old.deleted THEN old
  ELSE Live(IF old.msg = NoMsg THEN job[w].target ELSE old.msg, job[w].task)

Saved(w, old) == IF old.deleted THEN old ELSE Live(job[w].target, job[w].task)

SaveRow(w) ==
  LET t == Mine(w).task
  IN  /\ At(w, "save")
      /\ row' = [row EXCEPT ![t] = Saved(w, @)]
      /\ Go(w, IF MustReact(w) THEN "react" ELSE "close")
      /\ UNCHANGED <<QueueVars, vik, event, hook, chat, job, stopped, budgetVars>>

(* _sync_done_reaction: an error of Telegram's is logged and forgotten.    *)
React(w) ==
  LET m == job[w].target
      tick == Path(w) = "live" /\ job[w].task.done
  IN  /\ At(w, "react")
      /\ IF chat[m].shown THEN chat' = [chat EXCEPT ![m].tick = tick]
                          ELSE UNCHANGED chat
      /\ Go(w, IF Path(w) = "live" THEN "close" ELSE "mark")
      /\ UNCHANGED <<QueueVars, vik, event, hook, row, job, stopped, budgetVars>>

ReactFailsForAll(w) ==  \* mutant: the error ends the delivery
  /\ At(w, "react")
  /\ Fault
  /\ Go(w, "close")
  /\ UNCHANGED <<QueueVars, vik, event, hook, row, chat, job, stopped, lost, switches, lapses>>

ReactFails(w) ==
  /\ At(w, "react")
  /\ Fault
  /\ Go(w, IF Path(w) = "live" THEN "close" ELSE "mark")
  /\ UNCHANGED <<QueueVars, vik, event, hook, row, chat, job, stopped, lost, switches, lapses>>

(* mark_task_message_deleted, mark_task_message_filtered_out.              *)
Marked(w, old) ==
  IF Path(w) = "deleted" THEN [old EXCEPT !.deleted = TRUE]
  ELSE IF old.deleted THEN old
  ELSE [old EXCEPT !.filtered = TRUE]

MarkRow(w) ==
  LET t == Mine(w).task
  IN  /\ At(w, "mark")
      /\ row' = [row EXCEPT ![t] = Marked(w, @)]
      /\ Go(w, "close")
      /\ UNCHANGED <<QueueVars, vik, event, hook, chat, job, stopped, budgetVars>>

(* complete_event, after the change summary where one is due: a reply that *)
(* is posted once and never touched again.                                 *)
Close(w) ==
  /\ At(w, "close")
  /\ Finish(w)
  /\ Go(w, "idle")
  /\ job' = [job EXCEPT ![w] = NoJob]
  /\ UNCHANGED <<vik, event, hook, row, chat, stopped, budgetVars>>

(* The delivery ends early: an await raises, or the process dies.  A call  *)
(* that raised had no effect, or had it and only its answer was lost: the  *)
(* interruption comes before the step or after it.                         *)
Swallow(w) ==  \* mutant: the error is logged and the event not given back
  /\ pc[w] # "idle"
  /\ Go(w, "idle")
  /\ job' = [job EXCEPT ![w] = NoJob]
  /\ UNCHANGED <<QueueVars, vik, event, hook, row, chat, lost, switches, lapses>>

Interrupt(w) ==
  /\ pc[w] # "idle"
  /\ GiveBack(w)
  /\ Go(w, "idle")
  /\ job' = [job EXCEPT ![w] = NoJob]
  /\ UNCHANGED <<vik, event, hook, row, chat, lost, switches, lapses>>

Fails(w) == Interrupt(w) /\ Fault /\ UNCHANGED stopped

(* The claim raises, or the completion or the retry does: nothing catches  *)
(* it, run() ends and nobody looks at its task again.  An event it held is *)
(* given back as its lease runs out.                                       *)
Stop(w) ==
  /\ w \notin stopped
  /\ stopped' = stopped \cup {w}
  /\ Fault
  /\ \/ /\ At(w, "idle")
        /\ UNCHANGED <<QueueVars, vik, event, hook, row, chat, pc, job,
                       lost, switches, lapses>>
     \/ Interrupt(w)

(* Someone starts the container again. *)
Restart(w) ==
  /\ w \in stopped
  /\ stopped' = stopped \ {w}
  /\ UNCHANGED <<QueueVars, vik, event, hook, row, chat, pc, job, budgetVars>>

(* A view answered with an error and none matched: the fault is spent.     *)
ViewsFail(w) ==
  /\ At(w, "views")
  /\ Answered(w, "none") = {} /\ Answered(w, "hit") = {} /\ Answered(w, "failed") # {}
  /\ Interrupt(w)
  /\ UNCHANGED <<faults, stopped>>

Step(w) ==
  \/ Start(w) \/ ReadHook(w) \/ IgnoreInactive(w)
  \/ ReadTask(w) \/ ReadTaskFails(w)
  \/ (\E v \in Views : AskView(w, v)) \/ JudgeViews(w) \/ ViewsFail(w)
  \/ ReadRow(w) \/ EditCard(w) \/ SendCard(w) \/ SaveRow(w)
  \/ React(w) \/ ReactFails(w) \/ MarkRow(w) \/ Close(w)

Next ==
  \/ \E t \in Tasks : ChangeTask(t) \/ CommentOnTask(t) \/ DeleteTask(t)
  \/ \E m \in DOMAIN chat : RemoveCard(m) \/ FixCard(m)
  \/ SwitchHook
  \/ \E w \in Workers : Step(w) \/ IgnoreExpired(w) \/ Fails(w) \/ Stop(w) \/ Restart(w)

Spec == Init /\ [][Next]_vars

(* A running worker polls and goes on; nothing outside it has to happen,   *)
(* and nobody has to start one that stopped.                               *)
FairSpec == Spec /\ \A w \in Workers : WF_vars(Step(w))

-----------------------------------------------------------------------------
(* What a reply may act on: find_task_message joins the mapping with an    *)
(* active hook and skips deleted and filtered rows.                        *)
Actionable(t) == /\ hook.active
                 /\ row[t].msg # NoMsg /\ ~row[t].deleted /\ ~row[t].filtered
                 /\ chat[row[t].msg].shown

Settled == \A i \in Ids : status[i] \in {"absent", "done"}

(* An event about the task has been queued that brings the task along, or  *)
(* can be looked up.                                                       *)
Announced(t) ==
  \E i \in DOMAIN event :
    event[i].task = t /\ (hook.mode = "alone" => event[i].kind # "comment")

(* A card that Telegram lets nobody edit stays as it is when it is         *)
(* replaced, and is not counted.                                           *)
Strays == {m \in DOMAIN chat : /\ Editable(m) /\ chat[m].face = "live"
                               /\ row[chat[m].task].msg # m}

(* A card that lost its mapping to a deletion says so, unless Telegram     *)
(* lets nobody edit it: the row is marked only after the card, and nothing *)
(* makes the card look live again (event_worker.py:300-317,                *)
(* README.md:296-297).                                                     *)
DeletedCardSaysSo ==
  \A t \in Tasks :
    row[t].deleted /\ row[t].msg # NoMsg /\ Editable(row[t].msg) =>
      chat[row[t].msg].face = "deleted"

(* Each interrupted delivery leaves at most one live card that could be    *)
(* edited and that no reply can reach, and an uninterrupted one leaves     *)
(* none (README.md:352-355).                                               *)
OneStrayPerFault ==
  Cardinality(Strays)
    <= (MaxFaults - faults) + Cardinality({w \in Workers : At(w, "save")})

(* A task keeps its card: the mapping moves to another message only when   *)
(* the card it pointed to was removed or can no longer be edited           *)
(* (event_worker.py:307-308, README.md:283-284, 291-292).                  *)
TaskKeepsItsCard ==
  [][\A t \in Tasks : row[t].msg # NoMsg /\ row'[t].msg # row[t].msg
                        => ~Editable(row[t].msg)]_vars

(* A deleted mapping is never revived or moved, by whichever delivery      *)
(* comes late (database.py:498-501).                                       *)
DeletionIsFinal ==
  [][\A t \in Tasks : row[t].deleted => row'[t] = row[t]]_vars

(* At rest a deleted task has nothing left that a reply could act on       *)
(* (event_worker.py:291-292, README.md:296-297).                           *)
DeletedTaskNotActionable ==
  Settled => \A t \in Tasks : ~vik[t].exists => ~Actionable(t)

(* At rest the bot's check mark is on the card exactly when the task is    *)
(* done (README.md:309-313).                                               *)
ReactionMatchesDone ==
  Settled => \A t \in Tasks :
    Actionable(t) => chat[row[t].msg].tick = vik[t].snap.done

(* Both hold under a condition.  An event that is tried a second time is   *)
(* delivered after younger ones, which only a hook that asks Vikunja for   *)
(* the task each time can bear; and an event dropped because its hook was  *)
(* off or its window over is not made up for.                              *)
NothingDropped == switches = MaxSwitches /\ lapses = MaxLapses
InOrder == NothingDropped /\ (hook.mode = "filtered" \/ faults = MaxFaults)
Undisturbed == NothingDropped /\ faults = MaxFaults

(* A filtering hook retries a deletion or a change as often as it takes    *)
(* and leaves a deleted task without an actionable card; another hook does *)
(* when no delivery has to be repeated.                                    *)
DeletionRevokes == InOrder => DeletedTaskNotActionable

(* The check mark is right wherever a hook does not filter, as long as no  *)
(* delivery is cut off between the mapping and the reaction                *)
(* (event_worker.py:249-268).                                              *)
ReactionFollows == Undisturbed /\ hook.mode # "filtered" => ReactionMatchesDone

(* At rest the card shows the task as it is: the last state Vikunja        *)
(* announced, or "filtered out" if no selected view has the task; and      *)
(* every task an event was about has a card (README.md:283-284, 299-304).  *)
CardConverges ==
  InOrder /\ Settled => \A t \in Tasks :
    vik[t].exists /\ Announced(t) =>
      IF hook.mode = "filtered" /\ vik[t].in = {}
      THEN ~Actionable(t)
      ELSE /\ row[t].msg # NoMsg /\ ~row[t].deleted /\ ~row[t].filtered
           /\ chat[row[t].msg].shown =>
                /\ chat[row[t].msg].face = "live"
                /\ chat[row[t].msg].snap = vik[t].snap

(* At rest a card whose mapping is filtered out says so, unless Telegram   *)
(* lets nobody edit it, or a delivery was cut off after it restored the    *)
(* card and before it saved the mapping                                    *)
(* (README.md:302-304, event_worker.py:168-199, 226-257).                  *)
FilteredCardSaysSo ==
  Undisturbed /\ Settled => \A t \in Tasks :
    row[t].filtered /\ ~row[t].deleted /\ Editable(row[t].msg) =>
      chat[row[t].msg].face = "filtered"

(* Once Vikunja has deleted a task, replies stop acting on it for good,    *)
(* unless every worker has been stopped by a database error and nobody     *)
(* starts one again (event_worker.py:107-129, bot.py:886-893).             *)
DeletionTakesEffect ==
  \A t \in Tasks :
    ~vik[t].exists ~> ([](~Actionable(t)) \/ [](stopped = Workers))
=============================================================================
