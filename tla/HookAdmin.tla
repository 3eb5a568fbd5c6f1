----------------------------- MODULE HookAdmin -----------------------------
(***************************************************************************)
(* How an owner makes, configures and retires webhook routes: the commands *)
(* /webhook and /install_webhook and the buttons of /hooks (bot.py), over  *)
(* the hooks and hook_views tables (database.py) and the webhooks of the   *)
(* project in Vikunja.                                                     *)
(*                                                                         *)
(* aiogram runs every Telegram update as a task of its own, so two buttons *)
(* pressed in a row are two handlers that interleave at their awaits.  A   *)
(* handler reads the hook once, decides from what it read, and writes.     *)
(***************************************************************************)
EXTENDS Naturals, FiniteSets, Sequences

CONSTANTS
  Hooks,       \* the routes that can be made
  Elsewhere,   \* the target of a webhook that is not the bot's
  Views,       \* the views the project starts with
  Fields,      \* what a card can show of a task
  Windows,     \* the lengths of the action window the buttons offer
  Sessions,    \* handlers that can run at once
  PageSize,    \* how many webhooks Vikunja lists
  HasToken,    \* whether VIKUNJBOT_SERVICE_TOKEN is set
  MaxFaults,   \* bound: failed calls and process deaths
  MaxLate,     \* bound: webhook creations that arrive after the bot gave up
  MaxOutside,  \* bound: webhooks pasted or removed in Vikunja by hand
  MaxVanish,   \* bound: views deleted in Vikunja
  MaxForeign,  \* bound: webhooks the project has before the bot's
  MaxOverlaps  \* bound: handlers that begin while another one runs

ASSUME AdminConstants ==
  /\ Hooks # {} /\ Elsewhere \notin Hooks
  /\ PageSize \in Nat
  /\ HasToken \in BOOLEAN
  /\ MaxFaults \in Nat /\ MaxLate \in Nat /\ MaxOutside \in Nat /\ MaxVanish \in Nat
  /\ MaxForeign \in Nat /\ MaxOverlaps \in Nat

VARIABLES
  hook,      \* the hooks table with the views of each hook
  webhook,   \* Vikunja's webhooks of the project, by id
  late,      \* creations still on their way to Vikunja
  existing,  \* the views the project has now
  pc, job,   \* where each handler is, and what it remembers
  faults, lates, outside, vanish, overlaps   \* budgets left

handlerVars == <<pc, job>>
budgetVars == <<faults, lates, outside, vanish, overlaps>>
vars == <<hook, webhook, late, existing, handlerVars, budgetVars>>

-----------------------------------------------------------------------------
DefaultWindow == 86400
Row == [made : BOOLEAN, active : BOOLEAN, retired : BOOLEAN, filter : BOOLEAN,
        views : SUBSET Views, fields : SUBSET Fields, window : Windows \cup {DefaultWindow}]
NewRow(views) == [made |-> TRUE, active |-> TRUE, retired |-> FALSE, filter |-> FALSE,
                  views |-> views, fields |-> Fields, window |-> DefaultWindow]
NoRow == [NewRow({}) EXCEPT !.made = FALSE, !.active = FALSE]

Webhook == [target : Hooks \cup {Elsewhere}, alive : BOOLEAN]

(* "lost" is a handler that ended in an exception nothing catches. *)
Places == {"idle", "active", "window", "field", "filter", "setfilter", "view", "setviews",
           "list", "remove", "confirm", "retire",
           "post", "reconcile", "rollback", "lost"}

(* seen: the hook as the handler read it; chosen: the views it will write; *)
(* found: webhook ids still to be deleted; raced: whether a handler of the *)
(* same setting of the same hook has run beside it.                        *)
Job == [id : Hooks, seen : Row, chosen : SUBSET Views, found : SUBSET (Nat \ {0}),
        raced : BOOLEAN]

Opened(h, seen, views) == [id |-> h, seen |-> seen, chosen |-> views, found |-> {},
                           raced |-> FALSE]
NoJob == Opened(CHOOSE h \in Hooks : TRUE, NoRow, {})

Alive == {i \in DOMAIN webhook : webhook[i].alive}
Matching(h) == {i \in Alive : webhook[i].target = h}

(* What Vikunja lists of them: all, or as many as it lists at once, and    *)
(* which is up to Vikunja.                                                 *)
Pages == {page \in SUBSET Alive : page = Alive \/ Cardinality(page) = PageSize}

TypeOK ==
  /\ hook \in [Hooks -> Row]
  /\ webhook \in Seq(Webhook)
  /\ late \subseteq Hooks
  /\ existing \subseteq Views
  /\ pc \in [Sessions -> Places]
  /\ job \in [Sessions -> Job]
  /\ \A s \in Sessions : /\ pc[s] # "idle" => hook[job[s].id].made
                         /\ job[s].found \subseteq DOMAIN webhook
  /\ faults \in 0 .. MaxFaults /\ lates \in 0 .. MaxLate
  /\ outside \in 0 .. MaxOutside /\ vanish \in 0 .. MaxVanish
  /\ overlaps \in 0 .. MaxOverlaps

Init ==
  /\ hook = [h \in Hooks |-> NoRow]
  /\ webhook \in UNION {[1 .. n -> [target : {Elsewhere}, alive : {TRUE}]] : n \in 0 .. MaxForeign}
  /\ late = {}
  /\ existing = Views
  /\ pc = [s \in Sessions |-> "idle"]
  /\ job = [s \in Sessions |-> NoJob]
  /\ faults = MaxFaults /\ lates = MaxLate
  /\ outside = MaxOutside /\ vanish = MaxVanish
  /\ overlaps = MaxOverlaps

At(s, place) == pc[s] = place
Go(s, place) == pc' = [pc EXCEPT ![s] = place] /\ UNCHANGED job

(* The handler begins with what it has read, or returns. *)
Begin(s, place, memory) == /\ pc' = [pc EXCEPT ![s] = place]
                           /\ job' = [job EXCEPT ![s] = memory]
Leave(s) == Begin(s, "idle", NoJob)

Fault == faults > 0 /\ faults' = faults - 1

(* Another update is taken up; the handlers that run are not waited for.   *)
Quiet == \A s \in Sessions : At(s, "idle")
Sequential == overlaps = MaxOverlaps

Arrives(s) ==
  /\ At(s, "idle")
  /\ \/ Quiet /\ UNCHANGED overlaps
     \/ ~Quiet /\ overlaps > 0 /\ overlaps' = overlaps - 1
  /\ UNCHANGED <<faults, lates, outside, vanish>>

Appears(h) == webhook' = Append(webhook, [target |-> h, alive |-> TRUE])

(* The WHERE of update_owned_hook, replace_owned_hook_views and            *)
(* delete_owned_hook: a retired hook is no longer there to be changed.     *)
Editable(h) == hook[h].made /\ ~hook[h].retired

WriteAnyway(s, row) ==  \* mutant: no "deleted_at IS NULL" in the WHERE
  hook' = [hook EXCEPT ![job[s].id] = row] /\ Leave(s)

(* A write that finds no row is a RuntimeError of the handler's own.       *)
Write(s, row) ==
  LET h == job[s].id
  IN  IF Editable(h)
      THEN hook' = [hook EXCEPT ![h] = row] /\ Leave(s)
      ELSE Go(s, "lost") /\ UNCHANGED hook

-----------------------------------------------------------------------------
(* Making a route. *)

(* _create_hook_target.  Views are chosen among those the project has, and *)
(* only if the worker will be able to read them.  /install_webhook goes on *)
(* to create the webhook, /webhook leaves that to the owner.               *)
CreateTarget(s, h) ==
  /\ Arrives(s)
  /\ ~hook[h].made
  /\ \E views \in SUBSET existing :
       /\ views # {} => HasToken
       /\ hook' = [hook EXCEPT ![h] = NewRow(views)]
  /\ \/ Begin(s, "post", Opened(h, NoRow, {}))
     \/ Leave(s)
  /\ UNCHANGED <<webhook, late, existing>>

Post(s) ==
  /\ At(s, "post")
  /\ Appears(job[s].id)
  /\ Leave(s)
  /\ UNCHANGED <<hook, late, existing, budgetVars>>

PostGivesUp(s) ==  \* mutant: an error of the creation is taken for a refusal
  /\ At(s, "post")
  /\ Fault
  /\ Appears(job[s].id) \/ UNCHANGED webhook
  /\ Go(s, "rollback")
  /\ UNCHANGED <<hook, late, existing, lates, outside, vanish, overlaps>>

(* The creation raises.  Vikunja may have carried it out, may never, or    *)
(* may do so when the request gets through after all.                      *)
PostFails(s) ==
  /\ At(s, "post")
  /\ Fault
  /\ \/ Appears(job[s].id) /\ UNCHANGED <<late, lates>>
     \/ UNCHANGED <<webhook, late, lates>>
     \/ lates > 0 /\ lates' = lates - 1 /\ late' = late \cup {job[s].id}
        /\ UNCHANGED webhook
  /\ Go(s, "reconcile")
  /\ UNCHANGED <<hook, existing, outside, vanish, overlaps>>

(* Is it there?  If even that cannot be found out the route is kept. *)
Reconcile(s) ==
  /\ At(s, "reconcile")
  /\ \E page \in Pages :
       IF page \cap Matching(job[s].id) # {} THEN Leave(s) ELSE Go(s, "rollback")
  /\ UNCHANGED <<hook, webhook, late, existing, budgetVars>>

RetiredRow(h) == [hook[h] EXCEPT !.active = FALSE, !.retired = TRUE]

(* A rollback that finds nothing to retire is reported, not raised. *)
Rollback(s) ==
  /\ At(s, "rollback")
  /\ Editable(job[s].id)
  /\ Write(s, RetiredRow(job[s].id))
  /\ UNCHANGED <<webhook, late, existing, budgetVars>>

RollbackInVain(s) ==
  /\ At(s, "rollback")
  /\ ~Editable(job[s].id)
  /\ Leave(s)
  /\ UNCHANGED <<hook, webhook, late, existing, budgetVars>>

-----------------------------------------------------------------------------
(* The buttons of /hooks: each reads the hook through owned_hook, which    *)
(* does not return a retired one.  A setting has one button, or several    *)
(* that each change a part of it.                                          *)
Handling(place) ==
  IF place \in {"filter", "setfilter"} THEN {"filter", "setfilter"}
  ELSE IF place \in {"view", "setviews"} THEN {"view", "setviews"}
  ELSE {place}

Rivals(s, h, next) ==
  {r \in Sessions \ {s} : job[r].id = h /\ pc[r] \in Handling(next)}

Reads(s, h, next, views) ==
  LET rivals == Rivals(s, h, next)
  IN  /\ pc' = [pc EXCEPT ![s] = next]
      /\ job' = [r \in Sessions |->
           IF r = s THEN [Opened(h, hook[h], views) EXCEPT !.raced = rivals # {}]
           ELSE [job[r] EXCEPT !.raced = @ \/ r \in rivals]]

PressAny(s, h, next, views) ==  \* mutant: the hook is not looked up
  /\ Arrives(s)
  /\ Reads(s, h, next, views)
  /\ UNCHANGED <<hook, webhook, late, existing>>

PressMade(s, h, next, views) ==  \* mutant: a retired hook is found too
  /\ Arrives(s)
  /\ hook[h].made
  /\ Reads(s, h, next, views)
  /\ UNCHANGED <<hook, webhook, late, existing>>

Press(s, h, next, views) ==
  /\ Arrives(s)
  /\ Editable(h)
  /\ Reads(s, h, next, views)
  /\ UNCHANGED <<hook, webhook, late, existing>>

PressButton(s, h) ==
  \E next \in {"active", "window", "field", "filter", "list"} : Press(s, h, next, {})

PressView(s, h, v) == Press(s, h, "view", {v})

Toggled(set, item) == IF item \in set THEN set \ {item} ELSE set \cup {item}

SetWhole(s) ==  \* mutant: the row is written back as it was read
  /\ At(s, "active")
  /\ Write(s, [job[s].seen EXCEPT !.active = ~@])
  /\ UNCHANGED <<webhook, late, existing, budgetVars>>

SetActive(s) ==
  /\ At(s, "active")
  /\ Write(s, [hook[job[s].id] EXCEPT !.active = ~job[s].seen.active])
  /\ UNCHANGED <<webhook, late, existing, budgetVars>>

(* The button says which window, or which field.                           *)
SetWindow(s) ==
  /\ At(s, "window")
  /\ \E window \in Windows : Write(s, [hook[job[s].id] EXCEPT !.window = window])
  /\ UNCHANGED <<webhook, late, existing, budgetVars>>

SetFields(s) ==
  /\ At(s, "field")
  /\ \E field \in Fields :
       Write(s, [hook[job[s].id] EXCEPT !.fields = Toggled(job[s].seen.fields, field)])
  /\ UNCHANGED <<webhook, late, existing, budgetVars>>

(* What the "filter" button checks once Vikunja has listed the views.      *)
MayFilter(seen) == seen.filter \/ (seen.views # {} /\ HasToken)

CheckFilter(s) ==
  /\ At(s, "filter")
  /\ IF MayFilter(job[s].seen) THEN Go(s, "setfilter") ELSE Leave(s)
  /\ UNCHANGED <<hook, webhook, late, existing, budgetVars>>

SetFilter(s) ==
  /\ At(s, "setfilter")
  /\ Write(s, [hook[job[s].id] EXCEPT !.filter = ~job[s].seen.filter])
  /\ UNCHANGED <<webhook, late, existing, budgetVars>>

(* Mutant: the last view may go while the filter is on. *)
MayToggleAny(seen, v) == v \in existing /\ (v \in seen.views \/ HasToken)

MayToggle(seen, v) ==
  /\ v \in existing
  /\ IF v \in seen.views
     THEN ~(seen.filter /\ Cardinality(seen.views) = 1)
     ELSE HasToken

(* The views to write are the toggled selection less what the project no   *)
(* longer has.                                                             *)
ChooseViews(s) ==
  LET v == CHOOSE v \in job[s].chosen : TRUE
      seen == job[s].seen
  IN  /\ At(s, "view")
      /\ IF MayToggle(seen, v)
         THEN Begin(s, "setviews",
                    [job[s] EXCEPT !.chosen = Toggled(seen.views, v) \cap existing])
         ELSE Leave(s)
      /\ UNCHANGED <<hook, webhook, late, existing, budgetVars>>

SetViews(s) ==
  /\ At(s, "setviews")
  /\ Write(s, [hook[job[s].id] EXCEPT !.views = job[s].chosen])
  /\ UNCHANGED <<webhook, late, existing, budgetVars>>

-----------------------------------------------------------------------------
(* Deleting a route: every matching webhook first, one by one, then a      *)
(* second look, and only then the row.                                     *)
ListWebhooks(s) ==
  /\ At(s, "list")
  /\ \E page \in Pages :
       Begin(s, "remove", [job[s] EXCEPT !.found = page \cap Matching(job[s].id)])
  /\ UNCHANGED <<hook, webhook, late, existing, budgetVars>>

(* In the order of the ids.  One that is gone already is an API error,     *)
(* which ends the deletion.                                                *)
RemoveWebhook(s) ==
  /\ At(s, "remove")
  /\ \E i \in job[s].found :
       /\ \A j \in job[s].found : i <= j
       /\ IF webhook[i].alive
          THEN /\ webhook' = [webhook EXCEPT ![i].alive = FALSE]
               /\ Begin(s, "remove", [job[s] EXCEPT !.found = @ \ {i}])
          ELSE Leave(s) /\ UNCHANGED webhook
  /\ UNCHANGED <<hook, late, existing, budgetVars>>

AllRemoved(s) ==
  /\ At(s, "remove")
  /\ job[s].found = {}
  /\ Go(s, "confirm")
  /\ UNCHANGED <<hook, webhook, late, existing, budgetVars>>

Confirm(s) ==
  /\ At(s, "confirm")
  /\ \E page \in Pages :
       IF page \cap Matching(job[s].id) = {} THEN Go(s, "retire") ELSE Leave(s)
  /\ UNCHANGED <<hook, webhook, late, existing, budgetVars>>

Retire(s) ==
  /\ At(s, "retire")
  /\ Write(s, RetiredRow(job[s].id))
  /\ UNCHANGED <<webhook, late, existing, budgetVars>>

(* An API or database call raises and the owner is told, or the process    *)
(* dies; the calls already made stand.                                     *)
GiveUp(s) ==
  /\ pc[s] \notin {"idle", "lost"}
  /\ Fault
  /\ Leave(s)
  /\ UNCHANGED <<hook, webhook, late, existing, lates, outside, vanish, overlaps>>

(* The handler that raised is gone; the next update finds a fresh one. *)
Forget(s) ==
  /\ At(s, "lost")
  /\ Leave(s)
  /\ UNCHANGED <<hook, webhook, late, existing, budgetVars>>

-----------------------------------------------------------------------------
(* Vikunja, and the owner in Vikunja's own interface. *)

Arrive(h) ==
  /\ h \in late
  /\ late' = late \ {h}
  /\ Appears(h)
  /\ UNCHANGED <<hook, existing, handlerVars, budgetVars>>

(* The URL of a route in use is pasted while nothing of the owner's is     *)
(* under way in Telegram.                                                  *)
PasteWebhook(h) ==
  /\ outside > 0 /\ outside' = outside - 1
  /\ Editable(h) /\ Quiet
  /\ Appears(h)
  /\ UNCHANGED <<hook, late, existing, handlerVars, faults, lates, vanish, overlaps>>

RemoveByHand(i) ==
  /\ outside > 0 /\ outside' = outside - 1
  /\ webhook[i].alive
  /\ webhook' = [webhook EXCEPT ![i].alive = FALSE]
  /\ UNCHANGED <<hook, late, existing, handlerVars, faults, lates, vanish, overlaps>>

DeleteView(v) ==
  /\ vanish > 0 /\ vanish' = vanish - 1
  /\ v \in existing
  /\ existing' = existing \ {v}
  /\ UNCHANGED <<hook, webhook, late, handlerVars, faults, lates, outside, overlaps>>

Handler(s) ==
  \/ \E h \in Hooks : CreateTarget(s, h) \/ PressButton(s, h)
  \/ \E h \in Hooks, v \in Views : PressView(s, h, v)
  \/ Post(s) \/ PostFails(s) \/ Reconcile(s) \/ Rollback(s) \/ RollbackInVain(s)
  \/ SetActive(s) \/ SetWindow(s) \/ SetFields(s)
  \/ CheckFilter(s) \/ SetFilter(s) \/ ChooseViews(s) \/ SetViews(s)
  \/ ListWebhooks(s) \/ RemoveWebhook(s) \/ AllRemoved(s) \/ Confirm(s) \/ Retire(s)
  \/ GiveUp(s) \/ Forget(s)

Next ==
  \/ \E s \in Sessions : Handler(s)
  \/ \E h \in Hooks : Arrive(h) \/ PasteWebhook(h)
  \/ \E i \in DOMAIN webhook : RemoveByHand(i)
  \/ \E v \in Views : DeleteView(v)

Spec == Init /\ [][Next]_vars

-----------------------------------------------------------------------------
(* Only a hook that was made is retired. *)
RetiredWasMade == \A h \in Hooks : hook[h].retired => hook[h].made

(* A retired hook is never changed again, least of all enabled, by a       *)
(* button pressed before it was retired (database.py:206-213, 226-235).    *)
RetiredIsFinal ==
  [][\A h \in Hooks : hook[h].retired => hook'[h] = hook[h]]_vars

(* No webhook of Vikunja's sends events to a retired route, where the      *)
(* relay would accept and drop them (README.md:219-221, relay.py:69-76),   *)
(* as long as handlers do not overlap, no creation arrives after it was    *)
(* given up, and the other webhooks of the project leave room in the list  *)
(* (vikunja.py:49-53): with a full page of them the bot looks in vain.     *)
Others(h) == {i \in DOMAIN webhook : webhook[i].target # h}

NoOrphanWebhook ==
  Sequential /\ lates = MaxLate =>
    \A h \in Hooks :
      hook[h].retired /\ Cardinality(Others(h)) < PageSize => Matching(h) = {}

(* A route that filters by views has views to filter by; without any the   *)
(* worker raises on each of its events, for good (event_worker.py:147-149).*)
FilterHasViews ==
  \A h \in Hooks : Editable(h) /\ hook[h].filter => hook[h].views # {}

(* So it is while handlers do not overlap and no view is deleted.          *)
FilterKeepsViews == Sequential /\ vanish = MaxVanish => FilterHasViews

(* While handlers do not overlap, one that has seen the hook as its        *)
(* owner's can write it: the RuntimeErrors marked as unreachable are       *)
(* (bot.py:345, 403, 441, 738-739).  Two handlers at once do reach them.   *)
OwnershipCheckHolds == Sequential => \A s \in Sessions : ~At(s, "lost")

(* A press counts: a handler that writes a setting changes it, unless      *)
(* another handler of the same setting has run beside it and made what it  *)
(* read stale; and nothing else changes the setting.  Handlers of other    *)
(* settings do no harm, because each writes its own columns                *)
(* (bot.py:339-348, 359-376, 384-445, database.py:193-214).                *)
Settings == {"active", "field", "setfilter", "setviews"}

Changes(h, place) ==
  \/ place = "active" /\ hook'[h].active # hook[h].active
  \/ place = "field" /\ hook'[h].fields # hook[h].fields
  \/ place = "setfilter" /\ hook'[h].filter # hook[h].filter
  \/ place = "setviews" /\ hook'[h].views # hook[h].views

PressCounts ==
  [][\A h \in Hooks, place \in Settings : Editable(h) /\ Editable(h)' =>
       LET handlers == {s \in Sessions : At(s, place) /\ job[s].id = h}
       IN  /\ Changes(h, place) => handlers # {}
           /\ \A s \in handlers :
                ~At(s, place)' /\ UNCHANGED faults /\ ~job[s].raced => Changes(h, place)]_vars
=============================================================================
