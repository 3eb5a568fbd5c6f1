-------------------------- MODULE HookAdminProofs --------------------------
(***************************************************************************)
(* For any number of routes, views, webhooks and handlers at once: the     *)
(* types of HookAdmin, that a retired route is never changed again, and,   *)
(* while handlers do not overlap, that a handler finds its hook still      *)
(* there when it writes, that no webhook is left behind a retired route,   *)
(* that a hook that filters has views, and that each press of a button     *)
(* counts.                                                                 *)
(***************************************************************************)
EXTENDS HookAdmin, SequenceTheorems, FiniteSetTheorems, TLAPS

(* The part of TypeOK about handlers, and what the invariant needs beside  *)
(* the types.                                                              *)
HandlersOK ==
  /\ pc \in [Sessions -> Places]
  /\ job \in [Sessions -> Job]
  /\ \A s \in Sessions : /\ pc[s] # "idle" => hook[job[s].id].made
                         /\ job[s].found \subseteq DOMAIN webhook

AdminInv == TypeOK /\ RetiredWasMade

(* What no step undoes: rows stay made and webhook ids stay given. *)
Grows == /\ \A h \in Hooks : hook[h].made => hook'[h].made
         /\ DOMAIN webhook \subseteq DOMAIN webhook'

Frozen == \A h \in Hooks : hook[h].retired => hook'[h] = hook[h]

-----------------------------------------------------------------------------
(* How one handler's move leaves all of them typed. *)

LEMMA BeginKeepsHandlers ==
  ASSUME HandlersOK, Grows,
         NEW s \in Sessions, NEW place \in Places, NEW memory \in Job,
         Begin(s, place, memory),
         place # "idle" => hook'[memory.id].made,
         memory.found \subseteq DOMAIN webhook'
  PROVE  HandlersOK'
<1>1. pc' \in [Sessions -> Places] /\ job' \in [Sessions -> Job]
  BY DEF HandlersOK, Begin
<1>2. ASSUME NEW t \in Sessions
      PROVE  /\ pc'[t] # "idle" => hook'[job'[t].id].made
             /\ job'[t].found \subseteq DOMAIN webhook'
  <2>1. CASE t = s
    BY <2>1 DEF HandlersOK, Begin
  <2>2. CASE t # s
    <3>1. pc'[t] = pc[t] /\ job'[t] = job[t]
      BY <2>2 DEF HandlersOK, Begin
    <3>2. job[t].id \in Hooks
      BY DEF HandlersOK, Job
    <3> QED
      BY <3>1, <3>2 DEF HandlersOK, Grows
  <2> QED
    BY <2>1, <2>2
<1> QED
  BY <1>1, <1>2 DEF HandlersOK

LEMMA OpenedTyped ==
  ASSUME NEW h \in Hooks, NEW seen \in Row, NEW views \in SUBSET Views
  PROVE  /\ Opened(h, seen, views) \in Job
         /\ Opened(h, seen, views).id = h
         /\ Opened(h, seen, views).found = {}
BY DEF Opened, Job

LEMMA NoRowTyped == NoRow \in Row /\ ~NoRow.retired
BY DEF NoRow, NewRow, Row

LEMMA NoJobTyped == NoJob \in Job /\ NoJob.found = {}
<1>1. (CHOOSE h \in Hooks : TRUE) \in Hooks
  BY AdminConstants
<1> QED
  BY <1>1, NoRowTyped, OpenedTyped DEF NoJob

LEMMA LeaveKeepsHandlers ==
  ASSUME HandlersOK, Grows, NEW s \in Sessions, Leave(s)
  PROVE  HandlersOK'
BY BeginKeepsHandlers, NoJobTyped DEF Leave, Places

LEMMA GoKeepsHandlers ==
  ASSUME HandlersOK, Grows, NEW s \in Sessions, pc[s] # "idle",
         NEW place \in Places, Go(s, place)
  PROVE  HandlersOK'
<1>1. job[s] \in Job /\ job[s].id \in Hooks
  BY DEF HandlersOK, Job
<1>2. Begin(s, place, job[s])
  BY DEF Go, Begin, HandlersOK
<1>3. hook'[job[s].id].made /\ job[s].found \subseteq DOMAIN webhook'
  BY <1>1 DEF HandlersOK, Grows
<1> QED
  BY <1>1, <1>2, <1>3, BeginKeepsHandlers

LEMMA NothingMoves ==
  ASSUME HandlersOK, Grows, UNCHANGED handlerVars
  PROVE  HandlersOK'
<1>1. \A s \in Sessions : job[s].id \in Hooks
  BY DEF HandlersOK, Job
<1> QED
  BY <1>1 DEF HandlersOK, Grows, handlerVars

-----------------------------------------------------------------------------
(* What the steps do to the two tables. *)

LEMMA TablesUntouched ==
  ASSUME UNCHANGED <<hook, webhook>>
  PROVE  Grows /\ Frozen
BY DEF Grows, Frozen

LEMMA AppearsTyped ==
  ASSUME webhook \in Seq(Webhook), NEW h \in Hooks, Appears(h), UNCHANGED hook
  PROVE  webhook' \in Seq(Webhook) /\ Grows /\ Frozen
<1>1. [target |-> h, alive |-> TRUE] \in Webhook
  BY DEF Webhook
<1>2. /\ webhook' \in Seq(Webhook)
      /\ Len(webhook') = Len(webhook) + 1
  BY <1>1, AppendProperties DEF Appears
<1>3. /\ DOMAIN webhook = 1 .. Len(webhook) /\ DOMAIN webhook' = 1 .. Len(webhook')
      /\ Len(webhook) \in Nat
  BY <1>2, LenProperties
<1>4. DOMAIN webhook \subseteq DOMAIN webhook'
  BY <1>2, <1>3
<1> QED
  BY <1>2, <1>4 DEF Grows, Frozen

LEMMA RemovalTyped ==
  ASSUME webhook \in Seq(Webhook), NEW i \in DOMAIN webhook,
         webhook' = [webhook EXCEPT ![i].alive = FALSE], UNCHANGED hook
  PROVE  webhook' \in Seq(Webhook) /\ Grows /\ Frozen
<1>1. webhook[i] \in Webhook
  BY ElementOfSeq
<1>2. [webhook[i] EXCEPT !.alive = FALSE] \in Webhook
  BY <1>1 DEF Webhook
<1>3. webhook' = [webhook EXCEPT ![i] = [webhook[i] EXCEPT !.alive = FALSE]]
  OBVIOUS
<1>4. webhook' \in Seq(Webhook) /\ DOMAIN webhook' = DOMAIN webhook
  BY <1>2, <1>3, ExceptSeq
<1> QED
  BY <1>4 DEF Grows, Frozen

LEMMA MatchingTyped ==
  ASSUME webhook \in Seq(Webhook), NEW h \in Hooks
  PROVE  Matching(h) \in SUBSET (Nat \ {0}) /\ Matching(h) \subseteq DOMAIN webhook
<1>1. DOMAIN webhook = 1 .. Len(webhook) /\ Len(webhook) \in Nat
  BY LenProperties
<1> QED
  BY <1>1 DEF Matching, Alive

(* Write changes at most the handler's own hook, and that one only while   *)
(* it is made and not retired.                                             *)
LEMMA WriteEffect ==
  ASSUME AdminInv, NEW s \in Sessions, pc[s] # "idle", UNCHANGED webhook,
         NEW row \in Row, row.made, Write(s, row)
  PROVE  hook' \in [Hooks -> Row] /\ HandlersOK' /\ RetiredWasMade' /\ Frozen
<1> DEFINE h == job[s].id
<1>0. HandlersOK /\ hook \in [Hooks -> Row] /\ RetiredWasMade
  BY DEF AdminInv, TypeOK, HandlersOK
<1>1. h \in Hooks
  BY <1>0 DEF HandlersOK, Job
<1>2. CASE Editable(h)
  <2>1. hook' = [hook EXCEPT ![h] = row] /\ Leave(s)
    BY <1>2 DEF Write
  <2>2. Grows
    BY <2>1, <1>0, <1>1 DEF Grows
  <2>3. HandlersOK'
    BY <1>0, <2>1, <2>2, LeaveKeepsHandlers
  <2>4. hook' \in [Hooks -> Row] /\ RetiredWasMade'
    BY <2>1, <1>0, <1>1 DEF RetiredWasMade
  <2>5. Frozen
    BY <2>1, <1>0, <1>1, <1>2 DEF Frozen, Editable
  <2> QED
    BY <2>3, <2>4, <2>5
<1>3. CASE ~Editable(h)
  <2>1. Go(s, "lost") /\ UNCHANGED hook
    BY <1>3 DEF Write
  <2>2. HandlersOK'
    BY <1>0, <2>1, TablesUntouched, GoKeepsHandlers DEF Places
  <2> QED
    BY <1>0, <2>1, <2>2, TablesUntouched DEF RetiredWasMade
<1> QED
  BY <1>2, <1>3

(* The rows that are written. *)
LEMMA WrittenRows ==
  ASSUME AdminInv, NEW s \in Sessions, pc[s] # "idle"
  PROVE  LET row == hook[job[s].id]
             seen == job[s].seen
         IN  /\ [row EXCEPT !.active = ~seen.active] \in {r \in Row : r.made}
             /\ [row EXCEPT !.filter = ~seen.filter] \in {r \in Row : r.made}
             /\ [row EXCEPT !.views = job[s].chosen] \in {r \in Row : r.made}
             /\ RetiredRow(job[s].id) \in {r \in Row : r.made}
             /\ \A window \in Windows :
                  [row EXCEPT !.window = window] \in {r \in Row : r.made}
             /\ \A field \in Fields :
                  [row EXCEPT !.fields = Toggled(seen.fields, field)] \in {r \in Row : r.made}
<1> DEFINE row == hook[job[s].id]
<1>1. /\ job[s] \in Job /\ job[s].id \in Hooks
      /\ job[s].seen \in Row /\ job[s].chosen \in SUBSET Views
  BY DEF AdminInv, TypeOK, Job
<1>2. row \in Row /\ row.made
  BY <1>1 DEF AdminInv, TypeOK
<1>3. row = [made |-> TRUE, active |-> row.active, retired |-> row.retired,
             filter |-> row.filter, views |-> row.views, fields |-> row.fields,
             window |-> row.window]
  BY <1>2 DEF Row
<1>4. job[s].seen.active \in BOOLEAN /\ job[s].seen.filter \in BOOLEAN
      /\ job[s].seen.fields \in SUBSET Fields
  BY <1>1 DEF Row
<1>5. \A field \in Fields : Toggled(job[s].seen.fields, field) \in SUBSET Fields
  BY <1>4 DEF Toggled
<1> HIDE DEF row
<1>6. \A field \in Fields :
        [row EXCEPT !.fields = Toggled(job[s].seen.fields, field)] \in {r \in Row : r.made}
  BY <1>2, <1>3, <1>5 DEF Row
<1> QED
  BY <1>1, <1>2, <1>3, <1>4, <1>6 DEF Row, RetiredRow, row

-----------------------------------------------------------------------------
(* The conjuncts of AdminInv, with those about the handlers in one. *)
LEMMA InvParts ==
  AdminInv <=> /\ hook \in [Hooks -> Row] /\ webhook \in Seq(Webhook)
               /\ late \subseteq Hooks /\ existing \subseteq Views
               /\ HandlersOK /\ RetiredWasMade
               /\ faults \in 0 .. MaxFaults /\ lates \in 0 .. MaxLate
               /\ outside \in 0 .. MaxOutside /\ vanish \in 0 .. MaxVanish
               /\ overlaps \in 0 .. MaxOverlaps
BY DEF AdminInv, TypeOK, HandlersOK

LEMMA InvPartsNext ==
  ASSUME hook' \in [Hooks -> Row], webhook' \in Seq(Webhook), late' \subseteq Hooks,
         existing' \subseteq Views, HandlersOK', RetiredWasMade',
         faults' \in 0 .. MaxFaults, lates' \in 0 .. MaxLate,
         outside' \in 0 .. MaxOutside, vanish' \in 0 .. MaxVanish,
         overlaps' \in 0 .. MaxOverlaps
  PROVE  AdminInv'
BY DEF AdminInv, TypeOK, HandlersOK

LEMMA FaultTyped ==
  ASSUME faults \in 0 .. MaxFaults, Fault
  PROVE  faults' \in 0 .. MaxFaults
BY AdminConstants DEF Fault

LEMMA ArrivesTyped ==
  ASSUME AdminInv, NEW s \in Sessions, Arrives(s)
  PROVE  /\ overlaps' \in 0 .. MaxOverlaps
         /\ UNCHANGED <<faults, lates, outside, vanish>>
BY AdminConstants DEF AdminInv, TypeOK, Arrives

(* A handler's step that touches neither table nor the world. *)
LEMMA QuietStep ==
  ASSUME AdminInv, HandlersOK', UNCHANGED <<hook, webhook, late, existing>>,
         faults' \in 0 .. MaxFaults, overlaps' \in 0 .. MaxOverlaps,
         UNCHANGED <<lates, outside, vanish>>
  PROVE  AdminInv' /\ Frozen
<1>1. RetiredWasMade' /\ Frozen
  BY InvParts DEF RetiredWasMade, Frozen
<1> QED
  BY <1>1, InvParts, InvPartsNext

(* A handler's step that writes its hook. *)
LEMMA WriteStep ==
  ASSUME AdminInv, NEW s \in Sessions, pc[s] # "idle",
         NEW row \in Row, row.made, Write(s, row),
         UNCHANGED <<webhook, late, existing, budgetVars>>
  PROVE  AdminInv' /\ Frozen
<1>1. hook' \in [Hooks -> Row] /\ HandlersOK' /\ RetiredWasMade' /\ Frozen
  BY WriteEffect
<1> QED
  BY <1>1, InvParts, InvPartsNext DEF budgetVars

(* Making a route keeps the invariant and what is retired. *)
LEMMA MakingStep ==
  ASSUME AdminInv, NEW s \in Sessions,
         \/ \E h \in Hooks : CreateTarget(s, h)
         \/ Post(s) \/ PostFails(s) \/ Reconcile(s) \/ Rollback(s) \/ RollbackInVain(s)
  PROVE  AdminInv' /\ Frozen
<1> USE DEF At
<1>0. HandlersOK /\ job[s] \in Job /\ job[s].id \in Hooks
  BY InvParts DEF HandlersOK, Job
<1>1. ASSUME NEW h \in Hooks, CreateTarget(s, h) PROVE AdminInv' /\ Frozen
  <2>1. PICK views \in SUBSET existing : hook' = [hook EXCEPT ![h] = NewRow(views)]
    BY <1>1 DEF CreateTarget
  <2>2. views \in SUBSET Views
    BY InvParts
  <2>3. NewRow(views) \in Row /\ NewRow(views).made /\ ~NewRow(views).retired
    BY <2>2 DEF NewRow, Row
  <2>4. hook' \in [Hooks -> Row] /\ RetiredWasMade' /\ hook'[h].made
    BY <2>1, <2>3, InvParts DEF RetiredWasMade
  <2>5. Grows /\ Frozen
    BY <1>1, <2>1, <2>3, InvParts DEF Grows, Frozen, CreateTarget, RetiredWasMade
  <2>7. Opened(h, NoRow, {}) \in Job /\ Opened(h, NoRow, {}).id = h
        /\ Opened(h, NoRow, {}).found = {}
    BY NoRowTyped, OpenedTyped
  <2>8. HandlersOK'
    <3>1. CASE Begin(s, "post", Opened(h, NoRow, {}))
      BY <3>1, <1>0, <2>4, <2>5, <2>7, BeginKeepsHandlers DEF Places
    <3>2. CASE Leave(s)
      BY <3>2, <1>0, <2>5, LeaveKeepsHandlers
    <3> QED
      BY <1>1, <3>1, <3>2 DEF CreateTarget
  <2> QED
    BY <1>1, <2>4, <2>5, <2>8, ArrivesTyped, InvParts, InvPartsNext DEF CreateTarget
<1>2. ASSUME Post(s) PROVE AdminInv' /\ Frozen
  <2>1. webhook' \in Seq(Webhook) /\ Grows /\ Frozen
    BY <1>2, <1>0, InvParts, AppearsTyped DEF Post
  <2>2. HandlersOK'
    BY <1>2, <1>0, <2>1, LeaveKeepsHandlers DEF Post
  <2>3. RetiredWasMade'
    BY <1>2, InvParts DEF Post, RetiredWasMade
  <2> QED
    BY <1>2, <2>1, <2>2, <2>3, InvParts, InvPartsNext DEF Post, budgetVars
<1>3. ASSUME PostFails(s) PROVE AdminInv' /\ Frozen
  <2>1. webhook' \in Seq(Webhook) /\ Grows /\ Frozen
    <3>1. CASE Appears(job[s].id)
      BY <3>1, <1>3, <1>0, InvParts, AppearsTyped DEF PostFails
    <3>2. CASE UNCHANGED webhook
      BY <3>2, <1>3, InvParts, TablesUntouched DEF PostFails
    <3> QED
      BY <1>3, <3>1, <3>2 DEF PostFails
  <2>2. HandlersOK'
    BY <1>3, <1>0, <2>1, GoKeepsHandlers DEF PostFails, Places
  <2>3. RetiredWasMade' /\ hook' \in [Hooks -> Row] /\ existing' \subseteq Views
        /\ outside' \in 0 .. MaxOutside /\ vanish' \in 0 .. MaxVanish
        /\ overlaps' \in 0 .. MaxOverlaps
    BY <1>3, InvParts DEF PostFails, RetiredWasMade
  <2>4. late' \subseteq Hooks /\ lates' \in 0 .. MaxLate
    BY <1>3, <1>0, InvParts, AdminConstants DEF PostFails
  <2>5. faults' \in 0 .. MaxFaults
    BY <1>3, InvParts, FaultTyped DEF PostFails
  <2> QED
    BY <2>1, <2>2, <2>3, <2>4, <2>5, InvPartsNext
<1>4. ASSUME Reconcile(s) PROVE AdminInv' /\ Frozen
  <2>1. Grows
    BY <1>4, TablesUntouched DEF Reconcile
  <2>2. HandlersOK'
    BY <1>4, <1>0, <2>1, GoKeepsHandlers, LeaveKeepsHandlers DEF Reconcile, Places
  <2> QED
    BY <1>4, <2>2, QuietStep, InvParts DEF Reconcile, budgetVars
<1>5. ASSUME Rollback(s) PROVE AdminInv' /\ Frozen
  BY <1>5, WrittenRows, WriteStep DEF Rollback
<1>6. ASSUME RollbackInVain(s) PROVE AdminInv' /\ Frozen
  <2>1. HandlersOK'
    BY <1>6, <1>0, TablesUntouched, LeaveKeepsHandlers DEF RollbackInVain
  <2> QED
    BY <1>6, <2>1, QuietStep, InvParts DEF RollbackInVain, budgetVars
<1> QED
  BY <1>1, <1>2, <1>3, <1>4, <1>5, <1>6

(* The buttons that configure a route. *)
LEMMA ConfiguringStep ==
  ASSUME AdminInv, NEW s \in Sessions,
         \/ \E h \in Hooks : PressButton(s, h)
         \/ \E h \in Hooks, v \in Views : PressView(s, h, v)
         \/ SetActive(s) \/ SetWindow(s) \/ SetFields(s) \/ CheckFilter(s) \/ SetFilter(s) \/ ChooseViews(s) \/ SetViews(s)
  PROVE  AdminInv' /\ Frozen
<1> USE DEF At
<1>0. /\ HandlersOK /\ job[s] \in Job /\ job[s].id \in Hooks
      /\ job[s].seen \in Row /\ job[s].seen.views \in SUBSET Views
  BY InvParts DEF HandlersOK, Job, Row
<1>1. ASSUME NEW h \in Hooks, NEW next \in Places, NEW views \in SUBSET Views,
             Press(s, h, next, views)
      PROVE  AdminInv' /\ Frozen
  <2> DEFINE memory == [Opened(h, hook[h], views) EXCEPT !.raced = Rivals(s, h, next) # {}]
  <2>1. Grows
    BY <1>1, TablesUntouched DEF Press
  <2>2. hook[h] \in Row /\ hook'[h].made
    BY <1>1, InvParts DEF Press, Editable
  <2>3. memory \in Job /\ memory.id = h /\ memory.found = {}
    BY <2>2 DEF Opened, Job
  <2>4. /\ pc' = [pc EXCEPT ![s] = next]
        /\ job' = [r \in Sessions |-> IF r = s THEN memory
                                      ELSE [job[r] EXCEPT !.raced = @ \/ r \in Rivals(s, h, next)]]
    BY <1>1 DEF Press, Reads
  <2>5. HandlersOK'
    <3> HIDE DEF memory
    <3>1. ASSUME NEW r \in Sessions
          PROVE  /\ job'[r] \in Job
                 /\ pc'[r] # "idle" => hook'[job'[r].id].made
                 /\ job'[r].found \subseteq DOMAIN webhook'
      <4>1. CASE r = s
        BY <4>1, <2>2, <2>3, <2>4
      <4>2. CASE r # s
        <5>1. job'[r] = [job[r] EXCEPT !.raced = @ \/ r \in Rivals(s, h, next)] /\ pc'[r] = pc[r]
          BY <4>2, <2>4, <1>0 DEF HandlersOK
        <5>2. job[r] \in Job /\ job[r].id \in Hooks
          BY <1>0 DEF HandlersOK, Job
        <5>3. /\ job'[r] \in Job /\ job'[r].id = job[r].id /\ job'[r].found = job[r].found
          BY <5>1, <5>2 DEF Job
        <5> QED
          BY <5>1, <5>2, <5>3, <2>1, <1>0 DEF HandlersOK, Grows
      <4> QED
        BY <4>1, <4>2
    <3>2. pc' \in [Sessions -> Places]
      BY <2>4, <1>0 DEF HandlersOK
    <3> QED
      BY <2>4, <3>1, <3>2 DEF HandlersOK
  <2> QED
    BY <1>1, <2>5, QuietStep, ArrivesTyped, InvParts DEF Press
<1>2. ASSUME NEW h \in Hooks, PressButton(s, h) PROVE AdminInv' /\ Frozen
  BY <1>1, <1>2 DEF PressButton, Places
<1>3. ASSUME NEW h \in Hooks, NEW v \in Views, PressView(s, h, v)
      PROVE  AdminInv' /\ Frozen
  BY <1>1, <1>3 DEF PressView, Places
<1>4. ASSUME SetActive(s) PROVE AdminInv' /\ Frozen
  BY <1>4, WrittenRows, WriteStep DEF SetActive
<1>9. ASSUME SetWindow(s) PROVE AdminInv' /\ Frozen
  BY <1>9, WrittenRows, WriteStep DEF SetWindow
<1>10. ASSUME SetFields(s) PROVE AdminInv' /\ Frozen
  BY <1>10, WrittenRows, WriteStep DEF SetFields
<1>5. ASSUME CheckFilter(s) PROVE AdminInv' /\ Frozen
  <2>1. Grows
    BY <1>5, TablesUntouched DEF CheckFilter
  <2>2. HandlersOK'
    BY <1>5, <1>0, <2>1, GoKeepsHandlers, LeaveKeepsHandlers DEF CheckFilter, Places
  <2> QED
    BY <1>5, <2>2, QuietStep, InvParts DEF CheckFilter, budgetVars
<1>6. ASSUME SetFilter(s) PROVE AdminInv' /\ Frozen
  BY <1>6, WrittenRows, WriteStep DEF SetFilter
<1>7. ASSUME ChooseViews(s) PROVE AdminInv' /\ Frozen
  <2> DEFINE v == CHOOSE v \in job[s].chosen : TRUE
             views == Toggled(job[s].seen.views, v) \cap existing
             memory == [job[s] EXCEPT !.chosen = views]
  <2>1. Grows
    BY <1>7, TablesUntouched DEF ChooseViews
  <2>2. views \in SUBSET Views
    BY InvParts
  <2>3. memory \in Job /\ memory.id = job[s].id /\ memory.found = job[s].found
    BY <1>0, <2>2 DEF Job
  <2>4. hook'[job[s].id].made
    BY <1>7, <1>0 DEF ChooseViews, HandlersOK
  <2>5. HandlersOK'
    <3>1. CASE Begin(s, "setviews", memory)
      <4>1. memory.found \subseteq DOMAIN webhook'
        BY <1>0, <2>1, <2>3 DEF HandlersOK, Grows
      <4> HIDE DEF memory
      <4> QED
        BY <3>1, <4>1, <1>0, <2>1, <2>3, <2>4, BeginKeepsHandlers DEF Places
    <3>2. CASE Leave(s)
      BY <3>2, <1>0, <2>1, LeaveKeepsHandlers
    <3> QED
      BY <1>7, <3>1, <3>2 DEF ChooseViews
  <2> QED
    BY <1>7, <2>5, QuietStep, InvParts DEF ChooseViews, budgetVars
<1>8. ASSUME SetViews(s) PROVE AdminInv' /\ Frozen
  BY <1>8, WrittenRows, WriteStep DEF SetViews
<1> QED
  BY <1>2, <1>3, <1>4, <1>5, <1>6, <1>7, <1>8, <1>9, <1>10

(* Deleting a route, and a handler that ends early. *)
LEMMA DeletingStep ==
  ASSUME AdminInv, NEW s \in Sessions,
         \/ ListWebhooks(s) \/ RemoveWebhook(s) \/ AllRemoved(s) \/ Confirm(s)
         \/ Retire(s) \/ GiveUp(s) \/ Forget(s)
  PROVE  AdminInv' /\ Frozen
<1> USE DEF At
<1>0. /\ HandlersOK /\ webhook \in Seq(Webhook)
      /\ job[s] \in Job /\ job[s].id \in Hooks /\ job[s].found \subseteq DOMAIN webhook
  BY InvParts DEF HandlersOK, Job
<1>1. ASSUME NEW found \in SUBSET (Nat \ {0}), found \subseteq DOMAIN webhook
      PROVE  LET memory == [job[s] EXCEPT !.found = found]
             IN  memory \in Job /\ memory.id = job[s].id /\ memory.found = found
  BY <1>0, <1>1 DEF Job
<1>2. ASSUME ListWebhooks(s) PROVE AdminInv' /\ Frozen
  <2>0. PICK page \in Pages :
          Begin(s, "remove", [job[s] EXCEPT !.found = page \cap Matching(job[s].id)])
    BY <1>2 DEF ListWebhooks
  <2> DEFINE found == page \cap Matching(job[s].id)
             memory == [job[s] EXCEPT !.found = found]
  <2>1. Grows
    BY <1>2, TablesUntouched DEF ListWebhooks
  <2>2. memory \in Job /\ memory.id = job[s].id /\ memory.found = found
    BY <1>0, <1>1, MatchingTyped
  <2>3. memory.found \subseteq DOMAIN webhook'
    BY <1>2, <1>0, <2>2, MatchingTyped DEF ListWebhooks
  <2>4. hook'[memory.id].made
    BY <1>2, <1>0, <2>2 DEF ListWebhooks, HandlersOK
  <2>5. Begin(s, "remove", memory)
    BY <2>0
  <2>6. HandlersOK'
    <3> HIDE DEF memory
    <3> QED
      BY <1>0, <2>1, <2>2, <2>3, <2>4, <2>5, BeginKeepsHandlers DEF Places
  <2> QED
    BY <1>2, <2>6, QuietStep, InvParts DEF ListWebhooks, budgetVars
<1>3. ASSUME RemoveWebhook(s) PROVE AdminInv' /\ Frozen
  <2>1. PICK i \in job[s].found :
          IF webhook[i].alive
          THEN /\ webhook' = [webhook EXCEPT ![i].alive = FALSE]
               /\ Begin(s, "remove", [job[s] EXCEPT !.found = @ \ {i}])
          ELSE Leave(s) /\ UNCHANGED webhook
    BY <1>3 DEF RemoveWebhook
  <2>2. webhook' \in Seq(Webhook) /\ Grows /\ Frozen
    BY <1>3, <1>0, <2>1, RemovalTyped, TablesUntouched DEF RemoveWebhook
  <2>3. HandlersOK'
    <3>1. CASE webhook[i].alive
      <4> DEFINE memory == [job[s] EXCEPT !.found = job[s].found \ {i}]
      <4>1. memory \in Job /\ memory.id = job[s].id /\ memory.found = job[s].found \ {i}
        BY <1>0, <1>1 DEF Job
      <4>2. memory.found \subseteq DOMAIN webhook'
        BY <1>0, <2>2, <4>1 DEF Grows
      <4>3. hook'[memory.id].made
        BY <1>3, <1>0, <4>1 DEF RemoveWebhook, HandlersOK
      <4>4. Begin(s, "remove", memory)
        BY <2>1, <3>1
      <4> HIDE DEF memory
      <4> QED
        BY <1>0, <2>2, <4>1, <4>2, <4>3, <4>4, BeginKeepsHandlers DEF Places
    <3>2. CASE ~webhook[i].alive
      BY <3>2, <1>0, <2>1, <2>2, LeaveKeepsHandlers
    <3> QED
      BY <3>1, <3>2
  <2>4. RetiredWasMade'
    BY <1>3, InvParts DEF RemoveWebhook, RetiredWasMade
  <2> QED
    BY <1>3, <2>2, <2>3, <2>4, InvParts, InvPartsNext DEF RemoveWebhook, budgetVars
<1>4. ASSUME AllRemoved(s) PROVE AdminInv' /\ Frozen
  <2>1. HandlersOK'
    BY <1>4, <1>0, TablesUntouched, GoKeepsHandlers DEF AllRemoved, Places
  <2> QED
    BY <1>4, <2>1, QuietStep, InvParts DEF AllRemoved, budgetVars
<1>5. ASSUME Confirm(s) PROVE AdminInv' /\ Frozen
  <2>1. Grows
    BY <1>5, TablesUntouched DEF Confirm
  <2>2. HandlersOK'
    BY <1>5, <1>0, <2>1, GoKeepsHandlers, LeaveKeepsHandlers DEF Confirm, Places
  <2> QED
    BY <1>5, <2>2, QuietStep, InvParts DEF Confirm, budgetVars
<1>6. ASSUME Retire(s) PROVE AdminInv' /\ Frozen
  BY <1>6, WrittenRows, WriteStep DEF Retire
<1>7. ASSUME GiveUp(s) PROVE AdminInv' /\ Frozen
  <2>1. HandlersOK'
    BY <1>7, <1>0, TablesUntouched, LeaveKeepsHandlers DEF GiveUp
  <2>2. faults' \in 0 .. MaxFaults
    BY <1>7, InvParts, FaultTyped DEF GiveUp
  <2> QED
    BY <1>7, <2>1, <2>2, QuietStep, InvParts DEF GiveUp
<1>8. ASSUME Forget(s) PROVE AdminInv' /\ Frozen
  <2>1. HandlersOK'
    BY <1>8, <1>0, TablesUntouched, LeaveKeepsHandlers DEF Forget
  <2> QED
    BY <1>8, <2>1, QuietStep, InvParts DEF Forget, budgetVars
<1> QED
  BY <1>2, <1>3, <1>4, <1>5, <1>6, <1>7, <1>8

(* Vikunja and the owner outside Telegram. *)
LEMMA OutsideStep ==
  ASSUME AdminInv,
         \/ \E h \in Hooks : Arrive(h) \/ PasteWebhook(h)
         \/ \E i \in DOMAIN webhook : RemoveByHand(i)
         \/ \E v \in Views : DeleteView(v)
  PROVE  AdminInv' /\ Frozen
<1>1. UNCHANGED hook /\ UNCHANGED handlerVars /\ late' \subseteq Hooks
      /\ existing' \subseteq Views
  BY InvParts DEF Arrive, PasteWebhook, RemoveByHand, DeleteView
<1>2. webhook' \in Seq(Webhook) /\ Grows /\ Frozen
  <2>1. CASE \E h \in Hooks : Arrive(h) \/ PasteWebhook(h)
    BY <2>1, <1>1, InvParts, AppearsTyped DEF Arrive, PasteWebhook
  <2>2. CASE \E i \in DOMAIN webhook : RemoveByHand(i)
    BY <2>2, <1>1, InvParts, RemovalTyped DEF RemoveByHand
  <2>3. CASE \E v \in Views : DeleteView(v)
    BY <2>3, <1>1, InvParts, TablesUntouched DEF DeleteView
  <2> QED
    BY <2>1, <2>2, <2>3
<1>3. HandlersOK'
  BY <1>1, <1>2, InvParts, NothingMoves
<1>4. RetiredWasMade' /\ hook' \in [Hooks -> Row]
  BY <1>1, InvParts DEF RetiredWasMade
<1>5. /\ faults' \in 0 .. MaxFaults /\ lates' \in 0 .. MaxLate
      /\ outside' \in 0 .. MaxOutside /\ vanish' \in 0 .. MaxVanish
      /\ overlaps' \in 0 .. MaxOverlaps
  BY InvParts, AdminConstants DEF Arrive, PasteWebhook, RemoveByHand, DeleteView, budgetVars
<1> QED
  BY <1>1, <1>2, <1>3, <1>4, <1>5, InvPartsNext

LEMMA AdminInit == Init => AdminInv
<1> SUFFICES ASSUME Init PROVE AdminInv
  OBVIOUS
<1>1. NoRow \in Row /\ ~NoRow.retired
  BY NoRowTyped
<1>2. hook \in [Hooks -> Row] /\ RetiredWasMade
  BY <1>1 DEF Init, RetiredWasMade
<1>3. webhook \in Seq(Webhook)
  <2> DEFINE Foreign == [target : {Elsewhere}, alive : {TRUE}]
  <2>1. PICK n \in 0 .. MaxForeign : webhook \in [1 .. n -> Foreign]
    BY DEF Init
  <2>2. n \in Nat
    BY AdminConstants
  <2>3. Foreign \subseteq Webhook
    BY DEF Webhook
  <2>4. Seq(Webhook) = UNION {[1 .. k -> Webhook] : k \in Nat}
    BY SeqDef, Zenon
  <2> HIDE DEF Foreign
  <2>5. webhook \in [1 .. n -> Webhook]
    BY <2>1, <2>3
  <2> QED
    BY <2>2, <2>4, <2>5, Zenon
<1>4. HandlersOK
  BY NoJobTyped DEF Init, HandlersOK, Places
<1>5. late \subseteq Hooks /\ existing \subseteq Views
  BY DEF Init
<1>6. /\ faults \in 0 .. MaxFaults /\ lates \in 0 .. MaxLate
      /\ outside \in 0 .. MaxOutside /\ vanish \in 0 .. MaxVanish
      /\ overlaps \in 0 .. MaxOverlaps
  BY AdminConstants DEF Init
<1> QED
  BY <1>2, <1>3, <1>4, <1>5, <1>6, InvParts

LEMMA AdminStep ==
  ASSUME AdminInv, [Next]_vars
  PROVE  AdminInv' /\ Frozen
<1>1. CASE \E s \in Sessions : Handler(s)
  BY <1>1, MakingStep, ConfiguringStep, DeletingStep DEF Handler
<1>2. CASE \/ \E h \in Hooks : Arrive(h) \/ PasteWebhook(h)
           \/ \E i \in DOMAIN webhook : RemoveByHand(i)
           \/ \E v \in Views : DeleteView(v)
  BY <1>2, OutsideStep
<1>3. CASE UNCHANGED vars
  <2>1. HandlersOK'
    BY <1>3, TablesUntouched, NothingMoves, InvParts DEF vars
  <2> QED
    BY <1>3, <2>1, QuietStep, InvParts DEF vars, budgetVars
<1> QED
  BY <1>1, <1>2, <1>3 DEF Next

-----------------------------------------------------------------------------
(* The tables and the handlers' memories keep their types: no handler ever *)
(* acts for a hook that was never made, nor on a webhook id that Vikunja   *)
(* never gave (bot.py:315-472, 632-755).                                   *)
THEOREM AdminTypeCorrect == Spec => []TypeOK
<1>1. Init => AdminInv
  BY AdminInit
<1>2. AdminInv /\ [Next]_vars => AdminInv'
  BY AdminStep
<1>3. AdminInv => TypeOK
  BY DEF AdminInv
<1> QED
  BY <1>1, <1>2, <1>3, PTL DEF Spec

(* However many handlers run at once, a retired route is never changed     *)
(* again: the WHERE of the three writing methods is enough by itself       *)
(* (database.py:206-213, 226-237, 258-268).                                *)
THEOREM RetirementIsFinal == Spec => RetiredIsFinal
<1>1. Init => AdminInv
  BY AdminInit
<1>2. AdminInv /\ [Next]_vars => AdminInv'
  BY AdminStep
<1>3. AdminInv /\ [Next]_vars
        => [\A h \in Hooks : hook[h].retired => hook'[h] = hook[h]]_vars
  BY AdminStep DEF Frozen
<1> QED
  BY <1>1, <1>2, <1>3, PTL DEF Spec, RetiredIsFinal

-----------------------------------------------------------------------------
(* One handler at a time. *)

(* What a handler knows of its hook, and of its webhooks once it has looked*)
(* a second time.                                                          *)
Sure(s) ==
  pc[s] # "idle" =>
    /\ pc[s] # "lost" /\ Editable(job[s].id)
    /\ lates = MaxLate /\ pc[s] \in {"retire", "rollback"}
         /\ Cardinality(Others(job[s].id)) < PageSize
       => Matching(job[s].id) = {}

OneHandler == \A s, t \in Sessions : pc[s] # "idle" /\ pc[t] # "idle" => s = t

CalmInv ==
  /\ lates = MaxLate => late = {}
  /\ Sequential => OneHandler /\ \A s \in Sessions : Sure(s)
  /\ NoOrphanWebhook

(* No step gives a budget back, or a webhook another target.               *)
BudgetsSpent == /\ overlaps' = MaxOverlaps => overlaps = MaxOverlaps
                /\ lates' = MaxLate => lates = MaxLate

TargetsKept == /\ DOMAIN webhook \subseteq DOMAIN webhook'
               /\ \A i \in DOMAIN webhook : webhook'[i].target = webhook[i].target

LEMMA FewerOthers ==
  ASSUME AdminInv, AdminInv', TargetsKept, NEW h \in Hooks,
         Cardinality(Others(h)') < PageSize
  PROVE  Cardinality(Others(h)) < PageSize
<1>1. /\ DOMAIN webhook' = 1 .. Len(webhook') /\ Len(webhook') \in Nat
  BY LenProperties DEF AdminInv, TypeOK
<1>2. IsFiniteSet(DOMAIN webhook')
  BY <1>1, FS_Interval
<1>3. Others(h)' \subseteq DOMAIN webhook' /\ Others(h) \subseteq Others(h)'
  BY DEF Others, TargetsKept
<1>4. IsFiniteSet(Others(h)')
  BY <1>2, <1>3, FS_Subset
<1>5. Cardinality(Others(h)) <= Cardinality(Others(h)') /\ IsFiniteSet(Others(h))
  BY <1>3, <1>4, FS_Subset
<1>6. Cardinality(Others(h)) \in Nat /\ Cardinality(Others(h)') \in Nat /\ PageSize \in Nat
  BY <1>4, <1>5, FS_CardinalityType, AdminConstants
<1> QED
  BY <1>5, <1>6

(* A page without a match shows that there is none, unless other webhooks  *)
(* can fill it.                                                            *)
LEMMA PageTells ==
  ASSUME AdminInv, NEW h \in Hooks, NEW page \in Pages, page \cap Matching(h) = {},
         Cardinality(Others(h)) < PageSize
  PROVE  Matching(h) = {}
<1>1. page \subseteq Alive /\ (page = Alive \/ Cardinality(page) = PageSize)
  BY DEF Pages
<1>2. CASE page = Alive
  BY <1>2 DEF Matching
<1>3. CASE Cardinality(page) = PageSize
  <2>1. page \subseteq Others(h) /\ Others(h) \subseteq DOMAIN webhook
    BY <1>1 DEF Others, Matching, Alive
  <2>2. DOMAIN webhook = 1 .. Len(webhook) /\ Len(webhook) \in Nat
    BY LenProperties DEF AdminInv, TypeOK
  <2>3. IsFiniteSet(Others(h))
    <3>1. IsFiniteSet(DOMAIN webhook)
      BY <2>2, FS_Interval
    <3> QED
      BY <2>1, <3>1, FS_Subset
  <2>4. Cardinality(page) <= Cardinality(Others(h))
    BY <2>1, <2>3, FS_Subset
  <2>5. Cardinality(Others(h)) \in Nat /\ PageSize \in Nat
    BY <2>3, FS_CardinalityType, AdminConstants
  <2> QED
    BY <1>3, <2>4, <2>5
<1> QED
  BY <1>1, <1>2, <1>3

LEMMA OrphansKept ==
  ASSUME AdminInv, AdminInv', NoOrphanWebhook, BudgetsSpent, TargetsKept,
         \A h \in Hooks : hook'[h].retired => hook[h].retired /\ Matching(h)' \subseteq Matching(h)
  PROVE  NoOrphanWebhook'
BY FewerOthers DEF NoOrphanWebhook, Sequential, BudgetsSpent

(* The handler that moves is the only one. *)
LEMMA OnlyOneMoves ==
  ASSUME CalmInv, BudgetsSpent, NEW s \in Sessions,
         Sequential' => pc[s] # "idle" \/ Quiet,
         \A t \in Sessions \ {s} : pc'[t] = pc[t],
         Sequential' => Sure(s)'
  PROVE  Sequential' => OneHandler' /\ \A t \in Sessions : Sure(t)'
<1> SUFFICES ASSUME Sequential' PROVE OneHandler' /\ \A t \in Sessions : Sure(t)'
  OBVIOUS
<1>1. \A t \in Sessions \ {s} : pc'[t] = "idle"
  BY DEF CalmInv, BudgetsSpent, Sequential, OneHandler, Quiet, At
<1> QED
  BY <1>1 DEF OneHandler, Sure

LEMMA TablesLeftAlone ==
  ASSUME UNCHANGED <<hook, webhook>>
  PROVE  /\ TargetsKept
         /\ \A h \in Hooks : /\ Matching(h)' = Matching(h) /\ Others(h)' = Others(h)
                             /\ Editable(h)' = Editable(h)
                             /\ hook'[h].retired => hook[h].retired
BY DEF TargetsKept, Matching, Alive, Others, Editable

(* A handler's step that only looks.                                       *)
LEMMA LookingStep ==
  ASSUME AdminInv, AdminInv', CalmInv, UNCHANGED <<hook, webhook, late, lates>>,
         BudgetsSpent, NEW s \in Sessions,
         Sequential' => pc[s] # "idle" \/ Quiet,
         \A t \in Sessions \ {s} : pc'[t] = pc[t],
         Sequential' => Sure(s)'
  PROVE  CalmInv'
<1>1. NoOrphanWebhook'
  BY TablesLeftAlone, OrphansKept DEF CalmInv
<1>2. Sequential' => OneHandler' /\ \A t \in Sessions : Sure(t)'
  BY OnlyOneMoves
<1> QED
  BY <1>1, <1>2 DEF CalmInv

LEMMA MovesTyped ==
  ASSUME AdminInv, NEW s \in Sessions
  PROVE  /\ job[s] \in Job /\ job[s].id \in Hooks
         /\ pc \in [Sessions -> Places] /\ job \in [Sessions -> Job]
BY DEF AdminInv, TypeOK, Job

(* A handler leaves, or goes on with the same hook to a place that asks for*)
(* nothing more.                                                           *)
LEMMA EasyMove ==
  ASSUME AdminInv, AdminInv', CalmInv, UNCHANGED <<hook, webhook, late, lates, overlaps>>,
         NEW s \in Sessions, pc[s] # "idle",
         \/ Leave(s)
         \/ \E place \in Places \ {"lost", "retire", "rollback"}, memory \in Job :
              Begin(s, place, memory) /\ memory.id = job[s].id
  PROVE  CalmInv'
<1>1. BudgetsSpent /\ \A t \in Sessions \ {s} : pc'[t] = pc[t]
  BY MovesTyped DEF BudgetsSpent, Leave, Begin
<1>2. ASSUME Sequential' PROVE Sure(s)'
  <2>1. CASE Leave(s)
    BY <2>1, MovesTyped DEF Leave, Begin, Sure
  <2>2. ASSUME NEW place \in Places \ {"lost", "retire", "rollback"}, NEW memory \in Job,
               Begin(s, place, memory), memory.id = job[s].id
        PROVE  Sure(s)'
    <3>1. pc'[s] = place /\ job'[s] = memory
      BY <2>2, MovesTyped DEF Begin
    <3>2. Editable(job[s].id)
      BY <1>2 DEF CalmInv, Sure, Sequential
    <3> QED
      BY <2>2, <3>1, <3>2, MovesTyped, TablesLeftAlone DEF Sure
  <2> QED
    BY <2>1, <2>2
<1> QED
  BY <1>1, <1>2, LookingStep

LEMMA GoIsBegin ==
  ASSUME AdminInv, NEW s \in Sessions, NEW place, Go(s, place)
  PROVE  Begin(s, place, job[s])
BY MovesTyped DEF Go, Begin

(* A handler reads the webhooks, finds none of its own, and will retire.   *)
LEMMA SecondLook ==
  ASSUME AdminInv, AdminInv', CalmInv, UNCHANGED <<hook, webhook, late, lates, overlaps>>,
         NEW s \in Sessions, pc[s] # "idle", NEW place \in {"retire", "rollback"},
         Go(s, place), NEW page \in Pages, page \cap Matching(job[s].id) = {}
  PROVE  CalmInv'
<1>1. BudgetsSpent /\ \A t \in Sessions \ {s} : pc'[t] = pc[t]
  BY MovesTyped DEF BudgetsSpent, Go
<1>2. ASSUME Sequential' PROVE Sure(s)'
  <2>1. pc'[s] = place /\ job'[s] = job[s]
    BY MovesTyped DEF Go
  <2>2. Editable(job[s].id)
    BY <1>2 DEF CalmInv, Sure, Sequential
  <2>3. Cardinality(Others(job[s].id)) < PageSize => Matching(job[s].id) = {}
    BY MovesTyped, PageTells
  <2> QED
    BY <2>1, <2>2, <2>3, MovesTyped, TablesLeftAlone DEF Sure
<1> QED
  BY <1>1, <1>2, LookingStep

(* A write through the handler's own hook. *)
LEMMA WriteCalm ==
  ASSUME AdminInv, AdminInv', CalmInv, UNCHANGED <<webhook, late, lates, overlaps>>,
         NEW s \in Sessions, pc[s] # "idle", NEW row \in Row, Write(s, row),
         Editable(job[s].id) /\ row.retired =>
           \/ hook[job[s].id].retired
           \/ Sequential /\ lates = MaxLate /\ Cardinality(Others(job[s].id)) < PageSize
                => Matching(job[s].id) = {}
  PROVE  CalmInv'
<1> DEFINE h == job[s].id
<1>1. h \in Hooks /\ hook \in [Hooks -> Row] /\ pc \in [Sessions -> Places]
  BY MovesTyped DEF AdminInv, TypeOK
<1>2. CASE Editable(h)
  <2>1. hook' = [hook EXCEPT ![h] = row] /\ Leave(s)
    BY <1>2 DEF Write
  <2>2. BudgetsSpent /\ TargetsKept /\ \A t \in Sessions \ {s} : pc'[t] = pc[t]
    BY <1>1, <2>1 DEF BudgetsSpent, TargetsKept, Leave, Begin
  <2>3. pc'[s] = "idle"
    BY <1>1, <2>1 DEF Leave, Begin
  <2>4. NoOrphanWebhook'
    <3> SUFFICES ASSUME Sequential', lates' = MaxLate, NEW g \in Hooks, hook'[g].retired,
                        Cardinality(Others(g)') < PageSize
                 PROVE  Matching(g)' = {}
      BY DEF NoOrphanWebhook
    <3>1. Sequential /\ lates = MaxLate /\ Cardinality(Others(g)) < PageSize
      BY <2>2, FewerOthers DEF BudgetsSpent, Sequential
    <3>2. Matching(g)' = Matching(g)
      BY DEF Matching, Alive
    <3>3. CASE g = h
      BY <1>1, <1>2, <2>1, <3>1, <3>2, <3>3 DEF Editable
    <3>4. CASE g # h
      BY <1>1, <2>1, <3>1, <3>2, <3>4 DEF CalmInv, NoOrphanWebhook
    <3> QED
      BY <3>3, <3>4
  <2>5. Sequential' => OneHandler' /\ \A t \in Sessions : Sure(t)'
    BY <2>2, <2>3, OnlyOneMoves DEF Sure
  <2> QED
    BY <2>4, <2>5 DEF CalmInv
<1>3. CASE ~Editable(h)
  <2>1. UNCHANGED hook /\ ~Sequential
    BY <1>3 DEF Write, CalmInv, Sure
  <2>2. Go(s, "lost") /\ ~Sequential'
    BY <1>3, <2>1 DEF Write, Sequential
  <2>3. \A t \in Sessions \ {s} : pc'[t] = pc[t]
    BY <1>1, <2>2 DEF Go
  <2> QED
    BY <2>1, <2>2, <2>3, LookingStep DEF BudgetsSpent
<1> QED
  BY <1>2, <1>3

(* A webhook appears for a hook that is in use, and nobody is retiring it. *)
LEMMA AppearsCalm ==
  ASSUME AdminInv, AdminInv', CalmInv, NEW h \in Hooks, Appears(h), UNCHANGED hook,
         BudgetsSpent, Sequential' /\ lates' = MaxLate => ~hook[h].retired
  PROVE  NoOrphanWebhook'
<1>1. webhook \in Seq(Webhook) /\ Len(webhook) \in Nat
  BY LenProperties DEF AdminInv, TypeOK
<1>2. /\ Len(webhook') = Len(webhook) + 1
      /\ \A i \in 1 .. Len(webhook) : webhook'[i] = webhook[i]
      /\ webhook'[Len(webhook) + 1] = [target |-> h, alive |-> TRUE]
      /\ webhook' \in Seq(Webhook)
  <2>1. [target |-> h, alive |-> TRUE] \in Webhook
    BY DEF Webhook
  <2> QED
    BY <1>1, <2>1, AppendProperties DEF Appears
<1>3. DOMAIN webhook = 1 .. Len(webhook) /\ DOMAIN webhook' = 1 .. (Len(webhook) + 1)
  BY <1>1, <1>2, LenProperties
<1>4. TargetsKept
  BY <1>1, <1>2, <1>3 DEF TargetsKept
<1>5. ASSUME NEW g \in Hooks, g # h PROVE Matching(g)' \subseteq Matching(g)
  <2> SUFFICES ASSUME NEW i \in DOMAIN webhook', webhook'[i].alive, webhook'[i].target = g
               PROVE  i \in Matching(g)
    BY DEF Matching, Alive
  <2>1. i # Len(webhook) + 1
    BY <1>2, <1>5
  <2>2. i \in DOMAIN webhook
    BY <1>1, <1>3, <2>1
  <2> QED
    BY <1>2, <1>3, <2>2 DEF Matching, Alive
<1> QED
  BY <1>4, <1>5, FewerOthers DEF CalmInv, NoOrphanWebhook, Sequential, BudgetsSpent

(* A webhook is removed. *)
LEMMA RemovalCalm ==
  ASSUME AdminInv, AdminInv', CalmInv, NEW i \in DOMAIN webhook, BudgetsSpent,
         webhook' = [webhook EXCEPT ![i].alive = FALSE], UNCHANGED hook
  PROVE  /\ NoOrphanWebhook' /\ TargetsKept
         /\ \A h \in Hooks : Matching(h)' \subseteq Matching(h)
<1>1. webhook[i] \in Webhook
  BY ElementOfSeq DEF AdminInv, TypeOK
<1>2. /\ DOMAIN webhook' = DOMAIN webhook
      /\ \A j \in DOMAIN webhook : /\ webhook'[j].target = webhook[j].target
                                   /\ webhook'[j].alive => webhook[j].alive
  BY <1>1 DEF Webhook
<1>3. TargetsKept
  BY <1>2 DEF TargetsKept
<1>4. \A h \in Hooks : Matching(h)' \subseteq Matching(h)
  BY <1>2 DEF Matching, Alive
<1> QED
  BY <1>3, <1>4, OrphansKept DEF CalmInv

-----------------------------------------------------------------------------
LEMMA ArrivesCalm ==
  ASSUME AdminInv, NEW s \in Sessions, Arrives(s)
  PROVE  BudgetsSpent /\ (Sequential' => Quiet)
BY AdminConstants DEF AdminInv, TypeOK, Arrives, BudgetsSpent, Sequential

LEMMA MakingCalm ==
  ASSUME AdminInv, AdminInv', CalmInv, NEW s \in Sessions,
         \/ \E h \in Hooks : CreateTarget(s, h)
         \/ Post(s) \/ PostFails(s) \/ Reconcile(s) \/ Rollback(s) \/ RollbackInVain(s)
  PROVE  CalmInv'
<1> USE DEF At
<1>0. /\ job[s].id \in Hooks /\ job[s] \in Job /\ hook \in [Hooks -> Row]
      /\ pc \in [Sessions -> Places] /\ job \in [Sessions -> Job]
  BY MovesTyped DEF AdminInv, TypeOK
<1>1. ASSUME NEW h \in Hooks, CreateTarget(s, h) PROVE CalmInv'
  <2>1. BudgetsSpent /\ (Sequential' => Quiet)
    BY <1>1, ArrivesCalm DEF CreateTarget
  <2>2. PICK views : hook' = [hook EXCEPT ![h] = NewRow(views)]
    BY <1>1 DEF CreateTarget
  <2>3. ~hook'[h].retired /\ hook'[h].made /\ \A g \in Hooks \ {h} : hook'[g] = hook[g]
    BY <1>0, <2>2 DEF NewRow
  <2>4. TargetsKept /\ \A g \in Hooks : Matching(g)' = Matching(g)
    BY <1>1 DEF CreateTarget, TargetsKept, Matching, Alive
  <2>5. NoOrphanWebhook'
    BY <2>1, <2>3, <2>4, OrphansKept DEF CalmInv
  <2>6. /\ \A t \in Sessions \ {s} : pc'[t] = pc[t]
        /\ \/ pc'[s] = "post" /\ job'[s].id = h
           \/ pc'[s] = "idle"
    <3>1. Opened(h, NoRow, {}).id = h
      BY DEF Opened
    <3> QED
      BY <1>0, <1>1, <3>1 DEF CreateTarget, Begin, Leave
  <2>7. Sure(s)'
    BY <2>3, <2>6 DEF Sure, Editable
  <2>8. Sequential' => OneHandler' /\ \A t \in Sessions : Sure(t)'
    BY <2>1, <2>6, <2>7, OnlyOneMoves
  <2> QED
    BY <1>1, <2>1, <2>5, <2>8 DEF CalmInv, CreateTarget, Arrives
<1>2. ASSUME Post(s) PROVE CalmInv'
  <2>1. BudgetsSpent /\ \A t \in Sessions \ {s} : pc'[t] = pc[t]
    BY <1>0, <1>2 DEF Post, budgetVars, BudgetsSpent, Leave, Begin
  <2>2. Sequential => ~hook[job[s].id].retired
    BY <1>2 DEF CalmInv, Sure, Editable, Post
  <2>3. NoOrphanWebhook'
    BY <1>0, <1>2, <2>1, <2>2, AppearsCalm DEF Post, BudgetsSpent, Sequential
  <2>4. pc'[s] = "idle"
    BY <1>0, <1>2 DEF Post, Leave, Begin
  <2>5. Sequential' => OneHandler' /\ \A t \in Sessions : Sure(t)'
    BY <1>2, <2>1, <2>4, OnlyOneMoves DEF Sure, Post
  <2> QED
    BY <1>2, <2>3, <2>5 DEF CalmInv, Post, budgetVars
<1>3. ASSUME PostFails(s) PROVE CalmInv'
  <2>1. \A t \in Sessions \ {s} : pc'[t] = pc[t]
    BY <1>0, <1>3 DEF PostFails, Go
  <2>2. BudgetsSpent /\ (lates' = MaxLate => UNCHANGED late)
    BY <1>3, AdminConstants DEF PostFails, BudgetsSpent, AdminInv, TypeOK
  <2>3. Sequential => Editable(job[s].id)
    BY <1>3 DEF CalmInv, Sure, PostFails
  <2>4. NoOrphanWebhook'
    <3>1. CASE Appears(job[s].id)
      BY <1>0, <1>3, <2>2, <2>3, <3>1, AppearsCalm
      DEF PostFails, BudgetsSpent, Sequential, Editable
    <3>2. CASE UNCHANGED webhook
      BY <1>3, <2>2, <3>2, TablesLeftAlone, OrphansKept DEF PostFails, CalmInv
    <3> QED
      BY <1>3, <3>1, <3>2 DEF PostFails
  <2>5. pc'[s] = "reconcile" /\ job'[s] = job[s]
    BY <1>0, <1>3 DEF PostFails, Go
  <2>6. Sequential' => Sure(s)'
    BY <1>3, <2>2, <2>3, <2>5 DEF Sure, Editable, BudgetsSpent, Sequential, PostFails
  <2>7. Sequential' => OneHandler' /\ \A t \in Sessions : Sure(t)'
    BY <1>3, <2>1, <2>2, <2>6, OnlyOneMoves DEF PostFails
  <2> QED
    BY <2>2, <2>4, <2>7 DEF CalmInv, BudgetsSpent
<1>4. ASSUME Reconcile(s) PROVE CalmInv'
  <2>1. PICK page \in Pages : IF page \cap Matching(job[s].id) # {}
                              THEN Leave(s) ELSE Go(s, "rollback")
    BY <1>4 DEF Reconcile
  <2>2. UNCHANGED <<hook, webhook, late, lates, overlaps>> /\ pc[s] # "idle"
    BY <1>4 DEF Reconcile, budgetVars
  <2> QED
    BY <2>1, <2>2, EasyMove, SecondLook
<1>5. ASSUME Rollback(s) PROVE CalmInv'
  <2>1. RetiredRow(job[s].id) \in Row /\ UNCHANGED <<webhook, late, lates, overlaps>>
    BY <1>5, WrittenRows DEF Rollback, budgetVars
  <2>2. Sequential /\ lates = MaxLate /\ Cardinality(Others(job[s].id)) < PageSize
          => Matching(job[s].id) = {}
    BY <1>5 DEF CalmInv, Sure, Rollback
  <2> QED
    BY <1>5, <2>1, <2>2, WriteCalm DEF Rollback
<1>6. ASSUME RollbackInVain(s) PROVE CalmInv'
  BY <1>6, EasyMove DEF RollbackInVain, budgetVars
<1> QED
  BY <1>1, <1>2, <1>3, <1>4, <1>5, <1>6

LEMMA ConfiguringCalm ==
  ASSUME AdminInv, AdminInv', CalmInv, NEW s \in Sessions,
         \/ \E h \in Hooks : PressButton(s, h)
         \/ \E h \in Hooks, v \in Views : PressView(s, h, v)
         \/ SetActive(s) \/ SetWindow(s) \/ SetFields(s) \/ CheckFilter(s)
         \/ SetFilter(s) \/ ChooseViews(s) \/ SetViews(s)
  PROVE  CalmInv'
<1> USE DEF At
<1>0. /\ job[s].id \in Hooks /\ job[s] \in Job /\ hook \in [Hooks -> Row]
      /\ pc \in [Sessions -> Places] /\ job \in [Sessions -> Job]
  BY MovesTyped DEF AdminInv, TypeOK
<1>1. ASSUME NEW h \in Hooks, NEW next \in Places \ {"lost", "retire", "rollback"},
             NEW views, Press(s, h, next, views)
      PROVE  CalmInv'
  <2>1. /\ BudgetsSpent /\ (Sequential' => Quiet)
        /\ UNCHANGED <<hook, webhook, late, lates>>
    BY <1>1, ArrivesCalm DEF Press, Arrives
  <2>2. /\ pc' = [pc EXCEPT ![s] = next]
        /\ job'[s] = [Opened(h, hook[h], views) EXCEPT !.raced = Rivals(s, h, next) # {}]
    BY <1>1 DEF Press, Reads
  <2>3. pc'[s] = next /\ job'[s].id = h /\ \A t \in Sessions \ {s} : pc'[t] = pc[t]
    BY <1>0, <2>2 DEF Opened
  <2>4. Sure(s)'
    BY <1>1, <2>1, <2>3, TablesLeftAlone DEF Sure, Press
  <2> QED
    BY <2>1, <2>3, <2>4, LookingStep
<1>2. ASSUME NEW h \in Hooks, PressButton(s, h) PROVE CalmInv'
  BY <1>1, <1>2 DEF PressButton, Places
<1>3. ASSUME NEW h \in Hooks, NEW v \in Views, PressView(s, h, v) PROVE CalmInv'
  BY <1>1, <1>3 DEF PressView, Places
<1>4. ASSUME NEW row \in Row, row.retired = hook[job[s].id].retired, Write(s, row),
             UNCHANGED <<webhook, late, lates, overlaps>>, pc[s] # "idle"
      PROVE  CalmInv'
  BY <1>4, WriteCalm
<1>5. ASSUME NEW x
      PROVE  LET row == hook[job[s].id]
             IN  /\ [row EXCEPT !.active = x].retired = row.retired
                 /\ [row EXCEPT !.filter = x].retired = row.retired
                 /\ [row EXCEPT !.views = x].retired = row.retired
                 /\ [row EXCEPT !.window = x].retired = row.retired
                 /\ [row EXCEPT !.fields = x].retired = row.retired
  BY <1>0 DEF Row
<1>6. ASSUME SetActive(s) \/ SetFilter(s) \/ SetViews(s) PROVE CalmInv'
  <2>1. PICK row \in Row : row.retired = hook[job[s].id].retired /\ Write(s, row)
    BY <1>5, <1>6, WrittenRows DEF SetActive, SetFilter, SetViews
  <2>2. UNCHANGED <<webhook, late, lates, overlaps>> /\ pc[s] # "idle"
    BY <1>6 DEF SetActive, SetFilter, SetViews, budgetVars
  <2> QED
    BY <1>4, <2>1, <2>2
<1>7. ASSUME SetWindow(s) PROVE CalmInv'
  <2>1. PICK window \in Windows : Write(s, [hook[job[s].id] EXCEPT !.window = window])
    BY <1>7 DEF SetWindow
  <2>2. [hook[job[s].id] EXCEPT !.window = window] \in Row
    BY <1>7, WrittenRows DEF SetWindow
  <2>3. UNCHANGED <<webhook, late, lates, overlaps>> /\ pc[s] # "idle"
    BY <1>7 DEF SetWindow, budgetVars
  <2> QED
    BY <1>4, <1>5, <2>1, <2>2, <2>3
<1>8. ASSUME SetFields(s) PROVE CalmInv'
  <2>1. PICK field \in Fields :
          Write(s, [hook[job[s].id] EXCEPT !.fields = Toggled(job[s].seen.fields, field)])
    BY <1>8 DEF SetFields
  <2>2. [hook[job[s].id] EXCEPT !.fields = Toggled(job[s].seen.fields, field)] \in Row
    BY <1>8, WrittenRows DEF SetFields
  <2>3. UNCHANGED <<webhook, late, lates, overlaps>> /\ pc[s] # "idle"
    BY <1>8 DEF SetFields, budgetVars
  <2> QED
    BY <1>4, <1>5, <2>1, <2>2, <2>3
<1>9. ASSUME CheckFilter(s) PROVE CalmInv'
  <2>1. Leave(s) \/ Begin(s, "setfilter", job[s])
    BY <1>9, GoIsBegin DEF CheckFilter
  <2> QED
    BY <1>0, <1>9, <2>1, EasyMove DEF CheckFilter, budgetVars, Places
<1>10. ASSUME ChooseViews(s) PROVE CalmInv'
  <2> DEFINE views == Toggled(job[s].seen.views, CHOOSE v \in job[s].chosen : TRUE) \cap existing
             memory == [job[s] EXCEPT !.chosen = views]
  <2>1. Leave(s) \/ Begin(s, "setviews", memory)
    BY <1>10 DEF ChooseViews
  <2>2. memory \in Job /\ memory.id = job[s].id
    BY <1>0 DEF Job, AdminInv, TypeOK
  <2> HIDE DEF memory
  <2> QED
    BY <1>10, <2>1, <2>2, EasyMove DEF ChooseViews, budgetVars, Places
<1> QED
  BY <1>2, <1>3, <1>6, <1>7, <1>8, <1>9, <1>10

LEMMA DeletingCalm ==
  ASSUME AdminInv, AdminInv', CalmInv, NEW s \in Sessions,
         \/ ListWebhooks(s) \/ RemoveWebhook(s) \/ AllRemoved(s) \/ Confirm(s)
         \/ Retire(s) \/ GiveUp(s) \/ Forget(s)
  PROVE  CalmInv'
<1> USE DEF At
<1>0. /\ job[s].id \in Hooks /\ job[s] \in Job /\ hook \in [Hooks -> Row]
      /\ pc \in [Sessions -> Places] /\ job \in [Sessions -> Job]
  BY MovesTyped DEF AdminInv, TypeOK
<1>1. ASSUME ListWebhooks(s) PROVE CalmInv'
  <2>1. PICK page \in Pages :
          Begin(s, "remove", [job[s] EXCEPT !.found = page \cap Matching(job[s].id)])
    BY <1>1 DEF ListWebhooks
  <2> DEFINE memory == [job[s] EXCEPT !.found = page \cap Matching(job[s].id)]
  <2>2. memory \in Job /\ memory.id = job[s].id
    BY <1>0, MatchingTyped DEF Job, AdminInv, TypeOK
  <2>3. Begin(s, "remove", memory)
    BY <2>1
  <2> HIDE DEF memory
  <2> QED
    BY <1>1, <2>2, <2>3, EasyMove DEF ListWebhooks, budgetVars, Places
<1>2. ASSUME RemoveWebhook(s) PROVE CalmInv'
  <2>1. PICK i \in job[s].found :
          IF webhook[i].alive
          THEN /\ webhook' = [webhook EXCEPT ![i].alive = FALSE]
               /\ Begin(s, "remove", [job[s] EXCEPT !.found = @ \ {i}])
          ELSE Leave(s) /\ UNCHANGED webhook
    BY <1>2 DEF RemoveWebhook
  <2>2. CASE ~webhook[i].alive
    BY <1>2, <2>1, <2>2, EasyMove DEF RemoveWebhook, budgetVars
  <2>3. CASE webhook[i].alive
    <3>1. BudgetsSpent /\ i \in DOMAIN webhook /\ UNCHANGED <<hook, late, lates, overlaps>>
      BY <1>2 DEF RemoveWebhook, budgetVars, BudgetsSpent, AdminInv, TypeOK
    <3>2. NoOrphanWebhook'
      BY <2>1, <2>3, <3>1, RemovalCalm
    <3>3. /\ pc'[s] = "remove" /\ job'[s].id = job[s].id
          /\ \A t \in Sessions \ {s} : pc'[t] = pc[t]
      BY <1>0, <2>1, <2>3 DEF Begin, Job
    <3>4. Sequential' => Sure(s)'
      BY <1>2, <3>1, <3>3 DEF CalmInv, Sure, Sequential, RemoveWebhook, Editable
    <3>5. Sequential' => OneHandler' /\ \A t \in Sessions : Sure(t)'
      BY <1>2, <3>1, <3>3, <3>4, OnlyOneMoves DEF RemoveWebhook
    <3> QED
      BY <3>1, <3>2, <3>5 DEF CalmInv
  <2> QED
    BY <2>2, <2>3
<1>3. ASSUME AllRemoved(s) PROVE CalmInv'
  <2>1. Begin(s, "confirm", job[s])
    BY <1>3, GoIsBegin DEF AllRemoved
  <2> QED
    BY <1>0, <1>3, <2>1, EasyMove DEF AllRemoved, budgetVars, Places
<1>4. ASSUME Confirm(s) PROVE CalmInv'
  <2>1. PICK page \in Pages : IF page \cap Matching(job[s].id) = {}
                              THEN Go(s, "retire") ELSE Leave(s)
    BY <1>4 DEF Confirm
  <2>2. UNCHANGED <<hook, webhook, late, lates, overlaps>> /\ pc[s] # "idle"
    BY <1>4 DEF Confirm, budgetVars
  <2> QED
    BY <2>1, <2>2, EasyMove, SecondLook
<1>5. ASSUME Retire(s) PROVE CalmInv'
  <2>1. RetiredRow(job[s].id) \in Row /\ UNCHANGED <<webhook, late, lates, overlaps>>
    BY <1>5, WrittenRows DEF Retire, budgetVars
  <2>2. Sequential /\ lates = MaxLate /\ Cardinality(Others(job[s].id)) < PageSize
          => Matching(job[s].id) = {}
    BY <1>5 DEF CalmInv, Sure, Retire
  <2> QED
    BY <1>5, <2>1, <2>2, WriteCalm DEF Retire
<1>6. ASSUME GiveUp(s) \/ Forget(s) PROVE CalmInv'
  BY <1>6, EasyMove DEF GiveUp, Forget, budgetVars
<1> QED
  BY <1>1, <1>2, <1>3, <1>4, <1>5, <1>6

LEMMA OutsideCalm ==
  ASSUME AdminInv, AdminInv', CalmInv,
         \/ \E h \in Hooks : Arrive(h) \/ PasteWebhook(h)
         \/ \E i \in DOMAIN webhook : RemoveByHand(i)
         \/ \E v \in Views : DeleteView(v)
  PROVE  CalmInv'
<1>0. /\ UNCHANGED <<hook, pc, job, lates, overlaps>> /\ BudgetsSpent
      /\ (lates = MaxLate => late' = {})
  BY DEF Arrive, PasteWebhook, RemoveByHand, DeleteView, handlerVars, budgetVars,
         BudgetsSpent, CalmInv
<1>1. \A h \in Hooks : Editable(h)' = Editable(h)
  BY <1>0 DEF Editable
<1>2. ASSUME NoOrphanWebhook',
             Sequential /\ lates = MaxLate =>
               \A s \in Sessions : /\ pc[s] \in {"retire", "rollback"}
                                   /\ Cardinality(Others(job[s].id)') < PageSize
                                   => Matching(job[s].id)' = {}
      PROVE  CalmInv'
  BY <1>0, <1>1, <1>2, MovesTyped DEF CalmInv, OneHandler, Sure, Sequential
<1>3. ASSUME NEW h \in Hooks, Arrive(h) PROVE CalmInv'
  <2>1. lates # MaxLate
    BY <1>3 DEF Arrive, CalmInv
  <2>2. NoOrphanWebhook'
    BY <1>0, <2>1 DEF NoOrphanWebhook
  <2> QED
    BY <1>2, <2>1, <2>2
<1>4. ASSUME NEW h \in Hooks, PasteWebhook(h) PROVE CalmInv'
  <2>1. ~hook[h].retired /\ Appears(h) /\ Quiet
    BY <1>4 DEF PasteWebhook, Editable
  <2>2. NoOrphanWebhook'
    BY <1>0, <2>1, AppearsCalm
  <2>3. \A s \in Sessions : pc[s] = "idle"
    BY <2>1 DEF Quiet, At
  <2> QED
    BY <1>2, <2>2, <2>3
<1>5. ASSUME NEW i \in DOMAIN webhook, RemoveByHand(i) PROVE CalmInv'
  <2>1. /\ NoOrphanWebhook' /\ TargetsKept
        /\ \A h \in Hooks : Matching(h)' \subseteq Matching(h)
    BY <1>0, <1>5, RemovalCalm DEF RemoveByHand
  <2>2. ASSUME Sequential, lates = MaxLate, NEW s \in Sessions,
               pc[s] \in {"retire", "rollback"}, Cardinality(Others(job[s].id)') < PageSize
        PROVE  Matching(job[s].id)' = {}
    <3>1. PICK h \in Hooks : h = job[s].id
      BY MovesTyped
    <3>2. (Cardinality(Others(job[s].id)))' = Cardinality(Others(h)') /\ job' = job
      BY <1>0, <3>1
    <3>3. Cardinality(Others(h)) < PageSize
      BY <2>1, <2>2, <3>2, FewerOthers
    <3>4. Matching(h)' = {}
      BY <2>1, <2>2, <3>1, <3>3 DEF CalmInv, Sure
    <3> QED
      BY <1>0, <3>1, <3>4
  <2> QED
    BY <1>2, <2>1, <2>2
<1>6. ASSUME NEW v \in Views, DeleteView(v) PROVE CalmInv'
  <2>1. UNCHANGED <<hook, webhook>>
    BY <1>6 DEF DeleteView
  <2>2. NoOrphanWebhook'
    BY <1>0, <2>1, TablesLeftAlone, OrphansKept DEF CalmInv
  <2>3. Sequential /\ lates = MaxLate =>
          \A s \in Sessions : /\ pc[s] \in {"retire", "rollback"}
                              /\ Cardinality(Others(job[s].id)') < PageSize
                              => Matching(job[s].id)' = {}
    BY <1>0, <2>1 DEF CalmInv, Sure, Others, Matching, Alive
  <2> QED
    BY <1>2, <2>2, <2>3
<1> QED
  BY <1>3, <1>4, <1>5, <1>6

LEMMA CalmInit == Init => CalmInv
<1> SUFFICES ASSUME Init PROVE CalmInv
  OBVIOUS
<1>1. \A h \in Hooks : ~hook[h].retired
  BY NoRowTyped DEF Init
<1> QED
  BY <1>1 DEF Init, CalmInv, OneHandler, Sure, NoOrphanWebhook

LEMMA CalmStep ==
  ASSUME AdminInv, AdminInv', CalmInv, [Next]_vars
  PROVE  CalmInv'
<1>1. CASE \E s \in Sessions : Handler(s)
  BY <1>1, MakingCalm, ConfiguringCalm, DeletingCalm DEF Handler
<1>2. CASE \/ \E h \in Hooks : Arrive(h) \/ PasteWebhook(h)
           \/ \E i \in DOMAIN webhook : RemoveByHand(i)
           \/ \E v \in Views : DeleteView(v)
  BY <1>2, OutsideCalm
<1>3. CASE UNCHANGED vars
  BY <1>3 DEF vars, handlerVars, budgetVars, CalmInv, OneHandler, Sure, NoOrphanWebhook,
              Sequential, Editable, Others, Matching, Alive
<1> QED
  BY <1>1, <1>2, <1>3 DEF Next

(* While handlers do not overlap, the RuntimeErrors of a hook that changed *)
(* hands or was retired in the meantime are not reached, whatever the      *)
(* failures and whatever the owner does in Vikunja (bot.py:345, 403, 441). *)
THEOREM OwnersFindTheirHooks == Spec => []OwnershipCheckHolds
<1>1. Init => AdminInv /\ CalmInv
  BY AdminInit, CalmInit
<1>2. AdminInv /\ CalmInv /\ [Next]_vars => (AdminInv /\ CalmInv)'
  BY AdminStep, CalmStep
<1>3. CalmInv => OwnershipCheckHolds
  BY DEF CalmInv, Sure, OwnershipCheckHolds, At
<1> QED
  BY <1>1, <1>2, <1>3, PTL DEF Spec

(* While handlers do not overlap and no creation arrives late, retiring a  *)
(* route leaves no webhook behind, in any project whose other webhooks     *)
(* number less than a page (bot.py:706-740, vikunja.py:49-53).             *)
THEOREM NothingLeftBehind == Spec => []NoOrphanWebhook
<1>1. Init => AdminInv /\ CalmInv
  BY AdminInit, CalmInit
<1>2. AdminInv /\ CalmInv /\ [Next]_vars => (AdminInv /\ CalmInv)'
  BY AdminStep, CalmStep
<1>3. CalmInv => NoOrphanWebhook
  BY DEF CalmInv
<1> QED
  BY <1>1, <1>2, <1>3, PTL DEF Spec

-----------------------------------------------------------------------------
(* A filter has views. *)

(* What a handler of the filter or of the views has read is still so, and  *)
(* what it has decided leaves a filter its views.                          *)
Decided(s) ==
  /\ pc[s] \in {"filter", "setfilter", "view", "setviews"} => job[s].seen = hook[job[s].id]
  /\ pc[s] = "setfilter" => MayFilter(job[s].seen)
  /\ pc[s] = "setviews" /\ job[s].seen.filter => job[s].chosen # {}

Undisturbed == Sequential /\ vanish = MaxVanish

FilterInv ==
  Undisturbed => existing = Views /\ FilterHasViews /\ \A s \in Sessions : Decided(s)

(* A handler moves, and it is the only one. *)
LEMMA FilterMove ==
  ASSUME AdminInv, CalmInv, FilterInv, NEW s \in Sessions, UNCHANGED existing,
         Undisturbed' => Undisturbed /\ (pc[s] # "idle" \/ Quiet),
         \A t \in Sessions \ {s} : pc'[t] = pc[t],
         Undisturbed' => FilterHasViews' /\ Decided(s)'
  PROVE  FilterInv'
<1> SUFFICES ASSUME Undisturbed'
             PROVE  existing' = Views /\ FilterHasViews' /\ \A t \in Sessions : Decided(t)'
  BY DEF FilterInv
<1>1. \A t \in Sessions \ {s} : pc'[t] = "idle"
  BY DEF CalmInv, Undisturbed, OneHandler, Quiet, At
<1> QED
  BY <1>1 DEF Decided, FilterInv

(* It writes nothing, and does not go on with the filter or the views.     *)
LEMMA FilterLook ==
  ASSUME AdminInv, CalmInv, FilterInv, NEW s \in Sessions, UNCHANGED <<hook, existing>>,
         Undisturbed' => Undisturbed /\ (pc[s] # "idle" \/ Quiet),
         \A t \in Sessions \ {s} : pc'[t] = pc[t],
         pc'[s] \notin {"filter", "setfilter", "view", "setviews"}
  PROVE  FilterInv'
<1>1. Undisturbed' => FilterHasViews'
  BY DEF FilterInv, FilterHasViews, Editable
<1> QED
  BY <1>1, FilterMove DEF Decided

LEMMA FilterEasy ==
  ASSUME AdminInv, CalmInv, FilterInv, NEW s \in Sessions, pc[s] # "idle",
         UNCHANGED <<hook, existing, vanish, overlaps>>,
         \/ Leave(s)
         \/ \E place \in Places \ {"filter", "setfilter", "view", "setviews"} : \E memory :
              Begin(s, place, memory)
  PROVE  FilterInv'
<1>1. /\ \A t \in Sessions \ {s} : pc'[t] = pc[t]
      /\ pc'[s] \notin {"filter", "setfilter", "view", "setviews"}
  BY MovesTyped DEF Leave, Begin
<1> QED
  BY <1>1, FilterLook DEF Undisturbed, Sequential

(* It writes a row that has views if it filters. *)
LEMMA FilterWrite ==
  ASSUME AdminInv, CalmInv, FilterInv, NEW s \in Sessions, pc[s] # "idle",
         UNCHANGED <<existing, vanish, overlaps>>, NEW row, Write(s, row),
         Undisturbed /\ Editable(job[s].id) =>
           row.retired \/ (row.filter => row.views # {})
  PROVE  FilterInv'
<1>1. job[s].id \in Hooks /\ hook \in [Hooks -> Row] /\ pc \in [Sessions -> Places]
  BY MovesTyped DEF AdminInv, TypeOK
<1>2. CASE Editable(job[s].id)
  <2>1. hook' = [hook EXCEPT ![job[s].id] = row] /\ Leave(s)
    BY <1>2 DEF Write
  <2>2. pc'[s] = "idle" /\ \A t \in Sessions \ {s} : pc'[t] = pc[t]
    BY <1>1, <2>1 DEF Leave, Begin
  <2>3. Undisturbed' => Undisturbed
    BY DEF Undisturbed, Sequential
  <2>4. Undisturbed' => FilterHasViews'
    BY <1>1, <1>2, <2>1, <2>3 DEF FilterInv, FilterHasViews, Editable
  <2> QED
    BY <2>2, <2>3, <2>4, FilterMove DEF Decided
<1>3. CASE ~Editable(job[s].id)
  <2>1. UNCHANGED hook /\ Begin(s, "lost", job[s])
    BY <1>3, GoIsBegin DEF Write
  <2> QED
    BY <2>1, FilterEasy DEF Places
<1> QED
  BY <1>2, <1>3

(* The handlers that make or delete a route leave its filter alone. *)
LEMMA RouteKeepsFilter ==
  ASSUME AdminInv, CalmInv, FilterInv, NEW s \in Sessions,
         \/ \E h \in Hooks : CreateTarget(s, h)
         \/ Post(s) \/ PostFails(s) \/ Reconcile(s) \/ Rollback(s) \/ RollbackInVain(s)
         \/ ListWebhooks(s) \/ RemoveWebhook(s) \/ AllRemoved(s) \/ Confirm(s)
         \/ Retire(s) \/ GiveUp(s) \/ Forget(s)
  PROVE  FilterInv'
<1> USE DEF At
<1>0. /\ job[s].id \in Hooks /\ hook \in [Hooks -> Row]
      /\ pc \in [Sessions -> Places] /\ job \in [Sessions -> Job]
  BY MovesTyped DEF AdminInv, TypeOK
<1>1. ASSUME NEW h \in Hooks, CreateTarget(s, h) PROVE FilterInv'
  <2>1. (Sequential' => Sequential /\ Quiet) /\ UNCHANGED <<existing, vanish>>
    BY <1>1, ArrivesCalm DEF CreateTarget, Arrives, BudgetsSpent, Sequential
  <2>2. PICK views : hook' = [hook EXCEPT ![h] = NewRow(views)]
    BY <1>1 DEF CreateTarget
  <2>3. ~hook'[h].filter /\ \A g \in Hooks \ {h} : hook'[g] = hook[g]
    BY <1>0, <2>2 DEF NewRow
  <2>4. /\ \A t \in Sessions \ {s} : pc'[t] = pc[t]
        /\ pc'[s] \in {"post", "idle"}
    BY <1>0, <1>1 DEF CreateTarget, Begin, Leave
  <2>5. Undisturbed' => Undisturbed /\ Quiet
    BY <2>1 DEF Undisturbed
  <2>6. Undisturbed' => FilterHasViews'
    BY <2>3, <2>5 DEF FilterInv, FilterHasViews, Editable
  <2> QED
    BY <2>1, <2>4, <2>5, <2>6, FilterMove DEF Decided
<1>2. ASSUME \/ Post(s) \/ PostFails(s) \/ Reconcile(s) \/ RollbackInVain(s)
             \/ ListWebhooks(s) \/ RemoveWebhook(s) \/ AllRemoved(s) \/ Confirm(s)
             \/ GiveUp(s) \/ Forget(s)
      PROVE  FilterInv'
  <2>1. pc[s] # "idle" /\ UNCHANGED <<hook, existing, vanish, overlaps>>
    BY <1>2 DEF Post, PostFails, Reconcile, RollbackInVain, ListWebhooks, RemoveWebhook,
                AllRemoved, Confirm, GiveUp, Forget, budgetVars
  <2>2. \/ Leave(s)
        \/ \E place \in {"reconcile", "rollback", "remove", "confirm", "retire"} : \E memory :
             Begin(s, place, memory)
    BY <1>2, GoIsBegin DEF Post, PostFails, Reconcile, RollbackInVain, ListWebhooks,
                RemoveWebhook, AllRemoved, Confirm, GiveUp, Forget
  <2> QED
    BY <2>1, <2>2, FilterEasy DEF Places
<1>3. ASSUME Rollback(s) \/ Retire(s) PROVE FilterInv'
  <2>1. RetiredRow(job[s].id).retired
    BY <1>0 DEF RetiredRow, Row
  <2> QED
    BY <1>3, <2>1, FilterWrite DEF Rollback, Retire, budgetVars
<1> QED
  BY <1>1, <1>2, <1>3

(* A selection that the last view may not leave is not emptied. *)
LEMMA LastViewStays ==
  ASSUME NEW seen \in Row, NEW v, MayToggle(seen, v), existing = Views, seen.filter
  PROVE  Toggled(seen.views, v) \cap existing # {}
<1>1. seen.views \subseteq Views /\ v \in Views
  BY DEF Row, MayToggle
<1>2. CASE v \in seen.views
  <2>1. Cardinality(seen.views) # 1
    BY <1>2 DEF MayToggle
  <2>2. seen.views # {v}
    BY <2>1, FS_Singleton
  <2> QED
    BY <1>1, <1>2, <2>2 DEF Toggled
<1>3. CASE v \notin seen.views
  BY <1>1, <1>3 DEF Toggled
<1> QED
  BY <1>2, <1>3

(* The buttons. *)
LEMMA ButtonsKeepFilter ==
  ASSUME AdminInv, CalmInv, FilterInv, NEW s \in Sessions,
         \/ \E h \in Hooks : PressButton(s, h)
         \/ \E h \in Hooks, v \in Views : PressView(s, h, v)
         \/ SetActive(s) \/ SetWindow(s) \/ SetFields(s) \/ CheckFilter(s)
         \/ SetFilter(s) \/ ChooseViews(s) \/ SetViews(s)
  PROVE  FilterInv'
<1> USE DEF At
<1>0. /\ job[s].id \in Hooks /\ job[s] \in Job /\ job[s].seen \in Row
      /\ hook \in [Hooks -> Row] /\ hook[job[s].id] \in Row
      /\ pc \in [Sessions -> Places] /\ job \in [Sessions -> Job]
  BY MovesTyped DEF AdminInv, TypeOK, Job
<1>1. ASSUME NEW h \in Hooks, NEW next \in Places \ {"setfilter", "setviews"},
             NEW views, Press(s, h, next, views)
      PROVE  FilterInv'
  <2>1. (Sequential' => Sequential /\ Quiet) /\ UNCHANGED <<hook, existing, vanish>>
    BY <1>1, ArrivesCalm DEF Press, Arrives, BudgetsSpent, Sequential
  <2>2. /\ pc' = [pc EXCEPT ![s] = next]
        /\ job'[s] = [Opened(h, hook[h], views) EXCEPT !.raced = Rivals(s, h, next) # {}]
    BY <1>1 DEF Press, Reads
  <2>3. /\ pc'[s] = next /\ job'[s].id = h /\ job'[s].seen = hook[h]
        /\ \A t \in Sessions \ {s} : pc'[t] = pc[t]
    BY <1>0, <2>2 DEF Opened
  <2>4. Decided(s)'
    BY <2>1, <2>3 DEF Decided
  <2>5. Undisturbed' => Undisturbed /\ Quiet
    BY <2>1 DEF Undisturbed
  <2>6. Undisturbed' => FilterHasViews'
    BY <2>1, <2>5 DEF FilterInv, FilterHasViews, Editable
  <2> QED
    BY <2>1, <2>3, <2>4, <2>5, <2>6, FilterMove
<1>2. ASSUME NEW h \in Hooks, PressButton(s, h) PROVE FilterInv'
  BY <1>1, <1>2 DEF PressButton, Places
<1>3. ASSUME NEW h \in Hooks, NEW v \in Views, PressView(s, h, v) PROVE FilterInv'
  BY <1>1, <1>3 DEF PressView, Places
<1>4. Undisturbed /\ Editable(job[s].id) /\ hook[job[s].id].filter =>
        hook[job[s].id].views # {}
  BY <1>0 DEF FilterInv, FilterHasViews
<1>5. ASSUME NEW x
      PROVE  LET row == hook[job[s].id]
             IN  /\ [row EXCEPT !.active = x].filter = row.filter
                 /\ [row EXCEPT !.active = x].views = row.views
                 /\ [row EXCEPT !.window = x].filter = row.filter
                 /\ [row EXCEPT !.window = x].views = row.views
                 /\ [row EXCEPT !.fields = x].filter = row.filter
                 /\ [row EXCEPT !.fields = x].views = row.views
                 /\ [row EXCEPT !.filter = x].filter = x
                 /\ [row EXCEPT !.filter = x].views = row.views
                 /\ [row EXCEPT !.views = x].filter = row.filter
                 /\ [row EXCEPT !.views = x].views = x
  BY <1>0 DEF Row
<1>6. ASSUME SetActive(s) \/ SetWindow(s) \/ SetFields(s) PROVE FilterInv'
  <2>1. pc[s] # "idle" /\ UNCHANGED <<existing, vanish, overlaps>>
    BY <1>6 DEF SetActive, SetWindow, SetFields, budgetVars
  <2>2. ASSUME NEW row, Write(s, row), row.filter = hook[job[s].id].filter,
               row.views = hook[job[s].id].views
        PROVE  FilterInv'
    BY <1>4, <2>1, <2>2, FilterWrite
  <2>3. CASE SetActive(s)
    BY <1>5, <2>2, <2>3 DEF SetActive
  <2>4. CASE SetWindow(s)
    BY <1>5, <2>2, <2>4 DEF SetWindow
  <2>5. CASE SetFields(s)
    BY <1>5, <2>2, <2>5 DEF SetFields
  <2> QED
    BY <1>6, <2>3, <2>4, <2>5
<1>7. ASSUME CheckFilter(s) PROVE FilterInv'
  <2>1. /\ pc[s] = "filter" /\ UNCHANGED <<hook, existing, vanish, overlaps>>
        /\ Leave(s) \/ (MayFilter(job[s].seen) /\ Begin(s, "setfilter", job[s]))
    BY <1>7, GoIsBegin DEF CheckFilter, budgetVars
  <2>2. CASE Leave(s)
    BY <2>1, <2>2, FilterEasy
  <2>3. CASE MayFilter(job[s].seen) /\ Begin(s, "setfilter", job[s])
    <3>1. /\ pc'[s] = "setfilter" /\ job'[s] = job[s]
          /\ \A t \in Sessions \ {s} : pc'[t] = pc[t]
      BY <1>0, <2>3 DEF Begin
    <3>2. Undisturbed' => Undisturbed
      BY <2>1 DEF Undisturbed, Sequential
    <3>3. Undisturbed' => FilterHasViews' /\ Decided(s)'
      BY <2>1, <2>3, <3>1, <3>2 DEF FilterInv, FilterHasViews, Editable, Decided, MayFilter
    <3> QED
      BY <2>1, <3>1, <3>2, <3>3, FilterMove
  <2> QED
    BY <2>1, <2>2, <2>3
<1>8. ASSUME SetFilter(s) PROVE FilterInv'
  <2>1. /\ Write(s, [hook[job[s].id] EXCEPT !.filter = ~job[s].seen.filter])
        /\ pc[s] = "setfilter" /\ UNCHANGED <<existing, vanish, overlaps>>
    BY <1>8 DEF SetFilter, budgetVars
  <2>2. Undisturbed /\ ~job[s].seen.filter => hook[job[s].id].views # {}
    BY <2>1 DEF FilterInv, Decided, MayFilter
  <2> QED
    BY <1>5, <2>1, <2>2, FilterWrite
<1>9. ASSUME ChooseViews(s) PROVE FilterInv'
  <2> DEFINE v == CHOOSE v \in job[s].chosen : TRUE
             views == Toggled(job[s].seen.views, v) \cap existing
             memory == [job[s] EXCEPT !.chosen = views]
  <2>1. /\ pc[s] = "view" /\ UNCHANGED <<hook, existing, vanish, overlaps>>
        /\ Leave(s) \/ (MayToggle(job[s].seen, v) /\ Begin(s, "setviews", memory))
    BY <1>9 DEF ChooseViews, budgetVars
  <2>2. CASE Leave(s)
    BY <2>1, <2>2, FilterEasy
  <2>3. CASE MayToggle(job[s].seen, v) /\ Begin(s, "setviews", memory)
    <3>1. memory.id = job[s].id /\ memory.seen = job[s].seen /\ memory.chosen = views
      BY <1>0 DEF Job
    <3>2. /\ pc'[s] = "setviews" /\ job'[s] = memory
          /\ \A t \in Sessions \ {s} : pc'[t] = pc[t]
      BY <1>0, <2>3 DEF Begin
    <3>3. Undisturbed' => Undisturbed
      BY <2>1 DEF Undisturbed, Sequential
    <3>4. Undisturbed' => (job[s].seen.filter => views # {})
      BY <1>0, <2>3, <3>3, LastViewStays DEF FilterInv
    <3> HIDE DEF memory, views, v
    <3>5. Undisturbed' => FilterHasViews'
      BY <2>1, <3>3 DEF FilterInv, FilterHasViews, Editable
    <3>6. Undisturbed' => job[s].seen = hook[job[s].id]
      BY <2>1, <3>3 DEF FilterInv, Decided
    <3>7. Undisturbed' => Decided(s)'
      BY <2>1, <3>1, <3>2, <3>4, <3>6 DEF Decided
    <3> QED
      BY <2>1, <3>2, <3>3, <3>5, <3>7, FilterMove
  <2> QED
    BY <2>1, <2>2, <2>3
<1>10. ASSUME SetViews(s) PROVE FilterInv'
  <2>1. /\ Write(s, [hook[job[s].id] EXCEPT !.views = job[s].chosen])
        /\ pc[s] = "setviews" /\ UNCHANGED <<existing, vanish, overlaps>>
    BY <1>10 DEF SetViews, budgetVars
  <2>2. Undisturbed /\ hook[job[s].id].filter => job[s].chosen # {}
    BY <2>1 DEF FilterInv, Decided
  <2> QED
    BY <1>5, <2>1, <2>2, FilterWrite
<1> QED
  BY <1>2, <1>3, <1>6, <1>7, <1>8, <1>9, <1>10

LEMMA FilterInit == Init => FilterInv
<1> SUFFICES ASSUME Init PROVE FilterInv
  OBVIOUS
<1>1. \A h \in Hooks : ~hook[h].filter
  BY DEF Init, NoRow, NewRow
<1> QED
  BY <1>1 DEF Init, FilterInv, FilterHasViews, Decided

LEMMA FilterStep ==
  ASSUME AdminInv, CalmInv, FilterInv, [Next]_vars
  PROVE  FilterInv'
<1>1. CASE \E s \in Sessions : Handler(s)
  BY <1>1, RouteKeepsFilter, ButtonsKeepFilter DEF Handler
<1>2. CASE \/ \E h \in Hooks : Arrive(h) \/ PasteWebhook(h)
           \/ \E i \in DOMAIN webhook : RemoveByHand(i)
  BY <1>2 DEF Arrive, PasteWebhook, RemoveByHand, handlerVars, budgetVars, FilterInv,
              Undisturbed, Sequential, FilterHasViews, Editable, Decided
<1>3. CASE \E v \in Views : DeleteView(v)
  <2>1. vanish' # MaxVanish
    BY <1>3, AdminConstants DEF DeleteView, AdminInv, TypeOK
  <2> QED
    BY <2>1 DEF FilterInv, Undisturbed
<1>4. CASE UNCHANGED vars
  BY <1>4 DEF vars, handlerVars, budgetVars, FilterInv, Undisturbed, Sequential,
              FilterHasViews, Editable, Decided
<1> QED
  BY <1>1, <1>2, <1>3, <1>4 DEF Next

(* While handlers do not overlap and no view is deleted in Vikunja, a      *)
(* route that filters by views has views to filter by, whatever the        *)
(* failures and with any number of views (bot.py:384-445).                 *)
THEOREM FiltersHaveViews == Spec => []FilterKeepsViews
<1>1. Init => AdminInv /\ CalmInv /\ FilterInv
  BY AdminInit, CalmInit, FilterInit
<1>2. AdminInv /\ CalmInv /\ FilterInv /\ [Next]_vars => (AdminInv /\ CalmInv /\ FilterInv)'
  BY AdminStep, CalmStep, FilterStep
<1>3. FilterInv => FilterKeepsViews
  BY DEF FilterInv, Undisturbed, FilterKeepsViews
<1> QED
  BY <1>1, <1>2, <1>3, PTL DEF Spec

-----------------------------------------------------------------------------
(* A press counts. *)

SettingPlaces == {"active", "field", "filter", "setfilter", "view", "setviews"}

(* What a handler has read of its setting is still so, unless it was raced.*)
Fresh(s) ==
  pc[s] \in SettingPlaces /\ Editable(job[s].id) /\ ~job[s].raced =>
    LET row == hook[job[s].id]
        seen == job[s].seen
    IN  /\ pc[s] = "active" => seen.active = row.active
        /\ pc[s] = "field" => seen.fields = row.fields
        /\ pc[s] \in {"filter", "setfilter"} => seen.filter = row.filter
        /\ pc[s] \in {"view", "setviews"} => seen.views = row.views

(* Two handlers of one setting of one hook know of each other. *)
Company(s, t) ==
  s # t /\ pc[s] \in SettingPlaces /\ job[t].id = job[s].id /\ pc[t] \in Handling(pc[s])
    => job[s].raced

Chosen(s) == pc[s] = "setviews" => job[s].chosen # job[s].seen.views

PressInv == \A s \in Sessions : Fresh(s) /\ Chosen(s) /\ \A t \in Sessions : Company(s, t)

LEMMA HandlingOfSettings ==
  ASSUME NEW a, NEW b, a \in SettingPlaces, b \in Handling(a)
  PROVE  /\ b \in SettingPlaces /\ a \in Handling(b) /\ Handling(b) = Handling(a)
BY DEF SettingPlaces, Handling

(* A handler is elsewhere after its step. *)
LEMMA PressAside ==
  ASSUME PressInv, NEW s \in Sessions, UNCHANGED hook, pc'[s] \notin SettingPlaces,
         \A t \in Sessions \ {s} : pc'[t] = pc[t] /\ job'[t] = job[t]
  PROVE  PressInv'
<1>1. ASSUME NEW t \in Sessions PROVE Fresh(t)' /\ Chosen(t)'
  BY DEF PressInv, Fresh, Chosen, Editable, SettingPlaces
<1>2. ASSUME NEW t \in Sessions, NEW r \in Sessions PROVE Company(t, r)'
  <2>1. CASE t = s
    BY <2>1 DEF Company
  <2>2. CASE r = s
    BY <2>2, HandlingOfSettings DEF Company
  <2>3. CASE t # s /\ r # s
    BY <2>3 DEF PressInv, Company
  <2> QED
    BY <2>1, <2>2, <2>3
<1> QED
  BY <1>1, <1>2 DEF PressInv

(* It goes on with its setting. *)
LEMMA PressOn ==
  ASSUME PressInv, NEW s \in Sessions, UNCHANGED hook, pc[s] \in SettingPlaces,
         pc'[s] \in Handling(pc[s]), Chosen(s)',
         job'[s].id = job[s].id, job'[s].seen = job[s].seen, job'[s].raced = job[s].raced,
         \A t \in Sessions \ {s} : pc'[t] = pc[t] /\ job'[t] = job[t]
  PROVE  PressInv'
<1>0. /\ pc'[s] \in SettingPlaces /\ Handling(pc'[s]) = Handling(pc[s])
      /\ pc[s] \in {"filter", "setfilter"} <=> pc'[s] \in {"filter", "setfilter"}
      /\ pc[s] \in {"view", "setviews"} <=> pc'[s] \in {"view", "setviews"}
      /\ \A place \in {"active", "field"} : pc[s] = place <=> pc'[s] = place
  BY DEF SettingPlaces, Handling
<1>1. ASSUME NEW t \in Sessions PROVE Fresh(t)' /\ Chosen(t)'
  BY <1>0 DEF PressInv, Fresh, Chosen, Editable
<1>2. ASSUME NEW t \in Sessions, NEW r \in Sessions PROVE Company(t, r)'
  <2>1. CASE t = s
    BY <1>0, <2>1 DEF PressInv, Company
  <2>2. CASE r = s /\ t # s
    BY <1>0, <2>2, HandlingOfSettings DEF PressInv, Company
  <2>3. CASE t # s /\ r # s
    BY <2>3 DEF PressInv, Company
  <2> QED
    BY <2>1, <2>2, <2>3
<1> QED
  BY <1>1, <1>2 DEF PressInv

(* It writes its own setting, or retires its hook. *)
LEMMA PressWrite ==
  ASSUME AdminInv, PressInv, NEW s \in Sessions, pc[s] # "idle", NEW row, Write(s, row),
         LET old == hook[job[s].id]
         IN  \/ row.retired
             \/ /\ pc[s] = "active" \/ row.active = old.active
                /\ pc[s] = "field" \/ row.fields = old.fields
                /\ pc[s] = "setfilter" \/ row.filter = old.filter
                /\ pc[s] = "setviews" \/ row.views = old.views
  PROVE  PressInv'
<1> DEFINE h == job[s].id
<1>0. /\ h \in Hooks /\ hook \in [Hooks -> Row]
      /\ pc \in [Sessions -> Places] /\ job \in [Sessions -> Job]
  BY MovesTyped DEF AdminInv, TypeOK
<1>1. CASE ~Editable(h)
  BY <1>0, <1>1, PressAside DEF Write, Go, SettingPlaces
<1>2. CASE Editable(h)
  <2>1. /\ hook' = [hook EXCEPT ![h] = row] /\ pc'[s] = "idle"
        /\ \A t \in Sessions \ {s} : pc'[t] = pc[t] /\ job'[t] = job[t]
    BY <1>0, <1>2 DEF Write, Leave, Begin
  <2>2. ASSUME NEW t \in Sessions, t # s PROVE Fresh(t)'
    <3>1. CASE job[t].id # h
      BY <1>0, <2>1, <2>2, <3>1, MovesTyped DEF PressInv, Fresh, Editable
    <3>2. CASE job[t].id = h /\ pc[t] \in SettingPlaces /\ pc[s] \in Handling(pc[t])
      BY <2>1, <2>2, <3>2 DEF PressInv, Company, Fresh
    <3>3. CASE job[t].id = h /\ pc[t] \in SettingPlaces /\ pc[s] \notin Handling(pc[t])
      BY <1>0, <1>2, <2>1, <2>2, <3>3 DEF PressInv, Fresh, Editable, Handling, SettingPlaces
    <3>4. CASE pc[t] \notin SettingPlaces
      BY <2>1, <2>2, <3>4 DEF Fresh
    <3> QED
      BY <3>1, <3>2, <3>3, <3>4
  <2>3. \A t \in Sessions : Chosen(t)'
    BY <2>1 DEF PressInv, Chosen
  <2>4. \A t \in Sessions, r \in Sessions : Company(t, r)'
    <3>1. ASSUME NEW t \in Sessions, NEW r \in Sessions, t # s, r # s PROVE Company(t, r)'
      BY <2>1, <3>1 DEF PressInv, Company
    <3>2. \A r \in Sessions : Company(s, r)'
      BY <2>1 DEF Company, SettingPlaces
    <3>3. ASSUME NEW t \in Sessions, t # s PROVE Company(t, s)'
      BY <2>1, <3>3, HandlingOfSettings DEF Company, SettingPlaces
    <3> QED
      BY <3>1, <3>2, <3>3
  <2>5. Fresh(s)'
    BY <2>1 DEF Fresh, SettingPlaces
  <2> QED
    BY <2>2, <2>3, <2>4, <2>5 DEF PressInv
<1> QED
  BY <1>1, <1>2

(* It begins, and every handler of the same setting with it is raced.      *)
LEMMA PressBegins ==
  ASSUME AdminInv, PressInv, NEW s \in Sessions, NEW h \in Hooks,
         NEW next \in Places \ {"setviews"}, NEW views, Press(s, h, next, views)
  PROVE  PressInv'
<1> DEFINE rivals == Rivals(s, h, next)
<1>0. /\ job \in [Sessions -> Job] /\ UNCHANGED hook
      /\ \A r \in Sessions : job[r] \in Job
  BY DEF AdminInv, TypeOK, Press
<1>1. /\ pc'[s] = next /\ job'[s].id = h /\ job'[s].seen = hook[h]
      /\ job'[s].raced <=> rivals # {}
  BY DEF Press, Reads, Opened, AdminInv, TypeOK
<1>2. ASSUME NEW r \in Sessions, r # s
      PROVE  /\ pc'[r] = pc[r] /\ job'[r].id = job[r].id /\ job'[r].seen = job[r].seen
             /\ job'[r].chosen = job[r].chosen
             /\ job'[r].raced <=> job[r].raced \/ r \in rivals
  BY <1>0, <1>2 DEF Press, Reads, AdminInv, TypeOK, Job
<1>3. ASSUME NEW r \in Sessions PROVE Fresh(r)' /\ Chosen(r)'
  <2>1. CASE r = s
    BY <1>0, <1>1, <2>1 DEF Fresh, Chosen
  <2>2. CASE r # s
    BY <1>0, <1>2, <2>2 DEF PressInv, Fresh, Chosen, Editable
  <2> QED
    BY <2>1, <2>2
<1>4. ASSUME NEW r \in Sessions, NEW t \in Sessions PROVE Company(r, t)'
  <2>1. CASE r = s /\ t # s
    BY <1>1, <1>2, <2>1 DEF Company, Rivals
  <2>2. CASE r # s /\ t = s
    <3>1. next \in Handling(pc[r]) /\ pc[r] \in SettingPlaces => pc[r] \in Handling(next)
      BY HandlingOfSettings
    <3> QED
      BY <1>1, <1>2, <2>2, <3>1 DEF Company, Rivals
  <2>3. CASE r # s /\ t # s
    BY <1>2, <2>3 DEF PressInv, Company
  <2>4. CASE r = t
    BY <2>4 DEF Company
  <2> QED
    BY <2>1, <2>2, <2>3, <2>4
<1> QED
  BY <1>3, <1>4 DEF PressInv

LEMMA ToggleChanges ==
  ASSUME NEW set, NEW item PROVE Toggled(set, item) # set
BY DEF Toggled

LEMMA ChoiceChanges ==
  ASSUME NEW seen, NEW v, MayToggle(seen, v)
  PROVE  Toggled(seen.views, v) \cap existing # seen.views
BY DEF MayToggle, Toggled

(* Handlers that are at no setting, or leave it without a write. *)
LEMMA OthersKeepPress ==
  ASSUME AdminInv, PressInv, NEW s \in Sessions,
         \/ \E h \in Hooks : CreateTarget(s, h)
         \/ Post(s) \/ PostFails(s) \/ Reconcile(s) \/ Rollback(s) \/ RollbackInVain(s)
         \/ ListWebhooks(s) \/ RemoveWebhook(s) \/ AllRemoved(s) \/ Confirm(s)
         \/ Retire(s) \/ GiveUp(s) \/ Forget(s)
  PROVE  PressInv'
<1> USE DEF At
<1>0. /\ hook \in [Hooks -> Row] /\ pc \in [Sessions -> Places] /\ job \in [Sessions -> Job]
  BY DEF AdminInv, TypeOK
<1>1. ASSUME NEW h \in Hooks, CreateTarget(s, h) PROVE PressInv'
  <2>1. /\ ~hook[h].made /\ \A g \in Hooks \ {h} : hook'[g] = hook[g]
    BY <1>0, <1>1 DEF CreateTarget
  <2>2. /\ pc'[s] \notin SettingPlaces
        /\ \A t \in Sessions \ {s} : pc'[t] = pc[t] /\ job'[t] = job[t]
    BY <1>0, <1>1 DEF CreateTarget, Begin, Leave, SettingPlaces
  <2>3. \A t \in Sessions : pc[t] # "idle" => job[t].id \in Hooks \ {h}
    BY <2>1, MovesTyped DEF AdminInv, TypeOK
  <2>4. ASSUME NEW t \in Sessions PROVE Fresh(t)' /\ Chosen(t)'
    BY <2>1, <2>2, <2>3 DEF PressInv, Fresh, Chosen, Editable, SettingPlaces
  <2>5. ASSUME NEW t \in Sessions, NEW r \in Sessions PROVE Company(t, r)'
    <3>1. CASE t = s
      BY <2>2, <3>1 DEF Company
    <3>2. CASE r = s
      BY <2>2, <3>2, HandlingOfSettings DEF Company
    <3>3. CASE t # s /\ r # s
      BY <2>2, <3>3 DEF PressInv, Company
    <3> QED
      BY <3>1, <3>2, <3>3
  <2> QED
    BY <2>4, <2>5 DEF PressInv
<1>2. ASSUME \/ Post(s) \/ PostFails(s) \/ Reconcile(s) \/ RollbackInVain(s)
             \/ ListWebhooks(s) \/ RemoveWebhook(s) \/ AllRemoved(s) \/ Confirm(s)
             \/ GiveUp(s) \/ Forget(s)
      PROVE  PressInv'
  <2>1. UNCHANGED hook
    BY <1>2 DEF Post, PostFails, Reconcile, RollbackInVain, ListWebhooks, RemoveWebhook,
                AllRemoved, Confirm, GiveUp, Forget
  <2>2. \/ Leave(s)
        \/ \E place \in {"reconcile", "rollback", "remove", "confirm", "retire"} : \E memory :
             Begin(s, place, memory)
    BY <1>2, GoIsBegin DEF Post, PostFails, Reconcile, RollbackInVain, ListWebhooks,
                RemoveWebhook, AllRemoved, Confirm, GiveUp, Forget
  <2>3. /\ pc'[s] \notin SettingPlaces
        /\ \A t \in Sessions \ {s} : pc'[t] = pc[t] /\ job'[t] = job[t]
    BY <1>0, <2>2 DEF Begin, Leave, SettingPlaces
  <2> QED
    BY <2>1, <2>3, PressAside
<1>3. ASSUME Rollback(s) \/ Retire(s) PROVE PressInv'
  <2>1. RetiredRow(job[s].id).retired
    BY <1>0, MovesTyped DEF RetiredRow, Row
  <2> QED
    BY <1>3, <2>1, PressWrite DEF Rollback, Retire
<1> QED
  BY <1>1, <1>2, <1>3

(* The buttons. *)
LEMMA ButtonsKeepPress ==
  ASSUME AdminInv, PressInv, NEW s \in Sessions,
         \/ \E h \in Hooks : PressButton(s, h)
         \/ \E h \in Hooks, v \in Views : PressView(s, h, v)
         \/ SetActive(s) \/ SetWindow(s) \/ SetFields(s) \/ CheckFilter(s)
         \/ SetFilter(s) \/ ChooseViews(s) \/ SetViews(s)
  PROVE  PressInv'
<1> USE DEF At
<1>0. /\ job[s].id \in Hooks /\ job[s] \in Job /\ hook[job[s].id] \in Row
      /\ pc \in [Sessions -> Places] /\ job \in [Sessions -> Job]
  BY MovesTyped DEF AdminInv, TypeOK
<1>1. CASE \E h \in Hooks : PressButton(s, h)
  BY <1>1, PressBegins DEF PressButton, Places
<1>2. CASE \E h \in Hooks, v \in Views : PressView(s, h, v)
  BY <1>2, PressBegins DEF PressView, Places
<1>3. ASSUME NEW x
      PROVE  LET row == hook[job[s].id]
                 SameBut(new, field) ==
                   /\ field = "active" \/ new.active = row.active
                   /\ field = "fields" \/ new.fields = row.fields
                   /\ field = "filter" \/ new.filter = row.filter
                   /\ field = "views" \/ new.views = row.views
             IN  /\ SameBut([row EXCEPT !.active = x], "active")
                 /\ SameBut([row EXCEPT !.window = x], "window")
                 /\ SameBut([row EXCEPT !.fields = x], "fields")
                 /\ SameBut([row EXCEPT !.filter = x], "filter")
                 /\ SameBut([row EXCEPT !.views = x], "views")
  BY <1>0 DEF Row
<1>4. CASE SetActive(s)
  BY <1>3, <1>4, PressWrite DEF SetActive
<1>5. CASE SetWindow(s)
  BY <1>3, <1>5, PressWrite DEF SetWindow
<1>6. CASE SetFields(s)
  BY <1>3, <1>6, PressWrite DEF SetFields
<1>7. CASE SetFilter(s)
  BY <1>3, <1>7, PressWrite DEF SetFilter
<1>8. CASE SetViews(s)
  BY <1>3, <1>8, PressWrite DEF SetViews
<1>9. CASE CheckFilter(s)
  <2>1. UNCHANGED hook /\ pc[s] = "filter" /\ (Go(s, "setfilter") \/ Leave(s))
    BY <1>9 DEF CheckFilter
  <2>2. CASE Leave(s)
    BY <1>0, <2>1, <2>2, PressAside DEF Leave, Begin, SettingPlaces
  <2>3. CASE Go(s, "setfilter")
    <3>1. pc'[s] = "setfilter" /\ UNCHANGED job /\ \A t \in Sessions \ {s} : pc'[t] = pc[t]
      BY <1>0, <2>3 DEF Go
    <3> QED
      BY <2>1, <3>1, PressOn DEF SettingPlaces, Handling, Chosen
  <2> QED
    BY <2>1, <2>2, <2>3
<1>10. CASE ChooseViews(s)
  <2> DEFINE v == CHOOSE v \in job[s].chosen : TRUE
             views == Toggled(job[s].seen.views, v) \cap existing
             memory == [job[s] EXCEPT !.chosen = views]
  <2>1. /\ pc[s] = "view" /\ UNCHANGED hook
        /\ Leave(s) \/ (MayToggle(job[s].seen, v) /\ Begin(s, "setviews", memory))
    BY <1>10 DEF ChooseViews
  <2>2. CASE Leave(s)
    BY <1>0, <2>1, <2>2, PressAside DEF Leave, Begin, SettingPlaces
  <2>3. CASE MayToggle(job[s].seen, v) /\ Begin(s, "setviews", memory)
    <3>1. /\ memory.id = job[s].id /\ memory.seen = job[s].seen /\ memory.chosen = views
          /\ memory.raced = job[s].raced
      BY <1>0 DEF Job
    <3>2. views # job[s].seen.views
      BY <2>3, ChoiceChanges
    <3>3. /\ pc'[s] = "setviews" /\ job'[s] = memory
          /\ \A t \in Sessions \ {s} : pc'[t] = pc[t] /\ job'[t] = job[t]
      BY <1>0, <2>3 DEF Begin
    <3> HIDE DEF memory, views, v
    <3>4. Chosen(s)'
      BY <3>1, <3>2, <3>3 DEF Chosen
    <3> QED
      BY <2>1, <3>1, <3>3, <3>4, PressOn DEF SettingPlaces, Handling
  <2> QED
    BY <2>1, <2>2, <2>3
<1> QED
  BY <1>1, <1>2, <1>4, <1>5, <1>6, <1>7, <1>8, <1>9, <1>10

LEMMA PressInit == Init => PressInv
BY DEF Init, PressInv, Fresh, Chosen, Company, SettingPlaces

LEMMA PressStep ==
  ASSUME AdminInv, PressInv, [Next]_vars
  PROVE  PressInv'
<1>1. CASE \E s \in Sessions : Handler(s)
  BY <1>1, OthersKeepPress, ButtonsKeepPress DEF Handler
<1>2. CASE \/ \E h \in Hooks : Arrive(h) \/ PasteWebhook(h)
           \/ \E i \in DOMAIN webhook : RemoveByHand(i)
           \/ \E v \in Views : DeleteView(v)
           \/ UNCHANGED vars
  <2>1. UNCHANGED <<hook, pc, job>>
    BY <1>2 DEF Arrive, PasteWebhook, RemoveByHand, DeleteView, vars, handlerVars
  <2> QED
    BY <2>1 DEF PressInv, Fresh, Chosen, Company, Editable
<1> QED
  BY <1>1, <1>2 DEF Next

(* What PressCounts says of one step. *)
Counts ==
  \A h \in Hooks, place \in Settings : Editable(h) /\ Editable(h)' =>
    LET handlers == {s \in Sessions : At(s, place) /\ job[s].id = h}
    IN  /\ Changes(h, place) => handlers # {}
        /\ \A s \in handlers :
             ~At(s, place)' /\ UNCHANGED faults /\ ~job[s].raced => Changes(h, place)

(* No setting of a hook in use is written, and no handler is done with one,*)
(* unless a call failed.                                                   *)
LEMMA NothingWritten ==
  ASSUME AdminInv,
         \A h \in Hooks : Editable(h) /\ Editable(h)' =>
           /\ hook'[h].active = hook[h].active /\ hook'[h].fields = hook[h].fields
           /\ hook'[h].filter = hook[h].filter /\ hook'[h].views = hook[h].views,
         \A s \in Sessions : pc[s] \in Settings => pc'[s] = pc[s] \/ faults' # faults
  PROVE  Counts
BY DEF Counts, Changes, Settings, At

(* A handler writes the setting it is at.                                  *)
LEMMA SettingWritten ==
  ASSUME AdminInv, PressInv, NEW s \in Sessions, pc[s] \in Settings, NEW row, Write(s, row),
         LET old == hook[job[s].id]
         IN  /\ pc[s] = "active" \/ row.active = old.active
             /\ pc[s] = "field" \/ row.fields = old.fields
             /\ pc[s] = "setfilter" \/ row.filter = old.filter
             /\ pc[s] = "setviews" \/ row.views = old.views,
         ~job[s].raced /\ Editable(job[s].id) =>
           LET old == hook[job[s].id]
           IN  /\ pc[s] = "active" => row.active # old.active
               /\ pc[s] = "field" => row.fields # old.fields
               /\ pc[s] = "setfilter" => row.filter # old.filter
               /\ pc[s] = "setviews" => row.views # old.views
  PROVE  Counts
<1> USE DEF At
<1>0. /\ job[s].id \in Hooks /\ hook \in [Hooks -> Row]
      /\ pc \in [Sessions -> Places] /\ job \in [Sessions -> Job]
  BY MovesTyped DEF AdminInv, TypeOK
<1>1. CASE ~Editable(job[s].id)
  <2>1. UNCHANGED hook /\ \A t \in Sessions \ {s} : pc'[t] = pc[t]
    BY <1>0, <1>1 DEF Write, Go
  <2> QED
    BY <1>1, <2>1 DEF Counts, Changes, Settings
<1>2. CASE Editable(job[s].id)
  <2>1. /\ hook' = [hook EXCEPT ![job[s].id] = row]
        /\ \A t \in Sessions \ {s} : pc'[t] = pc[t]
    BY <1>0, <1>2 DEF Write, Leave, Begin
  <2>2. ASSUME NEW h \in Hooks, NEW place \in Settings, Editable(h), Editable(h)',
               Changes(h, place)
        PROVE  s \in {t \in Sessions : At(t, place) /\ job[t].id = h}
    BY <1>0, <2>1, <2>2 DEF Changes
  <2>3. ASSUME NEW h \in Hooks, NEW place \in Settings, Editable(h), Editable(h)',
               NEW t \in Sessions, At(t, place), job[t].id = h, ~At(t, place)', ~job[t].raced
        PROVE  Changes(h, place)
    <3>1. t = s /\ h = job[s].id /\ place = pc[s]
      BY <2>1, <2>3
    <3>2. hook'[h] = row
      BY <1>0, <2>1, <3>1
    <3> QED
      BY <1>2, <2>3, <3>1, <3>2 DEF Changes, Settings
  <2> QED
    BY <2>2, <2>3 DEF Counts
<1> QED
  BY <1>1, <1>2

(* The four of them. *)
LEMMA SettingsCount ==
  ASSUME AdminInv, PressInv, NEW s \in Sessions,
         SetActive(s) \/ SetFields(s) \/ SetFilter(s) \/ SetViews(s)
  PROVE  Counts
<1> USE DEF At
<1> DEFINE old == hook[job[s].id]
           seen == job[s].seen
<1>1. /\ old \in Row /\ seen \in Row
      /\ old.active \in BOOLEAN /\ seen.active \in BOOLEAN
      /\ old.filter \in BOOLEAN /\ seen.filter \in BOOLEAN
  BY MovesTyped DEF AdminInv, TypeOK, Job, Row
<1>2. ~job[s].raced /\ Editable(job[s].id) =>
        /\ pc[s] = "active" => seen.active = old.active
        /\ pc[s] = "field" => seen.fields = old.fields
        /\ pc[s] = "setfilter" => seen.filter = old.filter
        /\ pc[s] = "setviews" => job[s].chosen # old.views
  BY DEF PressInv, Fresh, Chosen, SettingPlaces
<1>3. ASSUME SetActive(s) PROVE Counts
  <2> DEFINE row == [old EXCEPT !.active = ~seen.active]
  <2>1. /\ row.active = ~seen.active /\ row.fields = old.fields
        /\ row.filter = old.filter /\ row.views = old.views
    BY <1>1 DEF Row
  <2>2. pc[s] = "active" /\ Write(s, row)
    BY <1>3 DEF SetActive
  <2> HIDE DEF row
  <2>3. ~job[s].raced /\ Editable(job[s].id) => row.active # old.active
    BY <1>1, <1>2, <2>1, <2>2
  <2> QED
    BY <2>1, <2>2, <2>3, SettingWritten DEF Settings
<1>4. ASSUME SetFields(s) PROVE Counts
  <2>1. PICK field \in Fields : Write(s, [old EXCEPT !.fields = Toggled(seen.fields, field)])
    BY <1>4 DEF SetFields
  <2> DEFINE row == [old EXCEPT !.fields = Toggled(seen.fields, field)]
  <2>2. /\ row.fields = Toggled(seen.fields, field) /\ row.active = old.active
        /\ row.filter = old.filter /\ row.views = old.views
    BY <1>1 DEF Row
  <2>3. pc[s] = "field" /\ Write(s, row)
    BY <1>4, <2>1 DEF SetFields
  <2> HIDE DEF row
  <2>4. ~job[s].raced /\ Editable(job[s].id) => row.fields # old.fields
    BY <1>2, <2>2, <2>3, ToggleChanges
  <2> QED
    BY <2>2, <2>3, <2>4, SettingWritten DEF Settings
<1>5. ASSUME SetFilter(s) PROVE Counts
  <2> DEFINE row == [old EXCEPT !.filter = ~seen.filter]
  <2>1. /\ row.filter = ~seen.filter /\ row.fields = old.fields
        /\ row.active = old.active /\ row.views = old.views
    BY <1>1 DEF Row
  <2>2. pc[s] = "setfilter" /\ Write(s, row)
    BY <1>5 DEF SetFilter
  <2> HIDE DEF row
  <2>3. ~job[s].raced /\ Editable(job[s].id) => row.filter # old.filter
    BY <1>1, <1>2, <2>1, <2>2
  <2> QED
    BY <2>1, <2>2, <2>3, SettingWritten DEF Settings
<1>6. ASSUME SetViews(s) PROVE Counts
  <2> DEFINE row == [old EXCEPT !.views = job[s].chosen]
  <2>1. /\ row.views = job[s].chosen /\ row.fields = old.fields
        /\ row.active = old.active /\ row.filter = old.filter
    BY <1>1 DEF Row
  <2>2. pc[s] = "setviews" /\ Write(s, row)
    BY <1>6 DEF SetViews
  <2> HIDE DEF row
  <2>3. ~job[s].raced /\ Editable(job[s].id) => row.views # old.views
    BY <1>2, <2>1, <2>2
  <2> QED
    BY <2>1, <2>2, <2>3, SettingWritten DEF Settings
<1> QED
  BY <1>3, <1>4, <1>5, <1>6

LEMMA StepCounts ==
  ASSUME AdminInv, PressInv, [Next]_vars
  PROVE  Counts
<1> USE DEF At
<1>0. /\ hook \in [Hooks -> Row] /\ pc \in [Sessions -> Places] /\ job \in [Sessions -> Job]
      /\ \A s \in Sessions : job[s].id \in Hooks
  BY DEF AdminInv, TypeOK, Job
(* A handler that is not at a setting. *)
<1>1. ASSUME NEW s \in Sessions, pc[s] \notin Settings,
             \A t \in Sessions \ {s} : pc'[t] = pc[t],
             \A h \in Hooks : Editable(h) /\ Editable(h)' =>
               /\ hook'[h].active = hook[h].active /\ hook'[h].fields = hook[h].fields
               /\ hook'[h].filter = hook[h].filter /\ hook'[h].views = hook[h].views
      PROVE  Counts
  BY <1>1, NothingWritten
<1>2. ASSUME NEW s \in Sessions, NEW h \in Hooks, CreateTarget(s, h) PROVE Counts
  <2>1. /\ ~Editable(h) /\ \A g \in Hooks \ {h} : hook'[g] = hook[g]
    BY <1>0, <1>2 DEF CreateTarget, Editable
  <2>2. pc[s] = "idle" /\ \A t \in Sessions \ {s} : pc'[t] = pc[t]
    BY <1>0, <1>2 DEF CreateTarget, Arrives, Begin, Leave
  <2> QED
    BY <1>1, <2>1, <2>2 DEF Settings
<1>3. ASSUME NEW s \in Sessions, NEW h \in Hooks, NEW next, NEW views, Press(s, h, next, views)
      PROVE  Counts
  <2>1. UNCHANGED hook /\ pc[s] = "idle" /\ \A t \in Sessions \ {s} : pc'[t] = pc[t]
    BY <1>0, <1>3 DEF Press, Arrives, Reads
  <2> QED
    BY <1>1, <2>1 DEF Settings
<1>4. ASSUME NEW s \in Sessions, NEW row, Write(s, row), pc[s] \notin Settings,
              \/ row.retired
              \/ LET old == hook[job[s].id]
                 IN  /\ row.active = old.active /\ row.fields = old.fields
                     /\ row.filter = old.filter /\ row.views = old.views
       PROVE  Counts
  <2>1. /\ \A t \in Sessions \ {s} : pc'[t] = pc[t]
        /\ \/ hook' = [hook EXCEPT ![job[s].id] = row]
           \/ UNCHANGED hook
    BY <1>0, <1>4 DEF Write, Leave, Begin, Go
  <2>2. ASSUME NEW h \in Hooks, Editable(h), Editable(h)'
        PROVE  /\ hook'[h].active = hook[h].active /\ hook'[h].fields = hook[h].fields
               /\ hook'[h].filter = hook[h].filter /\ hook'[h].views = hook[h].views
    BY <1>0, <1>4, <2>1, <2>2 DEF Editable
  <2> QED
    BY <1>1, <1>4, <2>1, <2>2
<1>5. ASSUME NEW s \in Sessions, SetWindow(s) PROVE Counts
  <2>1. PICK window \in Windows : Write(s, [hook[job[s].id] EXCEPT !.window = window])
    BY <1>5 DEF SetWindow
  <2> DEFINE old == hook[job[s].id]
             row == [old EXCEPT !.window = window]
  <2>2. old \in Row
    BY <1>0
  <2>3. /\ row.active = old.active /\ row.fields = old.fields
        /\ row.filter = old.filter /\ row.views = old.views
    BY <2>2 DEF Row
  <2>4. pc[s] \notin Settings /\ Write(s, row)
    BY <1>5, <2>1 DEF SetWindow, Settings
  <2> HIDE DEF row
  <2> QED
    BY <1>4, <2>3, <2>4
<1>6. ASSUME NEW s \in Sessions, Rollback(s) \/ Retire(s) PROVE Counts
  <2>1. RetiredRow(job[s].id).retired
    BY <1>0 DEF RetiredRow, Row
  <2> QED
    BY <1>4, <1>6, <2>1 DEF Rollback, Retire, Settings
<1>7. ASSUME NEW s \in Sessions,
              \/ Post(s) \/ PostFails(s) \/ Reconcile(s) \/ RollbackInVain(s)
              \/ ListWebhooks(s) \/ RemoveWebhook(s) \/ AllRemoved(s) \/ Confirm(s)
              \/ CheckFilter(s) \/ ChooseViews(s) \/ Forget(s)
       PROVE  Counts
  <2>1. UNCHANGED hook /\ pc[s] \notin Settings
    BY <1>7 DEF Post, PostFails, Reconcile, RollbackInVain, ListWebhooks, RemoveWebhook,
                 AllRemoved, Confirm, CheckFilter, ChooseViews, Forget, Settings
  <2>2. \E place, memory : Begin(s, place, memory)
    BY <1>7, GoIsBegin DEF Post, PostFails, Reconcile, RollbackInVain, ListWebhooks,
                 RemoveWebhook, AllRemoved, Confirm, CheckFilter, ChooseViews, Forget, Leave
  <2>3. \A t \in Sessions \ {s} : pc'[t] = pc[t]
    BY <1>0, <2>2 DEF Begin
  <2> QED
    BY <1>1, <2>1, <2>3
<1>8. ASSUME NEW s \in Sessions, GiveUp(s) PROVE Counts
  <2>1. /\ UNCHANGED hook /\ faults' # faults
        /\ \A t \in Sessions \ {s} : pc'[t] = pc[t]
    BY <1>0, <1>8 DEF GiveUp, Fault, Leave, Begin, AdminInv, TypeOK
  <2> QED
    BY <2>1, NothingWritten
<1>9. CASE \E s \in Sessions : Handler(s)
  <2>1. PICK s \in Sessions : Handler(s)
    BY <1>9
  <2>2. ASSUME NEW h \in Hooks, PressButton(s, h) PROVE Counts
    BY <1>3, <2>2 DEF PressButton
  <2>3. ASSUME NEW h \in Hooks, NEW v \in Views, PressView(s, h, v) PROVE Counts
    BY <1>3, <2>3 DEF PressView
  <2> QED
    BY SettingsCount, <1>2, <1>5, <1>6, <1>7, <1>8, <2>1, <2>2, <2>3 DEF Handler
<1>10. CASE \/ \E h \in Hooks : Arrive(h) \/ PasteWebhook(h)
            \/ \E i \in DOMAIN webhook : RemoveByHand(i)
            \/ \E v \in Views : DeleteView(v)
            \/ UNCHANGED vars
  <2>1. UNCHANGED <<hook, pc, job>>
    BY <1>10 DEF Arrive, PasteWebhook, RemoveByHand, DeleteView, vars, handlerVars
  <2> QED
    BY <2>1, NothingWritten
<1> QED
  BY <1>9, <1>10 DEF Next

(* With any number of overlapping handlers: a press that does not fail     *)
(* changes its setting, unless another press of the same setting ran       *)
(* beside it, and no other handler changes that setting                    *)
(* (bot.py:339-348, 359-376, 384-445, database.py:193-214).                *)
THEOREM PressesCount == Spec => PressCounts
<1>1. Init => AdminInv /\ PressInv
  BY AdminInit, PressInit
<1>2. AdminInv /\ PressInv /\ [Next]_vars => (AdminInv /\ PressInv)'
  BY AdminStep, PressStep
<1>3. AdminInv /\ PressInv /\ [Next]_vars => [Counts]_vars
  BY StepCounts
<1>4. [Counts]_vars =>
        [\A h \in Hooks, place \in Settings : Editable(h) /\ Editable(h)' =>
           LET handlers == {s \in Sessions : At(s, place) /\ job[s].id = h}
           IN  /\ Changes(h, place) => handlers # {}
               /\ \A s \in handlers :
                    ~At(s, place)' /\ UNCHANGED faults /\ ~job[s].raced => Changes(h, place)]_vars
  BY DEF Counts
<1> QED
  BY <1>1, <1>2, <1>3, <1>4, PTL DEF Spec, PressCounts
=============================================================================
