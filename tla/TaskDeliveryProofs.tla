------------------------- MODULE TaskDeliveryProofs -------------------------
(***************************************************************************)
(* For any number of workers, tasks and views: the types of TaskDelivery,  *)
(* and that the mapping of a deleted task is never revived or moved,       *)
(* however many deliveries of its events overlap.  Then, for one worker,   *)
(* what becomes of the cards.                                              *)
(***************************************************************************)
EXTENDS TaskDelivery, SequenceTheorems, FiniteSetTheorems, TLAPS

(* TypeOK, cut along the variables that change together, with the two      *)
(* facts that make it inductive: a worker's message id was given by        *)
(* Telegram, and its event by the queue.                                   *)
QueuePart ==
  /\ QueueTypeOK
  /\ event \in Seq(Payload) /\ Len(event) <= MaxEvents
  /\ \A i \in Ids : status[i] # "absent" <=> i <= Len(event)
  /\ \A w \in Workers : held[w] # NoEvent => held[w] <= Len(event)

WorkerPart ==
  /\ pc \in [Workers -> Places]
  /\ job \in [Workers -> Job]
  /\ \A w \in Workers : pc[w] = "idle" <=> held[w] = NoEvent
  /\ \A w \in Workers : job[w].target <= Len(chat)

CardPart ==
  /\ row \in [Tasks -> Mapping]
  /\ chat \in Seq(Card)
  /\ \A t \in Tasks : row[t].msg <= Len(chat)

BudgetPart == /\ faults \in 0 .. MaxFaults /\ lost \in 0 .. MaxLost
              /\ switches \in 0 .. MaxSwitches /\ lapses \in 0 .. MaxLapses

DeliveryInv == /\ QueuePart /\ WorkerPart /\ CardPart /\ BudgetPart
               /\ vik \in [Tasks -> Task] /\ hook \in Hook

(* A delivery ends early and the event is owed again, whether its worker   *)
(* goes on or not; and the steps of a worker that is not at work.          *)
CutOff(w) == Interrupt(w) /\ Fault
Parks(w) == (Stop(w) /\ At(w, "idle")) \/ Restart(w)

Frozen == \A t \in Tasks : row[t].deleted => row'[t] = row[t]

LEMMA InvGivesTypes == DeliveryInv /\ stopped \in SUBSET Workers => TypeOK
BY DEF DeliveryInv, QueuePart, WorkerPart, CardPart, BudgetPart, TypeOK

-----------------------------------------------------------------------------
(* Values of the right type. *)

LEMMA BlankTyped == Blank \in Snapshot
BY QueueAssumption DEF Blank, Snap, Snapshot

LEMMA NoMappingTyped == NoMapping \in Mapping
BY BlankTyped DEF NoMapping, Mapping, MsgIds

LEMMA NewJobTyped ==
  ASSUME NEW snap \in Snapshot
  PROVE  NewJob(snap) \in Job /\ NewJob(snap).target = 0
<1>1. Unasked \in [Views -> Answer]
  BY BlankTyped DEF Unasked, Reply, Answer
<1> QED
  BY <1>1, NoMappingTyped DEF NewJob, Job, MsgIds, NoMsg

(* A worker that is not idle works on an event of the queue's. *)
LEMMA MineTyped ==
  ASSUME DeliveryInv, NEW w \in Workers, pc[w] # "idle"
  PROVE  /\ held[w] \in Ids /\ held[w] <= Len(event)
         /\ Mine(w) \in Payload /\ Mine(w).task \in Tasks /\ Mine(w).snap \in Snapshot
<1>1. held[w] \in Ids /\ held[w] <= Len(event)
  BY DEF DeliveryInv, WorkerPart, QueuePart, QueueTypeOK
<1>2. held[w] \in 1 .. Len(event)
  BY <1>1, QueueAssumption DEF DeliveryInv, QueuePart, Ids
<1>3. event[held[w]] \in Payload
  BY <1>2, ElementOfSeq DEF DeliveryInv, QueuePart
<1> QED
  BY <1>1, <1>3 DEF Mine, Payload

LEMMA JobTyped ==
  ASSUME DeliveryInv, NEW w \in Workers
  PROVE  /\ job[w] \in Job /\ job[w].target \in Nat /\ job[w].target <= Len(chat)
         /\ job[w].task \in Snapshot /\ job[w].answers \in [Views -> Answer]
         /\ job[w].found \in Mapping /\ job[w].found.snap \in Snapshot
BY DEF DeliveryInv, WorkerPart, Job, Mapping, MsgIds, NoMsg

LEMMA ChatLength == DeliveryInv => Len(chat) \in Nat /\ DOMAIN chat = 1 .. Len(chat)
BY LenProperties DEF DeliveryInv, CardPart

-----------------------------------------------------------------------------
(* How the parts survive a step. *)

(* One worker goes on with another memory. *)
LEMMA WorkerMoves ==
  ASSUME DeliveryInv, NEW w \in Workers, NEW place \in Places, NEW memory \in Job,
         pc[w] # "idle", place # "idle", UNCHANGED held,
         pc' = [pc EXCEPT ![w] = place], job' = [job EXCEPT ![w] = memory],
         Len(chat') \in Nat, Len(chat) <= Len(chat'), memory.target <= Len(chat')
  PROVE  WorkerPart'
<1>1. Len(chat) \in Nat /\ \A u \in Workers : job[u].target \in Nat
  BY ChatLength, JobTyped
<1>2. pc' \in [Workers -> Places] /\ job' \in [Workers -> Job]
  BY DEF DeliveryInv, WorkerPart
<1>3. \A u \in Workers : pc'[u] = "idle" <=> held'[u] = NoEvent
  BY DEF DeliveryInv, WorkerPart
<1>4. ASSUME NEW u \in Workers PROVE job'[u].target <= Len(chat')
  BY <1>1 DEF DeliveryInv, WorkerPart
<1> QED
  BY <1>2, <1>3, <1>4 DEF WorkerPart

(* The same with the memory it had. *)
LEMMA WorkerGoes ==
  ASSUME DeliveryInv, NEW w \in Workers, NEW place \in Places,
         pc[w] # "idle", place # "idle", UNCHANGED <<held, job>>, Go(w, place),
         Len(chat') \in Nat, Len(chat) <= Len(chat')
  PROVE  WorkerPart'
<1>1. job[w] \in Job /\ job[w].target \in Nat /\ job[w].target <= Len(chat)
  BY JobTyped
<1>2. job' = [job EXCEPT ![w] = job[w]] /\ Len(chat) \in Nat
  BY ChatLength DEF DeliveryInv, WorkerPart
<1>3. job[w].target <= Len(chat')
  BY <1>1, <1>2
<1> QED
  BY <1>1, <1>2, <1>3, WorkerMoves DEF Go

LEMMA CardsUntouched ==
  ASSUME DeliveryInv, UNCHANGED <<row, chat>>
  PROVE  CardPart' /\ Frozen /\ Len(chat') \in Nat /\ Len(chat) <= Len(chat')
BY ChatLength DEF DeliveryInv, CardPart, Frozen

LEMMA QueueUntouched ==
  ASSUME DeliveryInv, UNCHANGED <<QueueVars, event>>
  PROVE  QueuePart' /\ UNCHANGED held
BY DEF DeliveryInv, QueuePart, QueueTypeOK, QueueVars

LEMMA BudgetUntouched ==
  ASSUME DeliveryInv, UNCHANGED budgetVars
  PROVE  BudgetPart'
BY DEF DeliveryInv, BudgetPart, budgetVars

LEMMA BudgetSpent ==
  ASSUME DeliveryInv, Fault, UNCHANGED <<lost, switches, lapses>>
  PROVE  BudgetPart'
BY DeliveryConstants DEF DeliveryInv, BudgetPart, Fault

LEMMA WorldUntouched ==
  ASSUME DeliveryInv, UNCHANGED <<vik, hook>>
  PROVE  vik' \in [Tasks -> Task] /\ hook' \in Hook
BY DEF DeliveryInv

(* A worker's step that reads or decides, and changes nothing it shares. *)
LEMMA QuietStep ==
  ASSUME DeliveryInv, WorkerPart', BudgetPart',
         UNCHANGED <<QueueVars, vik, event, hook, row, chat>>
  PROVE  DeliveryInv' /\ Frozen
BY CardsUntouched, QueueUntouched, WorldUntouched DEF DeliveryInv

(* A worker's step on a card or a mapping. *)
LEMMA CardStep ==
  ASSUME DeliveryInv, WorkerPart', CardPart', Frozen,
         UNCHANGED <<QueueVars, vik, event, hook, budgetVars>>
  PROVE  DeliveryInv' /\ Frozen
BY BudgetUntouched, QueueUntouched, WorldUntouched DEF DeliveryInv

-----------------------------------------------------------------------------
(* The world outside the worker. *)

LEMMA AnnounceStep ==
  ASSUME DeliveryInv, NEW payload \in Payload, Announce(payload),
         vik' \in [Tasks -> Task]
  PROVE  DeliveryInv' /\ Frozen
<1> DEFINE n == Len(event)
<1>1. /\ event \in Seq(Payload) /\ n \in Nat /\ n < MaxEvents
      /\ MaxEvents \in Nat
  BY QueueAssumption, LenProperties DEF DeliveryInv, QueuePart, Announce
<1>2. /\ event' \in Seq(Payload) /\ Len(event') = n + 1
  BY <1>1, AppendProperties DEF Announce
<1>3. /\ status' = [status EXCEPT ![n + 1] = "fresh"] /\ UNCHANGED held
      /\ n + 1 \in Ids
  BY <1>1 DEF Announce, Accept, Ids
<1>4. QueuePart'
  <2>1. QueueTypeOK'
    BY <1>3 DEF DeliveryInv, QueuePart, QueueTypeOK, Statuses
  <2>2. ASSUME NEW i \in Ids PROVE status'[i] # "absent" <=> i <= Len(event')
    <3>1. CASE i = n + 1
      BY <3>1, <1>1, <1>2, <1>3 DEF DeliveryInv, QueuePart, QueueTypeOK
    <3>2. CASE i # n + 1
      <4>1. status'[i] = status[i]
        BY <3>2, <1>3 DEF DeliveryInv, QueuePart, QueueTypeOK
      <4>2. i <= n <=> i <= n + 1
        BY <3>2, <1>1 DEF Ids
      <4> QED
        BY <4>1, <4>2, <1>2 DEF DeliveryInv, QueuePart
    <3> QED
      BY <3>1, <3>2
  <2>3. ASSUME NEW w \in Workers, held'[w] # NoEvent PROVE held'[w] <= Len(event')
    <3>1. held[w] \in Ids /\ held[w] <= n /\ held'[w] = held[w]
      BY <2>3, <1>3 DEF DeliveryInv, QueuePart, QueueTypeOK
    <3> QED
      BY <3>1, <1>1, <1>2 DEF Ids
  <2> QED
    BY <1>1, <1>2, <2>1, <2>2, <2>3 DEF QueuePart
<1>5. UNCHANGED <<hook, row, chat, pc, job, budgetVars>>
  BY DEF Announce, deliveryVars
<1>6. WorkerPart' /\ BudgetPart' /\ CardPart' /\ Frozen
  BY <1>3, <1>5, CardsUntouched, BudgetUntouched DEF DeliveryInv, WorkerPart
<1> QED
  BY <1>4, <1>5, <1>6 DEF DeliveryInv

LEMMA WorldStep ==
  ASSUME DeliveryInv,
         \/ \E t \in Tasks : ChangeTask(t) \/ CommentOnTask(t) \/ DeleteTask(t)
         \/ \E m \in DOMAIN chat : RemoveCard(m) \/ FixCard(m)
         \/ SwitchHook
  PROVE  DeliveryInv' /\ Frozen
<1>0. vik \in [Tasks -> Task]
  BY DEF DeliveryInv
<1>1. ASSUME NEW t \in Tasks, ChangeTask(t) PROVE DeliveryInv' /\ Frozen
  <2>1. PICK done \in BOOLEAN, in \in SUBSET Views :
          LET snap == Snap(vik[t].snap.ver + 1, done)
          IN  /\ snap \in Snapshot
              /\ vik' = [vik EXCEPT ![t] = [exists |-> TRUE, snap |-> snap, in |-> in]]
              /\ Announce(Payloads("update", t, snap))
    BY <1>1 DEF ChangeTask
  <2>2. PICK snap \in Snapshot :
          /\ vik' = [vik EXCEPT ![t] = [exists |-> TRUE, snap |-> snap, in |-> in]]
          /\ Announce(Payloads("update", t, snap))
    BY <2>1
  <2>3. [exists |-> TRUE, snap |-> snap, in |-> in] \in Task
    BY DEF Task
  <2>4. vik' \in [Tasks -> Task]
    BY <1>0, <2>2, <2>3
  <2>5. Payloads("update", t, snap) \in Payload
    BY DEF Payloads, Payload, Kinds
  <2> QED
    BY <2>2, <2>4, <2>5, AnnounceStep
<1>2. ASSUME NEW t \in Tasks, CommentOnTask(t) PROVE DeliveryInv' /\ Frozen
  <2>1. Payloads("comment", t, Blank) \in Payload
    BY BlankTyped DEF Payloads, Payload, Kinds
  <2> QED
    BY <1>0, <1>2, <2>1, AnnounceStep DEF CommentOnTask
<1>3. ASSUME NEW t \in Tasks, DeleteTask(t) PROVE DeliveryInv' /\ Frozen
  <2>1. vik[t].snap \in Snapshot
    BY <1>0 DEF Task
  <2>2. Payloads("delete", t, vik[t].snap) \in Payload
    BY <2>1 DEF Payloads, Payload, Kinds
  <2>3. [exists |-> FALSE, snap |-> vik[t].snap, in |-> {}] \in Task
    BY <2>1 DEF Task
  <2>4. vik' \in [Tasks -> Task]
    BY <1>0, <1>3, <2>3 DEF DeleteTask
  <2> QED
    BY <1>3, <2>2, <2>4, AnnounceStep DEF DeleteTask
<1>4. ASSUME NEW m \in DOMAIN chat, RemoveCard(m) \/ FixCard(m) PROVE DeliveryInv' /\ Frozen
  <2>1. chat[m] \in Card /\ chat \in Seq(Card)
    BY ElementOfSeq DEF DeliveryInv, CardPart
  <2>2. [chat[m] EXCEPT !.shown = FALSE] \in Card /\ [chat[m] EXCEPT !.fixed = TRUE] \in Card
    BY <2>1 DEF Card
  <2>3. \E card \in Card : chat' = [chat EXCEPT ![m] = card]
    BY <1>4, <2>2 DEF RemoveCard, FixCard
  <2>4. chat' \in Seq(Card) /\ Len(chat') = Len(chat)
    BY <2>1, <2>3, ExceptSeq
  <2>5. CardPart' /\ Frozen
    BY <1>4, <2>4 DEF RemoveCard, FixCard, DeliveryInv, CardPart, Frozen
  <2>6. WorkerPart'
    BY <1>4, <2>4 DEF RemoveCard, FixCard, DeliveryInv, WorkerPart, QueueVars
  <2>7. BudgetPart'
    BY <1>4, DeliveryConstants DEF RemoveCard, FixCard, DeliveryInv, BudgetPart
  <2> QED
    BY <1>4, <2>5, <2>6, <2>7, QueueUntouched, WorldUntouched DEF RemoveCard, FixCard, DeliveryInv
<1>5. ASSUME SwitchHook PROVE DeliveryInv' /\ Frozen
  <2>1. BudgetPart'
    BY <1>5, DeliveryConstants DEF SwitchHook, DeliveryInv, BudgetPart
  <2>2. UNCHANGED <<row, chat, pc, job>> /\ hook' \in Hook
    BY <1>5 DEF SwitchHook, deliveryVars, DeliveryInv, Hook
  <2>3. WorkerPart'
    BY <1>5, <2>2 DEF SwitchHook, DeliveryInv, WorkerPart, QueueVars
  <2> QED
    BY <1>5, <2>1, <2>2, <2>3, QueueUntouched, CardsUntouched DEF SwitchHook, DeliveryInv
<1> QED
  BY <1>1, <1>2, <1>3, <1>4, <1>5

-----------------------------------------------------------------------------
(* A delivery, await by await. *)

LEMMA IdleOrNot ==
  ASSUME DeliveryInv, NEW w \in Workers
  PROVE  pc[w] = "idle" <=> held[w] = NoEvent
BY DEF DeliveryInv, WorkerPart

(* Reading the hook. *)
LEMMA HookStep ==
  ASSUME DeliveryInv, NEW w \in Workers,
         ReadHook(w) \/ IgnoreInactive(w) \/ IgnoreExpired(w)
  PROVE  DeliveryInv' /\ Frozen
<1>1. /\ pc[w] # "idle" /\ FirstRead(w) \in Places \ {"idle"}
      /\ UNCHANGED <<QueueVars, vik, event, hook, row, chat, job>>
      /\ Go(w, FirstRead(w)) \/ Go(w, "close")
  BY DEF ReadHook, IgnoreInactive, IgnoreExpired, At, FirstRead, Places
<1>2. Len(chat') \in Nat /\ Len(chat) <= Len(chat') /\ UNCHANGED held
  BY <1>1, CardsUntouched DEF QueueVars
<1>3. WorkerPart'
  BY <1>1, <1>2, WorkerGoes DEF Places
<1>4. BudgetPart'
  BY DeliveryConstants
  DEF ReadHook, IgnoreInactive, IgnoreExpired, DeliveryInv, BudgetPart, budgetVars
<1> QED
  BY <1>1, <1>3, <1>4, QuietStep

(* Reading the task, or asking the views for it. *)
LEMMA TaskStep ==
  ASSUME DeliveryInv, NEW w \in Workers,
         \/ ReadTask(w) \/ ReadTaskFails(w)
         \/ (\E v \in Views : AskView(w, v)) \/ JudgeViews(w)
  PROVE  DeliveryInv' /\ Frozen
<1>1. /\ pc[w] # "idle"
      /\ UNCHANGED <<QueueVars, vik, event, hook, row, chat>>
  BY DEF ReadTask, ReadTaskFails, AskView, JudgeViews, At
<1>2. Len(chat') \in Nat /\ Len(chat) <= Len(chat') /\ UNCHANGED held
  BY <1>1, CardsUntouched DEF QueueVars
<1>3. Mine(w).task \in Tasks
  BY <1>1, MineTyped
<1>4. /\ vik[Mine(w).task].snap \in Snapshot
      /\ job \in [Workers -> Job] /\ pc \in [Workers -> Places]
  BY <1>3 DEF DeliveryInv, Task, WorkerPart
<1>5. ASSUME NEW snap \in Snapshot
      PROVE  /\ [job[w] EXCEPT !.task = snap] \in Job
             /\ [job[w] EXCEPT !.task = snap].target = job[w].target
  BY JobTyped DEF Job
<1>6. job[w].target <= Len(chat')
  BY <1>1, JobTyped
<1>7. CASE ReadTask(w)
  <2>1. PICK snap \in Snapshot : job' = [job EXCEPT ![w] = [job[w] EXCEPT !.task = snap]]
    BY <1>4, <1>7 DEF ReadTask
  <2>2. WorkerPart'
    BY <1>1, <1>2, <1>5, <1>6, <1>7, <2>1, WorkerMoves DEF ReadTask, Go, Places
  <2> QED
    BY <1>1, <1>7, <2>2, QuietStep, BudgetUntouched DEF ReadTask
<1>8. CASE ReadTaskFails(w)
  <2>1. WorkerPart'
    BY <1>1, <1>2, <1>8, WorkerGoes DEF ReadTaskFails, Places
  <2>2. BudgetPart'
    <3>1. CASE Fault
      BY <3>1, <1>8, BudgetSpent DEF ReadTaskFails
    <3>2. CASE UNCHANGED faults
      BY <3>2, <1>8, BudgetUntouched DEF ReadTaskFails, budgetVars
    <3> QED
      BY <1>8, <3>1, <3>2 DEF ReadTaskFails
  <2> QED
    BY <1>1, <2>1, <2>2, QuietStep
<1>9. ASSUME NEW v \in Views, AskView(w, v) PROVE DeliveryInv' /\ Frozen
  <2>1. PICK answer \in {Reply("hit", vik[Mine(w).task].snap), Reply("absent", Blank),
                         Reply("failed", Blank)} :
          /\ IF answer.kind = "failed" THEN Fault ELSE UNCHANGED faults
          /\ job' = [job EXCEPT ![w].answers[v] = answer]
    BY <1>9 DEF AskView
  <2>2. answer \in Answer
    BY <1>4, BlankTyped DEF Reply, Answer
  <2> DEFINE memory == [job[w] EXCEPT !.answers = [job[w].answers EXCEPT ![v] = answer]]
  <2>3. [job[w].answers EXCEPT ![v] = answer] \in [Views -> Answer]
    BY <2>2, JobTyped
  <2>4. memory \in Job /\ memory.target = job[w].target
    BY <2>3, JobTyped DEF Job
  <2>5. job' = [job EXCEPT ![w] = memory]
    BY <2>1, <1>4
  <2>6. pc' = [pc EXCEPT ![w] = pc[w]] /\ pc[w] \in Places
    BY <1>4, <1>9 DEF AskView
  <2>7. WorkerPart'
    <3> HIDE DEF memory
    <3> QED
      BY <1>1, <1>2, <1>6, <2>4, <2>5, <2>6, WorkerMoves
  <2>8. BudgetPart'
    <3>1. CASE Fault
      BY <3>1, <1>9, BudgetSpent DEF AskView
    <3>2. CASE UNCHANGED faults
      BY <3>2, <1>9, BudgetUntouched DEF AskView, budgetVars
    <3> QED
      BY <2>1, <3>1, <3>2
  <2> QED
    BY <1>1, <2>7, <2>8, QuietStep
<1>10. CASE JudgeViews(w)
  <2>1. \/ \E v \in Views : job' = [job EXCEPT ![w].task = job[w].answers[v].snap]
        \/ UNCHANGED job
    BY <1>10 DEF JudgeViews, Answered
  <2>2. ASSUME NEW v \in Views, job' = [job EXCEPT ![w].task = job[w].answers[v].snap]
        PROVE  WorkerPart'
    <3>1. job[w].answers[v].snap \in Snapshot
      BY JobTyped DEF Answer
    <3>2. PICK snap \in Snapshot : job' = [job EXCEPT ![w] = [job[w] EXCEPT !.task = snap]]
      BY <1>4, <2>2, <3>1
    <3> QED
      BY <1>1, <1>2, <1>5, <1>6, <1>10, <3>2, WorkerMoves DEF JudgeViews, Go, Places
  <2>3. ASSUME UNCHANGED job PROVE WorkerPart'
    BY <1>1, <1>2, <1>10, <2>3, WorkerGoes DEF JudgeViews, Places
  <2>4. WorkerPart'
    BY <2>1, <2>2, <2>3
  <2> QED
    BY <1>1, <1>10, <2>4, QuietStep, BudgetUntouched DEF JudgeViews
<1> QED
  BY <1>7, <1>8, <1>9, <1>10

(* Reading the mapping. *)
LEMMA RowStep ==
  ASSUME DeliveryInv, NEW w \in Workers, ReadRow(w)
  PROVE  DeliveryInv' /\ Frozen
<1> DEFINE found == row[Mine(w).task]
           memory == [task |-> job[w].task, answers |-> job[w].answers,
                      found |-> found, target |-> found.msg]
<1>1. /\ pc[w] # "idle" /\ Mine(w).task \in Tasks
      /\ UNCHANGED <<QueueVars, vik, event, hook, row, chat>>
  BY MineTyped DEF ReadRow, At
<1>2. Len(chat') \in Nat /\ Len(chat) <= Len(chat') /\ UNCHANGED held
  BY <1>1, CardsUntouched DEF QueueVars
<1>3. found \in Mapping /\ found.msg <= Len(chat')
  BY <1>1 DEF DeliveryInv, CardPart
<1>4. memory \in Job /\ memory.target = found.msg
  BY <1>3, JobTyped DEF Job, Mapping
<1>5. job' = [job EXCEPT ![w] = memory]
  BY DEF ReadRow, DeliveryInv, WorkerPart
<1>6. \E place \in Places : place # "idle" /\ Go(w, place)
  BY DEF ReadRow, Places
<1>7. WorkerPart'
  <2> HIDE DEF memory
  <2> QED
    BY <1>1, <1>2, <1>3, <1>4, <1>5, <1>6, WorkerMoves DEF Go
<1> QED
  BY <1>1, <1>7, QuietStep, BudgetUntouched DEF ReadRow

(* Editing the card. *)
LEMMA EditStep ==
  ASSUME DeliveryInv, NEW w \in Workers, EditCard(w)
  PROVE  DeliveryInv' /\ Frozen
<1> DEFINE m == job[w].target
<1>1. /\ pc[w] # "idle" /\ UNCHANGED <<QueueVars, vik, event, hook, row, job, budgetVars>>
      /\ \E place \in Places : place # "idle" /\ Go(w, place)
  BY DEF EditCard, At, Places
<1>2. Text(w) \in Snapshot
  BY JobTyped DEF Text
<1>3. /\ m \in Nat /\ m <= Len(chat) /\ Len(chat) \in Nat
      /\ chat \in Seq(Card) /\ DOMAIN chat = 1 .. Len(chat)
  BY JobTyped, ChatLength DEF DeliveryInv, CardPart
<1>4. chat' \in Seq(Card) /\ Len(chat') = Len(chat)
  <2>1. CASE UNCHANGED chat
    BY <2>1, <1>3
  <2>2. CASE chat' = [chat EXCEPT ![m] = Edited(w, chat[m])] /\ m \in DOMAIN chat
    <3>1. chat[m] \in Card
      BY <2>2, <1>3, ElementOfSeq
    <3>2. Path(w) \in Faces
      BY DEF Path, Faces
    <3>3. Edited(w, chat[m]) \in Card
      BY <3>1, <3>2, <1>2 DEF Edited, Card
    <3> QED
      BY <2>2, <3>3, <1>3, ExceptSeq
  <2>3. CASE chat' = [chat EXCEPT ![m] = Edited(w, chat[m])] /\ m \notin DOMAIN chat
    <3>1. chat' = chat
      BY <2>3, <1>3
    <3> QED
      BY <3>1, <1>3
  <2> QED
    BY <2>1, <2>2, <2>3 DEF EditCard
<1>5. CardPart' /\ Frozen
  BY <1>1, <1>4 DEF DeliveryInv, CardPart, Frozen
<1>6. WorkerPart'
  BY <1>1, <1>3, <1>4, WorkerGoes DEF QueueVars
<1> QED
  BY <1>1, <1>5, <1>6, CardStep

(* Sending a card. *)
LEMMA SendStep ==
  ASSUME DeliveryInv, NEW w \in Workers, SendCard(w)
  PROVE  DeliveryInv' /\ Frozen
<1> DEFINE card == [task |-> Mine(w).task, face |-> "live", snap |-> job[w].task,
                    tick |-> FALSE, shown |-> TRUE, fixed |-> FALSE]
           memory == [job[w] EXCEPT !.target = Len(chat) + 1]
<1>1. /\ pc[w] # "idle" /\ UNCHANGED <<QueueVars, vik, event, hook, row, budgetVars>>
      /\ Go(w, "save") /\ chat' = Append(chat, card)
      /\ job \in [Workers -> Job] /\ job' = [job EXCEPT ![w] = memory]
  BY DEF SendCard, At, DeliveryInv, WorkerPart
<1>2. Mine(w).task \in Tasks
  BY <1>1, MineTyped
<1>3. card \in Card
  BY <1>2, JobTyped DEF Card, Faces
<1>4. /\ Len(chat) \in Nat /\ chat' \in Seq(Card) /\ Len(chat') = Len(chat) + 1
  <2> HIDE DEF card
  <2> QED
    BY <1>1, <1>3, ChatLength, AppendProperties DEF DeliveryInv, CardPart
<1>5. memory \in Job /\ memory.target = Len(chat) + 1
  BY <1>4, JobTyped DEF Job, MsgIds, NoMsg
<1>6. WorkerPart'
  <2>1. /\ "save" \in Places /\ UNCHANGED held
        /\ pc' = [pc EXCEPT ![w] = "save"]
    BY <1>1 DEF QueueVars, Go, Places
  <2>2. Len(chat') \in Nat /\ Len(chat) <= Len(chat') /\ memory.target <= Len(chat')
    <3> HIDE DEF memory, card
    <3> QED
      BY <1>4, <1>5
  <2> HIDE DEF memory, card
  <2> QED
    BY <1>1, <1>5, <2>1, <2>2, WorkerMoves
<1>7. ASSUME NEW t \in Tasks PROVE row'[t].msg <= Len(chat')
  <2>1. row[t].msg \in Nat /\ row[t].msg <= Len(chat)
    BY DEF DeliveryInv, CardPart, Mapping, MsgIds, NoMsg
  <2> HIDE DEF card
  <2> QED
    BY <2>1, <1>1, <1>4
<1>8. CardPart' /\ Frozen
  BY <1>1, <1>4, <1>7 DEF DeliveryInv, CardPart, Frozen
<1> QED
  BY <1>1, <1>6, <1>8, CardStep

(* The reaction. *)
LEMMA ReactStep ==
  ASSUME DeliveryInv, NEW w \in Workers, React(w) \/ ReactFails(w)
  PROVE  DeliveryInv' /\ Frozen
<1> DEFINE m == job[w].target
<1>1. /\ pc[w] # "idle" /\ UNCHANGED <<QueueVars, vik, event, hook, row, job>>
      /\ \E place \in Places : place # "idle" /\ Go(w, place)
  BY DEF React, ReactFails, At, Places
<1>2. /\ m \in Nat /\ m <= Len(chat) /\ Len(chat) \in Nat
      /\ chat \in Seq(Card) /\ DOMAIN chat = 1 .. Len(chat)
  BY JobTyped, ChatLength DEF DeliveryInv, CardPart
<1>3. chat' \in Seq(Card) /\ Len(chat') = Len(chat)
  <2>1. CASE UNCHANGED chat
    BY <2>1, <1>2
  <2>2. ASSUME NEW tick \in BOOLEAN, chat' = [chat EXCEPT ![m].tick = tick],
               m \in DOMAIN chat
        PROVE  chat' \in Seq(Card) /\ Len(chat') = Len(chat)
    <3>1. chat[m] \in Card
      BY <2>2, <1>2, ElementOfSeq
    <3>2. [chat[m] EXCEPT !.tick = tick] \in Card
      BY <3>1 DEF Card
    <3>3. chat' = [chat EXCEPT ![m] = [chat[m] EXCEPT !.tick = tick]]
      BY <2>2
    <3> QED
      BY <3>2, <3>3, <2>2, <1>2, ExceptSeq
  <2>3. ASSUME NEW tick \in BOOLEAN, chat' = [chat EXCEPT ![m].tick = tick],
               m \notin DOMAIN chat
        PROVE  chat' = chat
    BY <2>3, <1>2
  <2>4. \/ UNCHANGED chat
        \/ \E tick \in BOOLEAN : chat' = [chat EXCEPT ![m].tick = tick]
    BY JobTyped DEF React, ReactFails, Snapshot
  <2> QED
    BY <2>1, <2>2, <2>3, <2>4, <1>2
<1>4. CardPart' /\ Frozen
  BY <1>1, <1>3 DEF DeliveryInv, CardPart, Frozen
<1>5. WorkerPart'
  BY <1>1, <1>2, <1>3, WorkerGoes DEF QueueVars
<1>6. BudgetPart'
  BY BudgetSpent, BudgetUntouched DEF React, ReactFails
<1> QED
  BY <1>1, <1>4, <1>5, <1>6, QueueUntouched, WorldUntouched DEF DeliveryInv

(* Writing the mapping: a deleted one stays as it is. *)
LEMMA MappingWritten ==
  ASSUME DeliveryInv, NEW w \in Workers, NEW mapping \in Mapping, NEW t \in Tasks,
         pc[w] # "idle", row' = [row EXCEPT ![t] = mapping],
         mapping.msg <= Len(chat), row[t].deleted => mapping = row[t],
         \E place \in Places : place # "idle" /\ Go(w, place),
         UNCHANGED <<QueueVars, vik, event, hook, chat, job, budgetVars>>
  PROVE  DeliveryInv' /\ Frozen
<1>1. CardPart'
  BY DEF DeliveryInv, CardPart
<1>2. Frozen
  BY DEF DeliveryInv, CardPart, Frozen
<1>3. WorkerPart'
  BY ChatLength, WorkerGoes DEF QueueVars
<1> QED
  BY <1>1, <1>2, <1>3, CardStep

LEMMA SaveStep ==
  ASSUME DeliveryInv, NEW w \in Workers, SaveRow(w)
  PROVE  DeliveryInv' /\ Frozen
<1> DEFINE t == Mine(w).task
<1>1. /\ pc[w] # "idle" /\ row' = [row EXCEPT ![t] = Saved(w, row[t])]
      /\ \E place \in Places : place # "idle" /\ Go(w, place)
      /\ UNCHANGED <<QueueVars, vik, event, hook, chat, job, budgetVars>>
  BY DEF SaveRow, At, Places
<1>2. t \in Tasks /\ row[t] \in Mapping /\ row[t].msg <= Len(chat)
  BY <1>1, MineTyped DEF DeliveryInv, CardPart
<1>3. /\ Live(job[w].target, job[w].task) \in Mapping
      /\ Live(job[w].target, job[w].task).msg <= Len(chat)
  BY JobTyped DEF Live, Mapping, MsgIds, NoMsg
<1>4. /\ Saved(w, row[t]) \in Mapping /\ Saved(w, row[t]).msg <= Len(chat)
      /\ row[t].deleted => Saved(w, row[t]) = row[t]
  BY <1>2, <1>3 DEF Saved
<1> QED
  BY <1>1, <1>2, <1>4, MappingWritten

LEMMA MarkStep ==
  ASSUME DeliveryInv, NEW w \in Workers, MarkRow(w)
  PROVE  DeliveryInv' /\ Frozen
<1> DEFINE t == Mine(w).task
<1>1. /\ pc[w] # "idle" /\ row' = [row EXCEPT ![t] = Marked(w, row[t])]
      /\ \E place \in Places : place # "idle" /\ Go(w, place)
      /\ UNCHANGED <<QueueVars, vik, event, hook, chat, job, budgetVars>>
  BY DEF MarkRow, At, Places
<1>2. t \in Tasks /\ row[t] \in Mapping /\ row[t].msg <= Len(chat)
  BY <1>1, MineTyped DEF DeliveryInv, CardPart
<1>3. /\ [row[t] EXCEPT !.deleted = TRUE] \in Mapping
      /\ [row[t] EXCEPT !.deleted = TRUE].msg = row[t].msg
      /\ row[t].deleted => [row[t] EXCEPT !.deleted = TRUE] = row[t]
  BY <1>2 DEF Mapping
<1>4. /\ [row[t] EXCEPT !.filtered = TRUE] \in Mapping
      /\ [row[t] EXCEPT !.filtered = TRUE].msg = row[t].msg
  BY <1>2 DEF Mapping
<1>5. /\ Marked(w, row[t]) \in Mapping /\ Marked(w, row[t]).msg <= Len(chat)
      /\ row[t].deleted => Marked(w, row[t]) = row[t]
  BY <1>2, <1>3, <1>4 DEF Marked
<1> QED
  BY <1>1, <1>2, <1>5, MappingWritten

-----------------------------------------------------------------------------
(* Where a delivery begins and ends. *)

LEMMA StartStep ==
  ASSUME DeliveryInv, NEW w \in Workers, Start(w)
  PROVE  DeliveryInv' /\ Frozen
<1>1. PICK i \in Ids : Take(w, i) /\ job' = [job EXCEPT ![w] = NewJob(event[i].snap)]
  BY DEF Start
<1>2. /\ pc' = [pc EXCEPT ![w] = "hook"] /\ pc[w] = "idle"
      /\ UNCHANGED <<vik, event, hook, row, chat, budgetVars>>
  BY DEF Start, Go, At
<1>3. /\ status' = [status EXCEPT ![i] = "held"] /\ status[i] # "absent"
      /\ held' = [held EXCEPT ![w] = i]
  BY <1>1 DEF Take
<1>4. i <= Len(event) /\ i \in 1 .. Len(event)
  BY <1>3, QueueAssumption DEF DeliveryInv, QueuePart, Ids
<1>5. QueuePart'
  BY <1>2, <1>3, <1>4 DEF DeliveryInv, QueuePart, QueueTypeOK, Statuses
<1>6. event[i].snap \in Snapshot
  <2>1. event[i] \in Payload
    BY <1>4, ElementOfSeq DEF DeliveryInv, QueuePart
  <2> QED
    BY <2>1 DEF Payload
<1> DEFINE memory == NewJob(event[i].snap)
<1>7. memory \in Job /\ memory.target = 0
  BY <1>6, NewJobTyped
<1>8. WorkerPart'
  <2>0. job' = [job EXCEPT ![w] = memory]
    BY <1>1
  <2> HIDE DEF memory
  <2>1. pc' \in [Workers -> Places] /\ job' \in [Workers -> Job]
    BY <2>0, <1>2, <1>7 DEF DeliveryInv, WorkerPart, Places
  <2>2. \A u \in Workers : pc'[u] = "idle" <=> held'[u] = NoEvent
    <3>1. i # NoEvent
      BY DEF Ids, NoEvent
    <3> QED
      BY <3>1, <1>2, <1>3
      DEF DeliveryInv, WorkerPart, QueuePart, QueueTypeOK
  <2>3. \A u \in Workers : job'[u].target <= Len(chat')
    <3>1. chat' = chat /\ 0 <= Len(chat)
      BY <1>2, ChatLength
    <3> QED
      BY <3>1, <2>0, <1>7 DEF DeliveryInv, WorkerPart
  <2> QED
    BY <2>1, <2>2, <2>3 DEF WorkerPart
<1> QED
  BY <1>2, <1>5, <1>8, CardsUntouched, BudgetUntouched DEF DeliveryInv

(* A delivery that is over, one way or the other. *)
LEMMA Released ==
  ASSUME DeliveryInv, NEW w \in Workers, pc[w] # "idle",
         NEW outcome \in Statuses \ {"absent"}, Release(w, outcome),
         Go(w, "idle"), job' = [job EXCEPT ![w] = NoJob], BudgetPart',
         UNCHANGED <<vik, event, hook, row, chat>>
  PROVE  DeliveryInv' /\ Frozen
<1>1. held[w] \in Ids /\ held[w] <= Len(event)
  BY MineTyped
<1>2. /\ status' = [status EXCEPT ![held[w]] = outcome]
      /\ held' = [held EXCEPT ![w] = NoEvent]
  BY DEF Release
<1>3. QueuePart'
  BY <1>1, <1>2 DEF DeliveryInv, QueuePart, QueueTypeOK
<1>4. NoJob \in Job /\ NoJob.target = 0
  BY BlankTyped, NewJobTyped DEF NoJob
<1>5. WorkerPart'
  <2>1. pc' \in [Workers -> Places] /\ job' \in [Workers -> Job]
    BY <1>4 DEF Go, DeliveryInv, WorkerPart, Places
  <2>2. \A u \in Workers : pc'[u] = "idle" <=> held'[u] = NoEvent
    BY <1>2 DEF Go, DeliveryInv, WorkerPart, QueuePart, QueueTypeOK
  <2>3. \A u \in Workers : job'[u].target <= Len(chat')
    <3>1. chat' = chat /\ 0 <= Len(chat)
      BY ChatLength
    <3> QED
      BY <3>1, <1>4 DEF DeliveryInv, WorkerPart
  <2> QED
    BY <2>1, <2>2, <2>3 DEF WorkerPart
<1> QED
  BY <1>3, <1>5, CardsUntouched DEF DeliveryInv

LEMMA EndStep ==
  ASSUME DeliveryInv, NEW w \in Workers, Close(w) \/ CutOff(w) \/ ViewsFail(w)
  PROVE  DeliveryInv' /\ Frozen
<1>1. /\ pc[w] # "idle" /\ Go(w, "idle") /\ job' = [job EXCEPT ![w] = NoJob]
      /\ UNCHANGED <<vik, event, hook, row, chat>>
      /\ Release(w, "done") \/ Release(w, "waiting")
  BY DEF Close, CutOff, ViewsFail, Interrupt, Finish, GiveBack, At
<1>2. BudgetPart'
  <2>1. CASE CutOff(w)
    BY <2>1, BudgetSpent DEF CutOff, Interrupt
  <2>2. CASE Close(w) \/ ViewsFail(w)
    BY <2>2, BudgetUntouched DEF Close, ViewsFail, Interrupt, budgetVars
  <2> QED
    BY <2>1, <2>2
<1>3. "done" \in Statuses \ {"absent"} /\ "waiting" \in Statuses \ {"absent"}
  BY DEF Statuses
<1> QED
  BY <1>1, <1>2, <1>3, Released

-----------------------------------------------------------------------------
(* The theorems. *)

LEMMA DeliveryInit == Init => DeliveryInv
<1> SUFFICES ASSUME Init PROVE DeliveryInv
  OBVIOUS
<1>1. /\ Len(<< >>) = 0 /\ << >> \in Seq(Payload) /\ << >> \in Seq(Card)
  BY EmptySeq
<1>2. QueuePart
  BY <1>1, QueueAssumption
  DEF Init, QueueInit, QueuePart, QueueTypeOK, Statuses, Ids, NoEvent
<1>3. NoJob \in Job /\ NoJob.target = 0
  BY BlankTyped, NewJobTyped DEF NoJob
<1>4. WorkerPart
  BY <1>1, <1>3 DEF Init, QueueInit, WorkerPart, Places
<1>5. CardPart
  BY <1>1, NoMappingTyped DEF Init, CardPart, NoMapping, NoMsg
<1>6. vik \in [Tasks -> Task] /\ hook \in Hook
  BY BlankTyped DEF Init, Task, Hook
<1>7. BudgetPart
  BY DeliveryConstants DEF Init, BudgetPart
<1> QED
  BY <1>2, <1>4, <1>5, <1>6, <1>7 DEF DeliveryInv

LEMMA StopsOrNot ==
  ASSUME NEW w \in Workers
  PROVE  /\ Fails(w) => CutOff(w)
         /\ (Stop(w) \/ Restart(w)) => (CutOff(w) \/ Parks(w))
BY DEF Fails, Stop, CutOff, Parks

LEMMA DeliveryStep ==
  ASSUME DeliveryInv, [Next]_vars
  PROVE  DeliveryInv' /\ Frozen
<1>1. ASSUME UNCHANGED vars PROVE DeliveryInv' /\ Frozen
  <2>1. UNCHANGED <<QueueVars, vik, event, hook, row, chat, pc, job, budgetVars>>
    BY <1>1 DEF vars, deliveryVars, QueueVars
  <2>2. WorkerPart' /\ BudgetPart'
    BY <2>1, BudgetUntouched DEF DeliveryInv, WorkerPart, QueueVars
  <2> QED
    BY <2>1, <2>2, QuietStep
<1>2. ASSUME NEW w \in Workers, Step(w) \/ IgnoreExpired(w) \/ CutOff(w)
      PROVE  DeliveryInv' /\ Frozen
  BY <1>2, StartStep, HookStep, TaskStep, RowStep, EditStep, SendStep, SaveStep,
     ReactStep, MarkStep, EndStep
  DEF Step
<1>3. ASSUME NEW w \in Workers, Parks(w) PROVE DeliveryInv' /\ Frozen
  <2>1. UNCHANGED <<QueueVars, vik, event, hook, row, chat, pc, job, lost, switches, lapses>>
    BY <1>3 DEF Parks, Stop, Restart, budgetVars, Interrupt, At
  <2>2. BudgetPart'
    BY <1>3, <2>1, BudgetSpent, BudgetUntouched DEF Parks, Stop, Restart
  <2>3. WorkerPart'
    BY <2>1 DEF DeliveryInv, WorkerPart, QueueVars
  <2> QED
    BY <2>1, <2>2, <2>3, QuietStep
<1>4. ASSUME NEW w \in Workers,
             Step(w) \/ IgnoreExpired(w) \/ Fails(w) \/ Stop(w) \/ Restart(w)
      PROVE  DeliveryInv' /\ Frozen
  BY <1>2, <1>3, <1>4, StopsOrNot
<1> QED
  BY <1>1, <1>4, WorldStep DEF Next

LEMMA StoppedTyped ==
  ASSUME stopped \in SUBSET Workers, [Next]_vars
  PROVE  stopped' \in SUBSET Workers
<1>1. stopped' = stopped \/ \E w \in Workers : stopped' \in {stopped \cup {w}, stopped \ {w}}
  BY ZenonT(40)
  DEF Next, vars, deliveryVars, Step, Start, ReadHook, IgnoreInactive, IgnoreExpired, ReadTask,
     ReadTaskFails, AskView, JudgeViews, ViewsFail, ReadRow, EditCard, SendCard, SaveRow, React,
     ReactFails, MarkRow, Close, Fails, Stop, Restart, ChangeTask, CommentOnTask, DeleteTask,
     Announce, RemoveCard, FixCard, SwitchHook
<1> QED
  BY <1>1

LEMMA DeliveryInvariant == Spec => []DeliveryInv
<1>1. DeliveryInv /\ [Next]_vars => DeliveryInv'
  BY DeliveryStep
<1> QED
  BY <1>1, DeliveryInit, PTL DEF Spec

(* Every variable has its type in every reachable state; in particular no  *)
(* mapping and no worker names a message Telegram has not given out, and   *)
(* the rows of the queue are the events accepted so far.                   *)
THEOREM DeliveryTypeCorrect == Spec => []TypeOK
<1> DEFINE Loops == stopped \in SUBSET Workers
<1>1. Init => Loops
  BY DEF Init
<1>2. Loops /\ [Next]_vars => Loops'
  BY StoppedTyped
<1>3. DeliveryInv /\ Loops => TypeOK
  BY InvGivesTypes
<1> HIDE DEF Loops
<1> QED
  BY <1>1, <1>2, <1>3, DeliveryInvariant, PTL DEF Spec

(* A deleted mapping is never revived or moved, with any number of         *)
(* workers delivering events of its task at once (database.py:498-501).    *)
THEOREM DeletionStaysFinal == Spec => DeletionIsFinal
<1>1. DeliveryInv /\ [Next]_vars
      => [\A t \in Tasks : row[t].deleted => row'[t] = row[t]]_vars
  BY DeliveryStep DEF Frozen
<1> QED
  BY <1>1, DeliveryInvariant, PTL DEF Spec, DeletionIsFinal

-----------------------------------------------------------------------------
(* From here on, what TaskDelivery keeps of its cards when one worker      *)
(* delivers, as run_bot starts it: the card of a deleted or filtered       *)
(* mapping says so, a mapping leaves its card only when that was removed,  *)
(* and an interrupted delivery leaves at most one card behind.             *)
OneWorker == \A u, w \in Workers : u = w

(* Places at which the mapping is still as the delivery found it, and      *)
(* those between the edit of a card and the mark that revokes it.          *)
Revoking(w) == At(w, "mark") \/ (At(w, "react") /\ Path(w) # "live")
Changing(w) == At(w, "edit") \/ At(w, "send") \/ At(w, "save") \/ Revoking(w)

(* What a worker may rely on between reading the mapping and writing it.   *)
Replaces(w, m) == \/ job[w].found.msg = m
                  \/ job[w].found.msg = NoMsg
                  \/ ~Editable(job[w].found.msg)

Knows(w) ==
  LET m == job[w].target
  IN  /\ Changing(w) => job[w].found = row[Mine(w).task] /\ ~job[w].found.deleted
      /\ At(w, "edit") \/ Revoking(w) => m = job[w].found.msg /\ m # NoMsg
      /\ At(w, "send") => Path(w) = "live" /\ Replaces(w, NoMsg)
      /\ At(w, "save") => /\ Path(w) = "live" /\ Replaces(w, m)
                          /\ m # NoMsg /\ chat[m].task = Mine(w).task
      /\ Revoking(w) => Path(w) # "live"
      /\ Revoking(w) /\ Editable(m) => chat[m].face = Path(w)

(* Each mapping leads to a card of its own task. *)
MapsOwn == \A t \in Tasks : row[t].msg # NoMsg => chat[row[t].msg].task = t

CardInv == MapsOwn /\ DeletedCardSaysSo /\ \A w \in Workers : Knows(w)

(* The strays that no delivery under way is going to map. *)
Abandoned == {m \in Strays : \A w \in Workers : At(w, "save") => job[w].target # m}

FewAbandoned == Cardinality(Abandoned) <= MaxFaults - faults

(* What each step does for the cards. *)
Moves == \A t \in Tasks : row[t].msg # NoMsg /\ row'[t].msg # row[t].msg
                            => ~Editable(row[t].msg)

Kept == CardInv' /\ Moves /\ Abandoned' \subseteq Abandoned

-----------------------------------------------------------------------------
(* Values and places. *)

LEMMA MessageIds ==
  ASSUME DeliveryInv
  PROVE  /\ Len(chat) \in Nat /\ DOMAIN chat = 1 .. Len(chat)
         /\ \A t \in Tasks : row[t].msg # NoMsg => row[t].msg \in DOMAIN chat
         /\ \A w \in Workers : job[w].target # NoMsg => job[w].target \in DOMAIN chat
<1>1. Len(chat) \in Nat /\ DOMAIN chat = 1 .. Len(chat)
  BY ChatLength
<1>2. ASSUME NEW t \in Tasks, row[t].msg # NoMsg PROVE row[t].msg \in DOMAIN chat
  BY <1>1, <1>2 DEF DeliveryInv, CardPart, Mapping, MsgIds, NoMsg
<1>3. ASSUME NEW w \in Workers, job[w].target # NoMsg PROVE job[w].target \in DOMAIN chat
  BY <1>1, <1>3, JobTyped DEF NoMsg
<1> QED
  BY <1>1, <1>2, <1>3

(* A delivery keeps its event and its procedure while it changes a card.   *)
LEMMA SameDelivery ==
  ASSUME DeliveryInv, NEW w \in Workers, pc[w] # "idle", UNCHANGED held,
         hook'.mode = hook.mode, job'[w].answers = job[w].answers,
         event' = event \/ \E payload \in Payload : event' = Append(event, payload)
  PROVE  Mine(w)' = Mine(w) /\ Path(w)' = Path(w)
<1>1. held[w] \in 1 .. Len(event) /\ event \in Seq(Payload)
  BY MineTyped DEF DeliveryInv, QueuePart, Ids
<1>2. event'[held[w]] = event[held[w]]
  BY <1>1, AppendProperties
<1>3. Mine(w)' = Mine(w)
  BY <1>2 DEF Mine
<1>4. Nowhere(w)' = Nowhere(w)
  BY DEF Nowhere, Answered
<1> QED
  BY <1>3, <1>4 DEF Path

LEMMA PathOf == ASSUME NEW w PROVE Path(w) \in {"live", "deleted", "filtered"}
BY DEF Path

(* A worker that is elsewhere has nothing to know, and no card changes.    *)
Aside == {"idle", "hook", "task", "views", "row", "close"}

LEMMA NothingToKnow ==
  ASSUME NEW w \in Workers, pc'[w] \in Aside
  PROVE  Knows(w)'
BY DEF Knows, Changing, Revoking, At, Aside

LEMMA AsideStep ==
  ASSUME OneWorker, DeliveryInv, CardInv, NEW w \in Workers, pc'[w] \in Aside,
         UNCHANGED <<row, chat>>, pc[w] # "save"
  PROVE  Kept
<1>1. \A u \in Workers : Knows(u)'
  BY NothingToKnow DEF OneWorker
<1>2. MapsOwn' /\ DeletedCardSaysSo' /\ Moves
  BY DEF CardInv, MapsOwn, DeletedCardSaysSo, Moves, Editable
<1>3. Abandoned' \subseteq Abandoned
  BY DEF Abandoned, Strays, OneWorker, At, Editable
<1> QED
  BY <1>1, <1>2, <1>3 DEF Kept, CardInv

-----------------------------------------------------------------------------
(* The world outside. *)

LEMMA WorldKeeps ==
  ASSUME DeliveryInv, CardInv, UNCHANGED <<row, pc, job, held>>, hook'.mode = hook.mode,
         event' = event \/ \E payload \in Payload : event' = Append(event, payload),
         DOMAIN chat' = DOMAIN chat,
         \A k \in DOMAIN chat : /\ chat'[k].task = chat[k].task
                                /\ chat'[k].face = chat[k].face
                                /\ Editable(k)' => Editable(k)
  PROVE  Kept
<1>1. MapsOwn' /\ DeletedCardSaysSo' /\ Moves
  BY MessageIds DEF CardInv, MapsOwn, DeletedCardSaysSo, Moves, Editable
<1>2. Abandoned' \subseteq Abandoned
  BY DEF Abandoned, Strays, At, Editable
<1>3. ASSUME NEW w \in Workers PROVE Knows(w)'
  <2>1. CASE pc[w] \in Aside
    BY <2>1, NothingToKnow
  <2>2. CASE pc[w] \notin Aside
    <3>1. Mine(w)' = Mine(w) /\ Path(w)' = Path(w) /\ Mine(w).task \in Tasks
      BY <2>2, SameDelivery, MineTyped DEF Aside
    <3>2. /\ Knows(w)
          /\ At(w, "edit")' = At(w, "edit") /\ At(w, "send")' = At(w, "send")
          /\ At(w, "save")' = At(w, "save") /\ Revoking(w)' = Revoking(w)
      BY <3>1 DEF CardInv, At, Revoking
    <3>3. Changing(w) => job[w].found = row[Mine(w).task]
      BY <3>2 DEF Knows
    <3>4. Changing(w) /\ job[w].found.msg # NoMsg => job[w].found.msg \in DOMAIN chat
      BY <3>1, <3>3, MessageIds
    <3>5. /\ Changing(w)' = Changing(w)
          /\ \A m : Changing(w) /\ Replaces(w, m) => Replaces(w, m)'
      BY <3>2, <3>4 DEF Changing, Replaces
    <3>6. job[w].target # NoMsg => job[w].target \in DOMAIN chat
      BY MessageIds
    <3>7. Changing(w) = (At(w, "edit") \/ At(w, "send") \/ At(w, "save") \/ Revoking(w))
      BY DEF Changing
    <3> QED
      BY <3>1, <3>2, <3>5, <3>6, <3>7 DEF Knows
  <2> QED
    BY <2>1, <2>2
<1> QED
  BY <1>1, <1>2, <1>3 DEF Kept, CardInv

LEMMA WorldCardStep ==
  ASSUME DeliveryInv, CardInv,
         \/ \E t \in Tasks : ChangeTask(t) \/ CommentOnTask(t) \/ DeleteTask(t)
         \/ \E m \in DOMAIN chat : RemoveCard(m) \/ FixCard(m)
         \/ SwitchHook
  PROVE  Kept
<1>1. ASSUME NEW payload \in Payload, Announce(payload) PROVE Kept
  BY <1>1, WorldKeeps DEF Announce, Accept, deliveryVars, Editable
<1>2. ASSUME NEW t \in Tasks, ChangeTask(t) \/ CommentOnTask(t) \/ DeleteTask(t) PROVE Kept
  <2>1. vik[t].snap \in Snapshot
    BY DEF DeliveryInv, Task
  <2>2. \A kind \in Kinds, snap \in Snapshot : Payloads(kind, t, snap) \in Payload
    BY DEF Payloads, Payload
  <2>3. \E kind \in Kinds, snap \in Snapshot : Announce(Payloads(kind, t, snap))
    <3>1. CASE ChangeTask(t)
      BY <3>1 DEF ChangeTask, Kinds
    <3>2. CASE CommentOnTask(t)
      BY <3>2, BlankTyped DEF CommentOnTask, Kinds
    <3>3. CASE DeleteTask(t)
      BY <3>3, <2>1 DEF DeleteTask, Kinds
    <3> QED
      BY <1>2, <3>1, <3>2, <3>3
  <2> QED
    BY <1>1, <2>2, <2>3
<1>3. ASSUME NEW m \in DOMAIN chat, RemoveCard(m) \/ FixCard(m) PROVE Kept
  <2>1. DOMAIN chat' = DOMAIN chat
    BY <1>3 DEF RemoveCard, FixCard
  <2>2. ASSUME NEW k \in DOMAIN chat
        PROVE  /\ chat'[k].task = chat[k].task /\ chat'[k].face = chat[k].face
               /\ Editable(k)' => Editable(k)
    <3>1. chat[k] \in Card
      BY ElementOfSeq, ChatLength DEF DeliveryInv, CardPart
    <3>2. \/ chat'[k] = chat[k]
          \/ k = m /\ chat'[k] \in {[chat[m] EXCEPT !.shown = FALSE], [chat[m] EXCEPT !.fixed = TRUE]}
      BY <1>3 DEF RemoveCard, FixCard, DeliveryInv, CardPart
    <3> QED
      BY <3>1, <3>2 DEF Card, Editable
  <2> QED
    BY <1>3, <2>1, <2>2, WorldKeeps DEF RemoveCard, FixCard, QueueVars
<1>4. ASSUME SwitchHook PROVE Kept
  <2>1. hook'.mode = hook.mode
    BY <1>4 DEF SwitchHook, DeliveryInv, Hook
  <2> QED
    BY <1>4, <2>1, WorldKeeps DEF SwitchHook, QueueVars, deliveryVars, Editable
<1> QED
  BY <1>2, <1>3, <1>4

-----------------------------------------------------------------------------
(* The one worker. *)

LEMMA ReadKeeps ==
  ASSUME OneWorker, DeliveryInv, CardInv, NEW w \in Workers,
         \/ Start(w) \/ ReadHook(w) \/ IgnoreInactive(w) \/ IgnoreExpired(w)
         \/ ReadTask(w) \/ ReadTaskFails(w)
         \/ (\E v \in Views : AskView(w, v)) \/ JudgeViews(w) \/ ViewsFail(w) \/ Close(w)
  PROVE  Kept
<1>0. pc \in [Workers -> Places]
  BY DEF DeliveryInv, WorkerPart
<1>1. UNCHANGED <<row, chat>> /\ pc[w] # "save" /\ pc'[w] \in Aside
  BY <1>0 DEF Start, ReadHook, FirstRead, IgnoreInactive, IgnoreExpired, ReadTask, ReadTaskFails,
     AskView, JudgeViews, ViewsFail, Interrupt, Close, Go, At, Aside
<1> QED
  BY <1>1, AsideStep

(* One worker moves, and the others are none. *)
LEMMA OnlyOne ==
  ASSUME OneWorker, NEW w \in Workers, MapsOwn', DeletedCardSaysSo', Knows(w)', Moves,
         Abandoned' \subseteq Abandoned
  PROVE  Kept
BY DEF OneWorker, Kept, CardInv

LEMMA ReadRowKeeps ==
  ASSUME OneWorker, DeliveryInv, CardInv, NEW w \in Workers, ReadRow(w)
  PROVE  Kept
<1> DEFINE t == Mine(w).task
           found == row[t]
<1>1. /\ pc[w] = "row" /\ UNCHANGED <<QueueVars, vik, event, hook, row, chat>>
      /\ Go(w, IF Stops(w, found) THEN "close" ELSE IF HasCard(found) THEN "edit" ELSE "send")
      /\ job' = [job EXCEPT ![w] = [task |-> job[w].task, answers |-> job[w].answers,
                                    found |-> found, target |-> found.msg]]
  BY DEF ReadRow, At, DeliveryInv, WorkerPart
<1>2. job \in [Workers -> Job] /\ pc \in [Workers -> Places] /\ found \in Mapping
  BY <1>1, MineTyped DEF DeliveryInv, WorkerPart, CardPart
<1>3. /\ job'[w].found = found /\ job'[w].target = found.msg
      /\ job'[w].answers = job[w].answers
  BY <1>1, <1>2
<1>4. Mine(w)' = Mine(w) /\ Path(w)' = Path(w)
  BY <1>1, <1>3, SameDelivery DEF QueueVars
<1>5. CASE Stops(w, found)
  <2>1. pc'[w] \in Aside
    BY <1>1, <1>2, <1>5 DEF Go, Aside
  <2> QED
    BY <1>1, <2>1, AsideStep
<1>6. CASE ~Stops(w, found)
  <2>1. pc'[w] = IF HasCard(found) THEN "edit" ELSE "send"
    BY <1>1, <1>2, <1>6 DEF Go
  <2>2. /\ ~found.deleted
        /\ found.msg = NoMsg => Path(w) = "live"
    BY <1>6 DEF Stops
  <2>3. Knows(w)'
    BY <1>1, <1>3, <1>4, <2>1, <2>2 DEF Knows, Changing, Revoking, At, HasCard, Replaces
  <2>4. MapsOwn' /\ DeletedCardSaysSo' /\ Moves
    BY <1>1 DEF CardInv, MapsOwn, DeletedCardSaysSo, Moves, Editable
  <2>5. Abandoned' \subseteq Abandoned
    BY <1>1 DEF Abandoned, Strays, OneWorker, At, Editable
  <2> QED
    BY <2>3, <2>4, <2>5, OnlyOne
<1> QED
  BY <1>5, <1>6

LEMMA EditKeeps ==
  ASSUME OneWorker, DeliveryInv, CardInv, NEW w \in Workers, EditCard(w)
  PROVE  Kept
<1> DEFINE t == Mine(w).task
           m == job[w].target
<1>1. /\ pc[w] = "edit" /\ UNCHANGED <<QueueVars, event, hook, row, job>>
      /\ IF Editable(m) THEN chat' = [chat EXCEPT ![m] = Edited(w, chat[m])]
                        ELSE UNCHANGED chat
      /\ Go(w, IF Path(w) = "live"
               THEN IF Editable(m) THEN "save" ELSE "send"
               ELSE IF job[w].found.snap.done THEN "react" ELSE "mark")
  BY DEF EditCard, At
<1>2. /\ job[w].found = row[t] /\ ~row[t].deleted /\ m = row[t].msg /\ m # NoMsg
      /\ t \in Tasks
  BY <1>1, MineTyped DEF CardInv, Knows, Changing, At
<1>3. m \in DOMAIN chat /\ chat[m].task = t
  BY <1>2, MessageIds DEF CardInv, MapsOwn
<1>4. Mine(w)' = Mine(w) /\ Path(w)' = Path(w)
  BY <1>1, SameDelivery DEF QueueVars
<1>5. /\ DOMAIN chat' = DOMAIN chat
      /\ \A k \in DOMAIN chat \ {m} : chat'[k] = chat[k]
      /\ chat'[m].task = t /\ Editable(m)' = Editable(m)
      /\ Editable(m) => chat'[m].face = Path(w)
  <2>1. CASE Editable(m)
    <3>1. chat' = [chat EXCEPT ![m] = Edited(w, chat[m])]
      BY <1>1, <2>1
    <3>2. chat'[m] = Edited(w, chat[m]) /\ DOMAIN chat' = DOMAIN chat
          /\ \A k \in DOMAIN chat \ {m} : chat'[k] = chat[k]
      BY <1>3, <3>1
    <3> QED
      BY <1>1, <1>3, <3>2 DEF Edited, Editable
  <2>2. CASE ~Editable(m)
    BY <1>1, <1>3, <2>2 DEF Editable
  <2> QED
    BY <2>1, <2>2
<1>6. MapsOwn' /\ Moves
  BY <1>1, <1>2, <1>5, MessageIds DEF CardInv, MapsOwn, Moves
<1>7. DeletedCardSaysSo'
  <2> SUFFICES ASSUME NEW u \in Tasks, row[u].deleted, row[u].msg # NoMsg,
                      Editable(row[u].msg)'
               PROVE  chat'[row[u].msg].face = "deleted"
    BY <1>1 DEF DeletedCardSaysSo
  <2>1. chat[row[u].msg].task = u
    BY DEF CardInv, MapsOwn
  <2>2. row[u].msg # m
    BY <1>2, <1>3, <2>1
  <2>3. row[u].msg \in DOMAIN chat
    BY MessageIds
  <2>4. chat'[row[u].msg] = chat[row[u].msg]
    BY <1>5, <2>2, <2>3
  <2> QED
    BY <1>1, <2>4 DEF CardInv, DeletedCardSaysSo, Editable
<1>8. Knows(w)'
  <2>1. pc \in [Workers -> Places]
    BY DEF DeliveryInv, WorkerPart
  <2>2. pc'[w] = IF Path(w) = "live"
                 THEN IF Editable(m) THEN "save" ELSE "send"
                 ELSE IF job[w].found.snap.done THEN "react" ELSE "mark"
    BY <1>1, <2>1 DEF Go
  <2>3. /\ job' = job /\ row' = row
    BY <1>1
  <2> QED
    BY <1>2, <1>4, <1>5, <2>2, <2>3 DEF Knows, Changing, Revoking, At, Replaces
<1>9. Abandoned' \subseteq Abandoned
  <2> SUFFICES ASSUME NEW k \in Abandoned' PROVE k \in Abandoned
    OBVIOUS
  <2>1. /\ k \in DOMAIN chat /\ Editable(k)' /\ chat'[k].face = "live"
        /\ row[chat'[k].task].msg # k
    BY <1>1, <1>5 DEF Abandoned, Strays, Editable
  <2>2. k # m
    BY <2>1, <1>2, <1>5
  <2>3. k \in Strays
    BY <1>5, <2>1, <2>2 DEF Strays, Editable
  <2> QED
    BY <1>1, <2>3 DEF Abandoned, OneWorker, At
<1> QED
  BY <1>6, <1>7, <1>8, <1>9, OnlyOne

LEMMA SendKeeps ==
  ASSUME OneWorker, DeliveryInv, CardInv, NEW w \in Workers, SendCard(w)
  PROVE  Kept
<1> DEFINE t == Mine(w).task
           n == Len(chat) + 1
           card == [task |-> t, face |-> "live", snap |-> job[w].task,
                    tick |-> FALSE, shown |-> TRUE, fixed |-> FALSE]
<1>1. /\ pc[w] = "send" /\ UNCHANGED <<QueueVars, event, hook, row>>
      /\ chat' = Append(chat, card)
      /\ job' = [job EXCEPT ![w].target = n]
      /\ Go(w, "save")
  BY DEF SendCard, At
<1>2. job \in [Workers -> Job] /\ pc \in [Workers -> Places]
  BY DEF DeliveryInv, WorkerPart
<1>3. /\ pc'[w] = "save" /\ job'[w].target = n
      /\ job'[w].found = job[w].found /\ job'[w].answers = job[w].answers
  BY <1>1, <1>2 DEF Go, Job
<1>4. /\ job[w].found = row[t] /\ ~row[t].deleted /\ Path(w) = "live"
      /\ row[t].msg = NoMsg \/ ~Editable(row[t].msg)
      /\ t \in Tasks
  BY <1>1, MineTyped DEF CardInv, Knows, Changing, At, Replaces
<1>5. Mine(w)' = Mine(w) /\ Path(w)' = Path(w)
  BY <1>1, <1>3, SameDelivery DEF QueueVars
<1>6. /\ Len(chat) \in Nat /\ DOMAIN chat = 1 .. Len(chat) /\ DOMAIN chat' = 1 .. n
      /\ \A k \in DOMAIN chat : chat'[k] = chat[k]
      /\ chat'[n] = card
  <2>1. card \in Card
    BY <1>1, <1>4, JobTyped DEF Card, Faces
  <2>2. chat \in Seq(Card) /\ Len(chat) \in Nat /\ DOMAIN chat = 1 .. Len(chat)
    BY ChatLength DEF DeliveryInv, CardPart
  <2>3. chat' \in Seq(Card) /\ Len(chat') = n
    <3> HIDE DEF card
    <3> QED
      BY <1>1, <2>1, <2>2, AppendProperties
  <2>4. \A k \in 1 .. Len(chat) : chat'[k] = chat[k]
    <3> HIDE DEF card
    <3> QED
      BY <1>1, <2>1, <2>2, AppendProperties
  <2>5. chat'[n] = card
    <3> HIDE DEF card
    <3> QED
      BY <1>1, <2>1, <2>2, AppendProperties
  <2> QED
    BY <2>2, <2>3, <2>4, <2>5, LenProperties
<1>7. MapsOwn' /\ DeletedCardSaysSo' /\ Moves
  BY <1>1, <1>6, MessageIds DEF CardInv, MapsOwn, DeletedCardSaysSo, Moves, Editable
<1>8. Knows(w)'
  <2>1. row[t].msg # NoMsg => chat'[row[t].msg] = chat[row[t].msg]
    BY <1>4, <1>6, MessageIds
  <2>2. chat'[n].task = t /\ n # NoMsg
    BY <1>6 DEF NoMsg
  <2> HIDE DEF n
  <2> QED
    BY <1>1, <1>3, <1>4, <1>5, <2>1, <2>2 DEF Knows, Changing, Revoking, At, Replaces, Editable
<1>9. Abandoned' \subseteq Abandoned
  <2> SUFFICES ASSUME NEW k \in Abandoned' PROVE k \in Abandoned
    OBVIOUS
  <2>1. k \in 1 .. n /\ k # n
    BY <1>3, <1>6 DEF Abandoned, Strays, At, Editable
  <2>2. k \in DOMAIN chat
    BY <2>1, <1>6
  <2>3. k \in Strays
    BY <1>1, <1>6, <2>2 DEF Abandoned, Strays, Editable
  <2> QED
    BY <1>1, <2>3 DEF Abandoned, OneWorker, At
<1> QED
  BY <1>7, <1>8, <1>9, OnlyOne

LEMMA SaveKeeps ==
  ASSUME OneWorker, DeliveryInv, CardInv, NEW w \in Workers, SaveRow(w)
  PROVE  Kept
<1> DEFINE t == Mine(w).task
           m == job[w].target
<1>1. /\ pc[w] = "save" /\ UNCHANGED <<QueueVars, event, hook, chat, job>>
      /\ row' = [row EXCEPT ![t] = Saved(w, row[t])]
      /\ Go(w, IF MustReact(w) THEN "react" ELSE "close")
  BY DEF SaveRow, At
<1>2. /\ job[w].found = row[t] /\ ~row[t].deleted /\ Path(w) = "live"
      /\ m # NoMsg /\ chat[m].task = t
      /\ m = row[t].msg \/ row[t].msg = NoMsg \/ ~Editable(row[t].msg)
      /\ t \in Tasks
  BY <1>1, MineTyped DEF CardInv, Knows, Changing, At, Replaces
<1>3. Mine(w)' = Mine(w) /\ Path(w)' = Path(w)
  BY <1>1, SameDelivery DEF QueueVars
<1>4. /\ row'[t].msg = m /\ ~row'[t].deleted
      /\ \A u \in Tasks \ {t} : row'[u] = row[u]
  <2>1. row'[t] = Live(m, job[w].task) /\ \A u \in Tasks \ {t} : row'[u] = row[u]
    BY <1>1, <1>2 DEF Saved, DeliveryInv, CardPart
  <2> QED
    BY <2>1 DEF Live
<1>5. MapsOwn' /\ DeletedCardSaysSo' /\ Moves
  BY <1>1, <1>2, <1>4 DEF CardInv, MapsOwn, DeletedCardSaysSo, Moves, Editable
<1>6. Knows(w)'
  <2>1. pc'[w] \in {"react", "close"}
    BY <1>1 DEF Go, DeliveryInv, WorkerPart
  <2> QED
    BY <1>2, <1>3, <2>1 DEF Knows, Changing, Revoking, At
<1>7. Abandoned' \subseteq Abandoned
  <2> SUFFICES ASSUME NEW k \in Abandoned' PROVE k \in Abandoned
    OBVIOUS
  <2>1. /\ k \in DOMAIN chat /\ Editable(k) /\ chat[k].face = "live"
        /\ row'[chat[k].task].msg # k
    BY <1>1 DEF Abandoned, Strays, Editable
  <2>2. chat[k].task \in Tasks
    <3>1. chat[k] \in Card
      BY <2>1, ChatLength, ElementOfSeq DEF DeliveryInv, CardPart
    <3> QED
      BY <3>1 DEF Card
  <2>3. k # m
    BY <1>2, <1>4, <2>1
  <2>4. row[chat[k].task].msg # k
    <3>1. CASE chat[k].task = t
      <4>1. ASSUME row[t].msg = k PROVE FALSE
        BY <1>2, <2>1, <2>3, <4>1, ChatLength DEF NoMsg
      <4> QED
        BY <3>1, <4>1
    <3>2. CASE chat[k].task # t
      BY <1>4, <2>1, <2>2, <3>2
    <3> QED
      BY <3>1, <3>2
  <2>5. k \in Strays
    BY <2>1, <2>4 DEF Strays, Editable
  <2> QED
    BY <2>3, <2>5 DEF Abandoned, OneWorker
<1> QED
  BY <1>5, <1>6, <1>7, OnlyOne

LEMMA ReactKeeps ==
  ASSUME OneWorker, DeliveryInv, CardInv, NEW w \in Workers, React(w) \/ ReactFails(w)
  PROVE  Kept
<1>1. /\ pc[w] = "react" /\ UNCHANGED <<QueueVars, event, hook, row, job>>
      /\ Go(w, IF Path(w) = "live" THEN "close" ELSE "mark")
  BY DEF React, ReactFails, At
<1>2. pc'[w] = IF Path(w) = "live" THEN "close" ELSE "mark"
  BY <1>1 DEF Go, DeliveryInv, WorkerPart
<1>3. Mine(w)' = Mine(w) /\ Path(w)' = Path(w) /\ Mine(w).task \in Tasks
  BY <1>1, SameDelivery, MineTyped DEF QueueVars
<1>4. /\ DOMAIN chat' = DOMAIN chat
      /\ \A k \in DOMAIN chat : /\ chat'[k].task = chat[k].task
                                /\ chat'[k].face = chat[k].face
                                /\ Editable(k)' = Editable(k)
  <2>1. CASE UNCHANGED chat
    BY <2>1 DEF Editable
  <2>2. ASSUME NEW tick, chat' = [chat EXCEPT ![job[w].target].tick = tick]
        PROVE  /\ DOMAIN chat' = DOMAIN chat
               /\ \A k \in DOMAIN chat : /\ chat'[k].task = chat[k].task
                                         /\ chat'[k].face = chat[k].face
                                         /\ Editable(k)' = Editable(k)
    <3>1. \A k \in DOMAIN chat : chat[k] \in Card
      BY ChatLength, ElementOfSeq DEF DeliveryInv, CardPart
    <3> QED
      BY <2>2, <3>1 DEF Card, DeliveryInv, CardPart, Editable
  <2> QED
    BY <2>1, <2>2 DEF React, ReactFails
<1>5. MapsOwn' /\ DeletedCardSaysSo' /\ Moves
  BY <1>1, <1>4, MessageIds DEF CardInv, MapsOwn, DeletedCardSaysSo, Moves, Editable
<1>6. Knows(w)'
  <2>1. CASE Path(w) = "live"
    BY <1>2, <2>1, NothingToKnow DEF Aside
  <2>2. CASE Path(w) # "live"
    <3>1. Revoking(w) /\ Changing(w) /\ Knows(w)
      BY <1>1, <2>2 DEF Revoking, Changing, At, CardInv
    <3>2. job[w].target \in DOMAIN chat
      BY <3>1, MessageIds DEF Knows
    <3>3. chat'[job[w].target].face = chat[job[w].target].face
          /\ Editable(job[w].target)' = Editable(job[w].target)
      BY <1>1, <1>4, <3>2
    <3>4. pc'[w] = "mark"
      BY <1>2, <2>2
    <3> QED
      BY <1>1, <1>3, <3>1, <3>3, <3>4, <2>2 DEF Knows, Changing, Revoking, At
  <2> QED
    BY <2>1, <2>2
<1>7. Abandoned' \subseteq Abandoned
  BY <1>1, <1>2, <1>4 DEF Abandoned, Strays, OneWorker, At, Editable
<1> QED
  BY <1>5, <1>6, <1>7, OnlyOne

LEMMA MarkKeeps ==
  ASSUME OneWorker, DeliveryInv, CardInv, NEW w \in Workers, MarkRow(w)
  PROVE  Kept
<1> DEFINE t == Mine(w).task
           m == job[w].target
<1>1. /\ pc[w] = "mark" /\ UNCHANGED <<QueueVars, event, hook, chat, job>>
      /\ row' = [row EXCEPT ![t] = Marked(w, row[t])]
      /\ Go(w, "close")
  BY DEF MarkRow, At
<1>2. /\ ~row[t].deleted /\ m = row[t].msg /\ t \in Tasks /\ Path(w) # "live"
      /\ Editable(m) => chat[m].face = Path(w)
  BY <1>1, MineTyped DEF CardInv, Knows, Changing, Revoking, At
<1>3. row[t] \in Mapping /\ row \in [Tasks -> Mapping]
  BY <1>2 DEF DeliveryInv, CardPart
<1>4. /\ row'[t].msg = m
      /\ row'[t].deleted => Path(w) = "deleted"
      /\ \A u \in Tasks \ {t} : row'[u] = row[u]
  <2>1. row'[t] = Marked(w, row[t]) /\ \A u \in Tasks \ {t} : row'[u] = row[u]
    BY <1>1, <1>2, <1>3
  <2>2. /\ Marked(w, row[t]).msg = m
        /\ Marked(w, row[t]).deleted => Path(w) = "deleted"
    BY <1>2, <1>3 DEF Marked, Mapping
  <2> QED
    BY <2>1, <2>2
<1>5. MapsOwn' /\ DeletedCardSaysSo' /\ Moves
  BY <1>1, <1>2, <1>4 DEF CardInv, MapsOwn, DeletedCardSaysSo, Moves, Editable
<1>6. Knows(w)'
  <2>1. pc'[w] \in Aside
    BY <1>1 DEF Go, Aside, DeliveryInv, WorkerPart
  <2> QED
    BY <2>1, NothingToKnow
<1>7. Abandoned' \subseteq Abandoned
  <2>1. \A k \in DOMAIN chat : chat[k].task \in Tasks
    <3>1. \A k \in DOMAIN chat : chat[k] \in Card
      BY ChatLength, ElementOfSeq DEF DeliveryInv, CardPart
    <3> QED
      BY <3>1 DEF Card
  <2>2. \A u \in Tasks : row'[u].msg = row[u].msg
    BY <1>2, <1>4
  <2> QED
    BY <1>1, <2>1, <2>2 DEF Abandoned, Strays, OneWorker, At, Editable
<1> QED
  BY <1>5, <1>6, <1>7, OnlyOne

(* An interrupted delivery loses track of at most the card it was about to *)
(* map.                                                                    *)
LEMMA FailsKeeps ==
  ASSUME OneWorker, DeliveryInv, CardInv, NEW w \in Workers, CutOff(w)
  PROVE  /\ CardInv' /\ Moves /\ faults' = faults - 1
         /\ Abandoned' \subseteq Abandoned \cup {job[w].target}
<1>1. UNCHANGED <<row, chat>> /\ pc'[w] = "idle" /\ faults' = faults - 1
  BY DEF CutOff, Interrupt, Go, Fault, DeliveryInv, WorkerPart
<1>2. \A u \in Workers : Knows(u)'
  BY <1>1, NothingToKnow DEF OneWorker, Aside
<1>3. MapsOwn' /\ DeletedCardSaysSo' /\ Moves
  BY <1>1 DEF CardInv, MapsOwn, DeletedCardSaysSo, Moves, Editable
<1>4. Abandoned' \subseteq Abandoned \cup {job[w].target}
  BY <1>1 DEF Abandoned, Strays, OneWorker, Editable
<1> QED
  BY <1>1, <1>2, <1>3, <1>4 DEF CardInv

LEMMA StepKeeps ==
  ASSUME OneWorker, DeliveryInv, CardInv, [Next]_vars
  PROVE  /\ CardInv' /\ Moves
         /\ Kept \/ \E w \in Workers : CutOff(w)
<1>1. ASSUME UNCHANGED vars PROVE Kept
  BY <1>1, WorldKeeps DEF vars, deliveryVars, Editable
<1>2. ASSUME NEW w \in Workers, Step(w) \/ IgnoreExpired(w) PROVE Kept
  BY <1>2, ReadKeeps, ReadRowKeeps, EditKeeps, SendKeeps, SaveKeeps, ReactKeeps, MarkKeeps
  DEF Step
<1>3. ASSUME NEW w \in Workers, CutOff(w) PROVE CardInv' /\ Moves
  BY <1>3, FailsKeeps
<1>4. ASSUME NEW w \in Workers, Parks(w) PROVE Kept
  BY <1>4, WorldKeeps DEF Parks, Stop, Restart, Interrupt, At, QueueVars, Editable
<1> QED
  BY <1>1, <1>2, <1>3, <1>4, StopsOrNot, WorldCardStep DEF Next, Kept

-----------------------------------------------------------------------------
(* The theorems. *)

LEMMA CardInit == Init => CardInv
BY DEF Init, CardInv, MapsOwn, DeletedCardSaysSo, Knows, Changing, Revoking, At, NoMapping

LEMMA CardInvariant == ASSUME OneWorker PROVE Spec => []CardInv
<1>1. DeliveryInv /\ CardInv /\ [Next]_vars => CardInv'
  BY StepKeeps
<1> QED
  BY <1>1, CardInit, DeliveryInvariant, PTL DEF Spec

(* With one worker the card of a deleted mapping, as long as it can be     *)
(* edited, says that its task is deleted (event_worker.py:300-317).        *)
THEOREM DeletedCardsSaySo == ASSUME OneWorker PROVE Spec => []DeletedCardSaysSo
<1>1. CardInv => DeletedCardSaysSo
  BY DEF CardInv
<1> QED
  BY <1>1, CardInvariant, PTL

(* With one worker a mapping moves to another card only when its own was   *)
(* removed in Telegram or can no longer be edited (event_worker.py:        *)
(* 226-257, 388-404).                                                      *)
THEOREM TasksKeepTheirCards == ASSUME OneWorker PROVE Spec => TaskKeepsItsCard
<1>1. DeliveryInv /\ CardInv /\ [Next]_vars
      => [\A t \in Tasks : row[t].msg # NoMsg /\ row'[t].msg # row[t].msg
                             => ~Editable(row[t].msg)]_vars
  BY StepKeeps DEF Moves
<1> QED
  BY <1>1, CardInvariant, DeliveryInvariant, PTL DEF Spec, TaskKeepsItsCard

LEMMA StraysFinite ==
  ASSUME DeliveryInv
  PROVE  /\ IsFiniteSet(Strays) /\ IsFiniteSet(Abandoned)
         /\ Cardinality(Strays) \in Nat /\ Cardinality(Abandoned) \in Nat
<1>1. IsFiniteSet(DOMAIN chat)
  BY ChatLength, FS_Interval
<1>2. Strays \subseteq DOMAIN chat /\ Abandoned \subseteq Strays
  BY DEF Strays, Abandoned, Editable
<1> QED
  BY <1>1, <1>2, FS_Subset, FS_CardinalityType

LEMMA FaultsOnlyFall ==
  ASSUME DeliveryInv, [Next]_vars
  PROVE  faults \in Nat /\ faults' \in Nat /\ faults' <= faults /\ MaxFaults \in Nat
<1>1. faults \in 0 .. MaxFaults /\ faults' \in 0 .. MaxFaults /\ MaxFaults \in Nat
  BY DeliveryStep, DeliveryConstants DEF DeliveryInv, BudgetPart
<1>2. faults' = faults \/ faults' = faults - 1
  BY ZenonT(40)
  DEF Next, vars, budgetVars, Step, Start, ReadHook, IgnoreInactive, IgnoreExpired, ReadTask,
     ReadTaskFails, AskView, JudgeViews, ViewsFail, ReadRow, EditCard, SendCard, SaveRow, React,
     ReactFails, MarkRow, Close, Fails, Stop, Restart, Interrupt, Fault, ChangeTask, CommentOnTask, DeleteTask,
     Announce, RemoveCard, FixCard, SwitchHook
<1> QED
  BY <1>1, <1>2

LEMMA FewAbandonedKept ==
  ASSUME OneWorker, DeliveryInv, CardInv, FewAbandoned, [Next]_vars
  PROVE  FewAbandoned'
<1>1. /\ IsFiniteSet(Abandoned) /\ Cardinality(Abandoned) \in Nat
      /\ Cardinality(Abandoned) <= MaxFaults - faults
  BY StraysFinite DEF FewAbandoned
<1>2. faults \in Nat /\ faults' \in Nat /\ faults' <= faults /\ MaxFaults \in Nat
  BY FaultsOnlyFall
<1>3. CASE Kept
  <2>1. Abandoned' \in SUBSET Abandoned
    BY <1>3 DEF Kept
  <2>2. Cardinality(Abandoned') <= Cardinality(Abandoned) /\ IsFiniteSet(Abandoned')
    BY <1>1, <2>1, FS_Subset
  <2>3. Cardinality(Abandoned') \in Nat
    BY <2>2, FS_CardinalityType
  <2> QED
    BY <1>1, <1>2, <2>2, <2>3 DEF FewAbandoned
<1>4. ASSUME NEW w \in Workers, CutOff(w) PROVE FewAbandoned'
  <2> DEFINE more == Abandoned \cup {job[w].target}
  <2>1. Abandoned' \in SUBSET more /\ faults' = faults - 1
    BY <1>4, FailsKeeps
  <2>2. /\ IsFiniteSet(more) /\ Cardinality(more) \in Nat
        /\ Cardinality(more) <= Cardinality(Abandoned) + 1
    <3>1. /\ IsFiniteSet(more)
          /\ Cardinality(more) = IF job[w].target \in Abandoned
                                 THEN Cardinality(Abandoned) ELSE Cardinality(Abandoned) + 1
      BY <1>1, FS_AddElement
    <3> QED
      BY <1>1, <3>1
  <2>3. Cardinality(Abandoned') <= Cardinality(more) /\ IsFiniteSet(Abandoned')
    <3> HIDE DEF more
    <3> QED
      BY <2>1, <2>2, FS_Subset
  <2>4. Cardinality(Abandoned') \in Nat
    BY <2>3, FS_CardinalityType
  <2> HIDE DEF more
  <2> QED
    BY <1>1, <1>2, <2>1, <2>2, <2>3, <2>4 DEF FewAbandoned
<1> QED
  BY <1>3, <1>4, StepKeeps

LEMMA FewAbandonedInit == Init => FewAbandoned
<1> SUFFICES ASSUME Init PROVE FewAbandoned
  OBVIOUS
<1>1. Abandoned = {}
  BY EmptySeq DEF Init, Abandoned, Strays, Editable
<1> QED
  BY <1>1, FS_EmptySet, DeliveryConstants DEF Init, FewAbandoned

(* Of the strays only the card about to be mapped is not abandoned.        *)
LEMMA FewStrays ==
  ASSUME OneWorker, DeliveryInv, FewAbandoned
  PROVE  OneStrayPerFault
<1> DEFINE Saving == {w \in Workers : At(w, "save")}
<1>1. /\ IsFiniteSet(Abandoned) /\ Cardinality(Abandoned) \in Nat
      /\ Cardinality(Strays) \in Nat /\ Cardinality(Abandoned) <= MaxFaults - faults
  BY StraysFinite DEF FewAbandoned
<1>2. faults \in Nat /\ MaxFaults \in Nat
  BY DeliveryConstants DEF DeliveryInv, BudgetPart
<1>3. ASSUME NEW w \in Workers, At(w, "save") PROVE OneStrayPerFault
  <2>1. Saving = {w}
    BY <1>3 DEF OneWorker
  <2>2. Cardinality(Saving) = 1
    BY <2>1, FS_Singleton
  <2> DEFINE more == Abandoned \cup {job[w].target}
  <2>3. Strays \in SUBSET more
    BY DEF OneWorker, Abandoned
  <2>4. /\ IsFiniteSet(more) /\ Cardinality(more) \in Nat
        /\ Cardinality(more) <= Cardinality(Abandoned) + 1
    <3>1. /\ IsFiniteSet(more)
          /\ Cardinality(more) = IF job[w].target \in Abandoned
                                 THEN Cardinality(Abandoned) ELSE Cardinality(Abandoned) + 1
      BY <1>1, FS_AddElement
    <3> QED
      BY <1>1, <3>1
  <2>5. Cardinality(Strays) <= Cardinality(more)
    <3> HIDE DEF more
    <3> QED
      BY <2>3, <2>4, FS_Subset
  <2> HIDE DEF more, Saving
  <2>6. Cardinality(Strays) <= (MaxFaults - faults) + Cardinality(Saving)
    BY <1>1, <1>2, <2>2, <2>4, <2>5
  <2> QED
    BY <2>6 DEF OneStrayPerFault, Saving
<1>4. CASE \A w \in Workers : ~At(w, "save")
  <2>1. Saving = {} /\ Strays = Abandoned
    BY <1>4 DEF Abandoned
  <2>2. Cardinality(Saving) = 0
    BY <2>1, FS_EmptySet
  <2> HIDE DEF Saving
  <2>3. Cardinality(Strays) <= (MaxFaults - faults) + Cardinality(Saving)
    BY <1>1, <1>2, <2>1, <2>2
  <2> QED
    BY <2>3 DEF OneStrayPerFault, Saving
<1> QED
  BY <1>3, <1>4

(* With one worker each interrupted delivery leaves at most one live card  *)
(* that could be edited and that no reply can reach, and an uninterrupted  *)
(* one leaves none (event_worker.py:240-257, README.md:352-355).           *)
THEOREM FaultsCostOneCard == ASSUME OneWorker PROVE Spec => []OneStrayPerFault
<1>1. DeliveryInv /\ CardInv /\ FewAbandoned /\ [Next]_vars => FewAbandoned'
  BY FewAbandonedKept
<1>2. DeliveryInv /\ FewAbandoned => OneStrayPerFault
  BY FewStrays
<1> QED
  BY <1>1, <1>2, FewAbandonedInit, CardInvariant, DeliveryInvariant, PTL DEF Spec

-----------------------------------------------------------------------------
(* Cards that are filtered out. *)

(* An uninterrupted worker is still at work on a card that looks live or   *)
(* deleted although its mapping is filtered out.                           *)
Unfinished(t) == \E w \in Workers : Changing(w) /\ Mine(w).task = t

SaysFiltered(t) ==
  /\ row[t].filtered => row[t].msg # NoMsg
  /\ faults = MaxFaults /\ row[t].filtered /\ ~row[t].deleted /\ Editable(row[t].msg)
       => chat[row[t].msg].face = "filtered" \/ Unfinished(t)

(* The one worker that is not idle holds its event. *)
HoldsIt == \A w \in Workers : held[w] # NoEvent => status[held[w]] = "held"

FilteredInv == HoldsIt /\ \A t \in Tasks : SaysFiltered(t)

LEMMA HoldsItKept ==
  ASSUME OneWorker, DeliveryInv, HoldsIt, [Next]_vars
  PROVE  HoldsIt'
<1> USE DEF HoldsIt
<1>1. /\ status \in [Ids -> Statuses] /\ held \in [Workers -> Ids \cup {NoEvent}]
      /\ NoEvent \notin Ids
  BY DEF DeliveryInv, QueuePart, QueueTypeOK, Ids, NoEvent
<1>2. CASE UNCHANGED QueueVars
  BY <1>2 DEF QueueVars
<1>3. ASSUME NEW i \in Ids, Accept(i) PROVE HoldsIt'
  BY <1>1, <1>3 DEF Accept
<1>4. ASSUME NEW w \in Workers, NEW i \in Ids, Take(w, i) PROVE HoldsIt'
  BY <1>1, <1>4 DEF Take, OneWorker
<1>5. ASSUME NEW w \in Workers, NEW outcome, Release(w, outcome) PROVE HoldsIt'
  BY <1>1, <1>5 DEF Release, OneWorker
<1>6. ASSUME NEW payload, Announce(payload) PROVE HoldsIt'
  <2>1. Len(event) + 1 \in Ids
    BY <1>6, LenProperties, QueueAssumption DEF Announce, Ids, DeliveryInv, QueuePart
  <2> QED
    BY <1>3, <1>6, <2>1 DEF Announce
<1>7. ASSUME NEW w \in Workers, Step(w) \/ IgnoreExpired(w) \/ CutOff(w) PROVE HoldsIt'
  <2>1. CASE Start(w)
    BY <1>4, <2>1 DEF Start
  <2>2. CASE ViewsFail(w) \/ Close(w) \/ CutOff(w)
    BY <1>5, <2>2 DEF ViewsFail, Close, CutOff, Interrupt, Finish, GiveBack
  <2> QED
    BY <1>2, <1>7, <2>1, <2>2
    DEF Step, ReadHook, IgnoreInactive, IgnoreExpired, ReadTask, ReadTaskFails, AskView,
        JudgeViews, ReadRow, EditCard, SendCard, SaveRow, React, ReactFails, MarkRow
<1>8. ASSUME NEW w \in Workers, Parks(w) PROVE HoldsIt'
  BY <1>2, <1>8 DEF Parks, Stop, Restart, Interrupt, At
<1> QED
  BY <1>2, <1>6, <1>7, <1>8, StopsOrNot
  DEF Next, vars, QueueVars, ChangeTask, CommentOnTask, DeleteTask, RemoveCard, FixCard, SwitchHook

(* No card that a mapping leads to turns up again or looks different.      *)
FacesKept ==
  \A t \in Tasks : row[t].msg # NoMsg =>
    /\ chat'[row[t].msg].face = chat[row[t].msg].face
    /\ Editable(row[t].msg)' => Editable(row[t].msg)

(* A worker that was changing nothing leaves the cards as they are. *)
LEMMA FilteredCalm ==
  ASSUME OneWorker, FilteredInv, NEW w \in Workers, ~Changing(w), FacesKept,
         UNCHANGED row, faults' = faults \/ faults' # MaxFaults
  PROVE  \A t \in Tasks : SaysFiltered(t)'
<1>1. \A t \in Tasks : ~Unfinished(t)
  BY DEF OneWorker, Unfinished
<1> QED
  BY <1>1 DEF FilteredInv, SaysFiltered, FacesKept

(* A worker goes on changing the card of its task. *)
LEMMA FilteredChange ==
  ASSUME OneWorker, DeliveryInv, CardInv, FilteredInv, NEW w \in Workers,
         pc[w] # "idle", Changing(w)', UNCHANGED <<held, event, row>>,
         faults' = faults \/ faults' # MaxFaults,
         \A u \in Tasks \ {Mine(w).task} :
           row[u].msg # NoMsg => Editable(row[u].msg)' = Editable(row[u].msg)
                                 /\ chat'[row[u].msg].face = chat[row[u].msg].face
  PROVE  \A t \in Tasks : SaysFiltered(t)'
<1>1. Mine(w)' = Mine(w)
  BY DEF Mine
<1>2. ASSUME NEW u \in Tasks, u = Mine(w).task PROVE Unfinished(u)'
  BY <1>1, <1>2 DEF Unfinished
<1>3. \A u \in Tasks \ {Mine(w).task} : ~Unfinished(u)
  BY DEF OneWorker, Unfinished
<1>4. ASSUME NEW u \in Tasks, u = Mine(w).task PROVE SaysFiltered(u)'
  BY <1>2, <1>4 DEF FilteredInv, SaysFiltered
<1>5. ASSUME NEW u \in Tasks \ {Mine(w).task} PROVE SaysFiltered(u)'
  <2>1. SaysFiltered(u) /\ ~Unfinished(u)
    BY <1>3 DEF FilteredInv
  <2> QED
    BY <2>1 DEF SaysFiltered
<1> QED
  BY <1>4, <1>5

(* The world changes no mapping and takes no worker off its task. *)
LEMMA FilteredWorld ==
  ASSUME OneWorker, DeliveryInv, FilteredInv, FacesKept,
         UNCHANGED <<row, pc, job, held, faults>>, hook'.mode = hook.mode,
         event' = event \/ \E payload \in Payload : event' = Append(event, payload)
  PROVE  \A t \in Tasks : SaysFiltered(t)'
<1>1. ASSUME NEW w \in Workers, Changing(w) PROVE Changing(w)' /\ Mine(w)' = Mine(w)
  <2>1. pc[w] # "idle"
    BY <1>1 DEF Changing, Revoking, At
  <2>2. Mine(w)' = Mine(w) /\ Path(w)' = Path(w)
    BY <2>1, SameDelivery
  <2> QED
    BY <1>1, <2>2 DEF Changing, Revoking, At
<1>2. \A t \in Tasks : Unfinished(t) => Unfinished(t)'
  BY <1>1 DEF Unfinished
<1> QED
  BY <1>2 DEF FilteredInv, SaysFiltered, FacesKept

LEMMA FilteredSteps ==
  ASSUME OneWorker, DeliveryInv, CardInv, FilteredInv, NEW w \in Workers,
         Step(w) \/ IgnoreExpired(w) \/ CutOff(w)
  PROVE  \A t \in Tasks : SaysFiltered(t)'
<1> DEFINE t == Mine(w).task
           m == job[w].target
<1>0. /\ pc \in [Workers -> Places] /\ faults \in 0 .. MaxFaults /\ MaxFaults \in Nat
      /\ job \in [Workers -> Job] /\ row \in [Tasks -> Mapping]
  BY DeliveryConstants DEF DeliveryInv, WorkerPart, BudgetPart, CardPart
<1>1. Fault => faults' # MaxFaults
  BY <1>0 DEF Fault
<1>2. CASE \/ Start(w) \/ ReadHook(w) \/ IgnoreInactive(w) \/ IgnoreExpired(w)
           \/ ReadTask(w) \/ ReadTaskFails(w)
           \/ (\E v \in Views : AskView(w, v)) \/ JudgeViews(w) \/ ViewsFail(w)
           \/ ReadRow(w) \/ Close(w)
  <2>1. UNCHANGED <<row, chat>> /\ (faults' = faults \/ Fault) /\ ~Changing(w)
    BY <1>2 DEF Start, ReadHook, IgnoreInactive, IgnoreExpired, ReadTask, ReadTaskFails,
       AskView, JudgeViews, ViewsFail, Interrupt, ReadRow, Close, budgetVars,
       Changing, Revoking, At
  <2> QED
    BY <1>1, <2>1, FilteredCalm DEF FacesKept, Editable
<1>3. CASE EditCard(w)
  <2>1. /\ pc[w] = "edit" /\ UNCHANGED <<QueueVars, event, hook, row, job, faults>>
        /\ chat' = chat \/ chat' = [chat EXCEPT ![m] = Edited(w, chat[m])]
        /\ pc'[w] \in IF Path(w) = "live" THEN {"save", "send"} ELSE {"react", "mark"}
    BY <1>0, <1>3 DEF EditCard, At, Go, budgetVars
  <2>2. Changing(w)'
    <3>1. Path(w)' = Path(w)
      BY <2>1, SameDelivery DEF QueueVars
    <3> QED
      BY <2>1, <3>1 DEF Changing, Revoking, At
  <2>3. m = row[t].msg /\ m # NoMsg /\ t \in Tasks
    BY <2>1, MineTyped DEF CardInv, Knows, Changing, At
  <2>4. \A u \in Tasks \ {t} : row[u].msg # NoMsg => row[u].msg # m
    BY <2>3 DEF CardInv, MapsOwn
  <2>5. \A u \in Tasks \ {t} : row[u].msg # NoMsg => chat'[row[u].msg] = chat[row[u].msg]
    BY <2>1, <2>4, MessageIds
  <2> QED
    BY <2>1, <2>2, <2>5, FilteredChange DEF QueueVars, Editable
<1>4. CASE SendCard(w)
  <2>1. /\ pc[w] = "send" /\ UNCHANGED <<QueueVars, event, row, faults>> /\ pc'[w] = "save"
    BY <1>0, <1>4 DEF SendCard, At, Go, budgetVars
  <2>2. \A u \in Tasks : row[u].msg # NoMsg => chat'[row[u].msg] = chat[row[u].msg]
    <3>1. Len(chat) \in Nat /\ DOMAIN chat = 1 .. Len(chat) /\ chat \in Seq(Card)
      BY ChatLength DEF DeliveryInv, CardPart
    <3>2. ASSUME NEW card, chat' = Append(chat, card), NEW k \in DOMAIN chat
          PROVE  chat'[k] = chat[k]
      BY <3>1, <3>2
    <3> QED
      BY <1>4, <3>2, MessageIds DEF SendCard
  <2>3. Changing(w)'
    BY <2>1 DEF Changing, At
  <2> QED
    BY <2>1, <2>2, <2>3, FilteredChange DEF QueueVars, Editable
<1>5. CASE SaveRow(w)
  <2>1. /\ pc[w] = "save" /\ UNCHANGED <<chat, faults>>
        /\ row' = [row EXCEPT ![t] = Saved(w, row[t])]
    BY <1>5 DEF SaveRow, At, budgetVars
  <2>2. ~row[t].deleted /\ t \in Tasks
    BY <2>1, MineTyped DEF CardInv, Knows, Changing, At
  <2>3. ~row'[t].filtered /\ \A u \in Tasks \ {t} : row'[u] = row[u]
    BY <1>0, <2>1, <2>2 DEF Saved, Live
  <2>4. \A u \in Tasks \ {t} : ~Unfinished(u)
    BY DEF OneWorker, Unfinished
  <2> QED
    BY <2>1, <2>3, <2>4 DEF FilteredInv, SaysFiltered, Editable
<1>6. CASE React(w) \/ ReactFails(w)
  <2>1. /\ pc[w] = "react" /\ UNCHANGED <<QueueVars, event, hook, row, job>>
        /\ pc'[w] = IF Path(w) = "live" THEN "close" ELSE "mark"
        /\ faults' = faults \/ Fault
    BY <1>0, <1>6 DEF React, ReactFails, At, Go, budgetVars
  <2>2. \A k \in DOMAIN chat : /\ chat'[k].face = chat[k].face
                               /\ Editable(k)' = Editable(k)
    <3>1. CASE UNCHANGED chat
      BY <3>1 DEF Editable
    <3>2. ASSUME NEW tick, chat' = [chat EXCEPT ![m].tick = tick]
          PROVE  \A k \in DOMAIN chat : /\ chat'[k].face = chat[k].face
                                        /\ Editable(k)' = Editable(k)
      <4>1. \A k \in DOMAIN chat : chat[k] \in Card
        BY ChatLength, ElementOfSeq DEF DeliveryInv, CardPart
      <4> QED
        BY <3>2, <4>1 DEF Card, DeliveryInv, CardPart, Editable
    <3> QED
      BY <1>6, <3>1, <3>2 DEF React, ReactFails
  <2>3. \A u \in Tasks : row[u].msg # NoMsg =>
          chat'[row[u].msg].face = chat[row[u].msg].face
          /\ Editable(row[u].msg)' = Editable(row[u].msg)
    BY <2>1, <2>2, MessageIds
  <2>4. CASE Path(w) = "live"
    <3>1. ~Changing(w) /\ FacesKept
      BY <2>1, <2>3, <2>4 DEF Changing, Revoking, At, FacesKept
    <3> QED
      BY <1>1, <2>1, <3>1, FilteredCalm
  <2>5. CASE Path(w) # "live"
    <3>1. Changing(w)'
      BY <2>1, <2>5 DEF Changing, Revoking, At
    <3> QED
      BY <1>1, <2>1, <2>3, <3>1, FilteredChange DEF QueueVars
  <2> QED
    BY <2>4, <2>5
<1>7. CASE MarkRow(w)
  <2>1. /\ pc[w] = "mark" /\ UNCHANGED <<chat, faults>>
        /\ row' = [row EXCEPT ![t] = Marked(w, row[t])]
    BY <1>7 DEF MarkRow, At, budgetVars
  <2>2. /\ ~row[t].deleted /\ t \in Tasks /\ row[t].msg # NoMsg /\ Path(w) # "live"
        /\ Editable(row[t].msg) => chat[row[t].msg].face = Path(w)
    BY <2>1, MineTyped DEF CardInv, Knows, Changing, Revoking, At
  <2>3. row'[t] = Marked(w, row[t]) /\ row[t] \in Mapping
        /\ \A u \in Tasks \ {t} : row'[u] = row[u]
    BY <1>0, <2>1, <2>2
  <2>4. /\ row'[t].msg = row[t].msg
        /\ row'[t].deleted \/ Path(w) = "filtered"
    BY <2>2, <2>3, PathOf DEF Marked, Mapping
  <2>5. \A u \in Tasks \ {t} : ~Unfinished(u)
    BY DEF OneWorker, Unfinished
  <2> QED
    BY <2>1, <2>2, <2>3, <2>4, <2>5 DEF FilteredInv, SaysFiltered, Editable
<1>8. CASE CutOff(w)
  <2>1. UNCHANGED row /\ faults' # MaxFaults
    BY <1>1, <1>8 DEF CutOff, Interrupt
  <2> QED
    BY <2>1 DEF FilteredInv, SaysFiltered
<1> QED
  BY <1>2, <1>3, <1>4, <1>5, <1>6, <1>7, <1>8 DEF Step

LEMMA FilteredWorldSteps ==
  ASSUME OneWorker, DeliveryInv, FilteredInv,
         \/ \E t \in Tasks : ChangeTask(t) \/ CommentOnTask(t) \/ DeleteTask(t)
         \/ \E m \in DOMAIN chat : RemoveCard(m) \/ FixCard(m)
         \/ SwitchHook
  PROVE  \A t \in Tasks : SaysFiltered(t)'
<1>1. ASSUME NEW t \in Tasks, ChangeTask(t) \/ CommentOnTask(t) \/ DeleteTask(t)
      PROVE  \A u \in Tasks : SaysFiltered(u)'
  <2>1. UNCHANGED <<hook, row, chat, pc, job, faults>>
    BY <1>1 DEF ChangeTask, CommentOnTask, DeleteTask, Announce, deliveryVars, budgetVars
  <2>2. UNCHANGED held /\ \E payload \in Payload : event' = Append(event, payload)
    <3>1. vik[t].snap \in Snapshot
      BY DEF DeliveryInv, Task
    <3>2. \A kind \in Kinds, snap \in Snapshot : Payloads(kind, t, snap) \in Payload
      BY DEF Payloads, Payload
    <3>3. CASE ChangeTask(t)
      BY <3>2, <3>3 DEF ChangeTask, Kinds, Announce, Accept
    <3>4. CASE CommentOnTask(t)
      BY <3>2, <3>4, BlankTyped DEF CommentOnTask, Kinds, Announce, Accept
    <3>5. CASE DeleteTask(t)
      BY <3>1, <3>2, <3>5 DEF DeleteTask, Kinds, Announce, Accept
    <3> QED
      BY <1>1, <3>3, <3>4, <3>5
  <2>3. FacesKept
    BY <2>1 DEF FacesKept, Editable
  <2> QED
    BY <2>1, <2>2, <2>3, FilteredWorld
<1>2. ASSUME NEW m \in DOMAIN chat, RemoveCard(m) \/ FixCard(m)
      PROVE  \A u \in Tasks : SaysFiltered(u)'
  <2>1. /\ UNCHANGED <<QueueVars, event, hook, row, pc, job, faults>>
        /\ \/ chat' = [chat EXCEPT ![m].shown = FALSE]
           \/ chat' = [chat EXCEPT ![m].fixed = TRUE]
    BY <1>2 DEF RemoveCard, FixCard
  <2>2. \A k \in DOMAIN chat : /\ chat'[k].face = chat[k].face
                               /\ Editable(k)' => Editable(k)
    <3>1. \A k \in DOMAIN chat : chat[k] \in Card
      BY ElementOfSeq, ChatLength DEF DeliveryInv, CardPart
    <3> QED
      BY <2>1, <3>1 DEF Card, DeliveryInv, CardPart, Editable
  <2>3. FacesKept
    BY <2>1, <2>2, MessageIds DEF FacesKept
  <2> QED
    BY <2>1, <2>3, FilteredWorld DEF QueueVars
<1>3. ASSUME SwitchHook PROVE \A u \in Tasks : SaysFiltered(u)'
  <2>1. /\ UNCHANGED <<QueueVars, event, row, chat, pc, job, faults>>
        /\ hook'.mode = hook.mode
    BY <1>3 DEF SwitchHook, deliveryVars, DeliveryInv, Hook
  <2> QED
    BY <2>1, FilteredWorld DEF QueueVars, FacesKept, Editable
<1> QED
  BY <1>1, <1>2, <1>3

LEMMA FilteredKept ==
  ASSUME OneWorker, DeliveryInv, CardInv, FilteredInv, [Next]_vars
  PROVE  FilteredInv'
<1>1. ASSUME UNCHANGED vars PROVE \A t \in Tasks : SaysFiltered(t)'
  <2>1. /\ UNCHANGED <<event, hook, row, chat, pc, job, held, faults>>
        /\ FacesKept
    BY <1>1 DEF vars, deliveryVars, budgetVars, FacesKept, Editable
  <2> QED
    BY <2>1, FilteredWorld
<1>2. ASSUME NEW w \in Workers, Parks(w) PROVE \A t \in Tasks : SaysFiltered(t)'
  <2>1. /\ UNCHANGED <<QueueVars, event, hook, row, chat, pc, job>>
        /\ UNCHANGED faults \/ Fault
    BY <1>2 DEF Parks, Stop, Restart, Interrupt, At, budgetVars
  <2>2. CASE UNCHANGED faults
    BY <2>1, <2>2, FilteredWorld DEF QueueVars, FacesKept, Editable
  <2>3. CASE Fault
    BY <2>1, <2>3 DEF FilteredInv, SaysFiltered, Fault, DeliveryInv, BudgetPart
  <2> QED
    BY <2>1, <2>2, <2>3
<1> QED
  BY <1>1, <1>2, HoldsItKept, FilteredWorldSteps, FilteredSteps, StopsOrNot
  DEF Next, FilteredInv

LEMMA FilteredInit == Init => FilteredInv
BY DEF Init, QueueInit, FilteredInv, HoldsIt, SaysFiltered, NoMapping

(* With one worker a card whose mapping is filtered out says so when all   *)
(* is at rest and no delivery was cut off, unless Telegram lets nobody     *)
(* edit it any more (event_worker.py:168-199, 226-257).                    *)
THEOREM FilteredCardsSaySo == ASSUME OneWorker PROVE Spec => []FilteredCardSaysSo
<1>1. DeliveryInv /\ CardInv /\ FilteredInv /\ [Next]_vars => FilteredInv'
  BY FilteredKept
<1>2. DeliveryInv /\ FilteredInv => FilteredCardSaysSo
  <2> SUFFICES ASSUME DeliveryInv, FilteredInv, Undisturbed, Settled, NEW t \in Tasks,
                      row[t].filtered, ~row[t].deleted, Editable(row[t].msg)
               PROVE  chat[row[t].msg].face = "filtered"
    BY DEF FilteredCardSaysSo
  <2>1. faults = MaxFaults
    BY DEF Undisturbed
  <2>2. ASSUME NEW w \in Workers, Changing(w) PROVE FALSE
    <3>1. pc[w] # "idle"
      BY <2>2 DEF Changing, Revoking, At
    <3>2. held[w] \in Ids
      BY <3>1, MineTyped
    <3>3. held[w] # NoEvent
      BY <3>2 DEF Ids, NoEvent
    <3> QED
      BY <3>2, <3>3 DEF FilteredInv, HoldsIt, Settled
  <2>3. ~Unfinished(t)
    BY <2>2 DEF Unfinished
  <2> QED
    BY <2>1, <2>3 DEF FilteredInv, SaysFiltered
<1> QED
  BY <1>1, <1>2, FilteredInit, CardInvariant, DeliveryInvariant, PTL DEF Spec
=============================================================================
