--------------------------- MODULE TaskRestProofs ---------------------------
(***************************************************************************)
(* What TaskDelivery comes to when all is at rest and one worker delivers, *)
(* as run_bot starts it, for any number of tasks, views, events, faults    *)
(* and removed cards: cards show their tasks as they are, the check mark   *)
(* is right and a deleted task has no card that a reply could act on.      *)
(***************************************************************************)
EXTENDS TaskDeliveryProofs

-----------------------------------------------------------------------------
(* Steps, by what they do to the queue. *)

(* Something happens to a task and is put at the end of the queue. *)
Tells(t, payload) ==
  /\ payload.task = t /\ vik[t].exists
  /\ Len(event) + 1 \in Ids /\ status[Len(event) + 1] = "absent"
  /\ DOMAIN event' = DOMAIN event \cup {Len(event) + 1}
  /\ \A i \in DOMAIN event : event'[i] = event[i]
  /\ event'[Len(event) + 1] = payload
  /\ status' = [status EXCEPT ![Len(event) + 1] = "fresh"]
  /\ \A u \in Tasks \ {t} : vik'[u] = vik[u]
  /\ payload.kind = "delete" <=> ~vik'[t].exists
  /\ ~vik'[t].exists => vik'[t].in = {}
  /\ payload.kind = "update" => payload.snap = vik'[t].snap
  /\ payload.kind = "comment" => vik' = vik
  /\ UNCHANGED <<held, hook, deliveryVars, budgetVars>>

Ends(w) == Close(w) \/ CutOff(w) \/ ViewsFail(w)

(* Someone takes a card away, or Telegram its edits.                       *)
Loses(m) == RemoveCard(m) \/ FixCard(m)

(* Nothing but a loop ends or begins.                                      *)
Rests == UNCHANGED <<QueueVars, vik, event, hook, row, chat, pc, job, lost, switches, lapses>>

(* The steps of a delivery between its first and its last. *)
Works(w) ==
  \/ ReadHook(w) \/ IgnoreInactive(w) \/ IgnoreExpired(w)
  \/ ReadTask(w) \/ ReadTaskFails(w)
  \/ (\E v \in Views : AskView(w, v)) \/ JudgeViews(w)
  \/ ReadRow(w) \/ EditCard(w) \/ SendCard(w) \/ SaveRow(w)
  \/ React(w) \/ ReactFails(w) \/ MarkRow(w)

LEMMA EventDomain ==
  ASSUME DeliveryInv
  PROVE  /\ Len(event) \in Nat /\ DOMAIN event = 1 .. Len(event) /\ DOMAIN event \subseteq Ids
         /\ \A i \in DOMAIN event : event[i] \in Payload /\ event[i].task \in Tasks
         /\ \A i \in Ids : i \in DOMAIN event <=> status[i] # "absent"
<1>1. event \in Seq(Payload) /\ Len(event) \in Nat /\ DOMAIN event = 1 .. Len(event)
      /\ Len(event) <= MaxEvents /\ MaxEvents \in Nat
  BY LenProperties, QueueAssumption DEF DeliveryInv, QueuePart
<1>2. \A i \in DOMAIN event : event[i] \in Payload
  BY <1>1, ElementOfSeq
<1>3. \A i \in Ids : i \in DOMAIN event <=> status[i] # "absent"
  BY <1>1 DEF DeliveryInv, QueuePart, Ids
<1> QED
  BY <1>1, <1>2, <1>3 DEF Ids, Payload

LEMMA AnnounceTells ==
  ASSUME DeliveryInv, NEW payload \in Payload, Announce(payload), vik[payload.task].exists,
         \A u \in Tasks \ {payload.task} : vik'[u] = vik[u],
         payload.kind = "delete" <=> ~vik'[payload.task].exists,
         ~vik'[payload.task].exists => vik'[payload.task].in = {},
         payload.kind = "update" => payload.snap = vik'[payload.task].snap,
         payload.kind = "comment" => vik' = vik
  PROVE  Tells(payload.task, payload)
<1>1. event \in Seq(Payload) /\ Len(event) \in Nat /\ DOMAIN event = 1 .. Len(event)
  BY EventDomain DEF DeliveryInv, QueuePart
<1>2. /\ event' = Append(event, payload)
      /\ status[Len(event) + 1] = "absent"
      /\ status' = [status EXCEPT ![Len(event) + 1] = "fresh"]
      /\ UNCHANGED <<held, hook, deliveryVars, budgetVars>>
      /\ Len(event) < MaxEvents
  BY DEF Announce, Accept
<1>3. Len(event) + 1 \in Ids
  BY <1>1, <1>2, QueueAssumption DEF Ids
<1>4. /\ event' \in Seq(Payload) /\ Len(event') = Len(event) + 1
      /\ event'[Len(event) + 1] = payload
      /\ \A i \in 1 .. Len(event) : event'[i] = event[i]
  BY <1>1, <1>2, AppendProperties
<1>5. DOMAIN event' = DOMAIN event \cup {Len(event) + 1}
  BY <1>1, <1>4, LenProperties
<1> QED
  BY <1>1, <1>2, <1>3, <1>4, <1>5 DEF Tells

LEMMA TaskTells ==
  ASSUME DeliveryInv, NEW t \in Tasks, ChangeTask(t) \/ CommentOnTask(t) \/ DeleteTask(t)
  PROVE  \E payload \in Payload : Tells(t, payload)
<1>0. vik \in [Tasks -> Task] /\ vik[t].snap \in Snapshot
  BY DEF DeliveryInv, Task
<1>1. \A kind \in Kinds, snap \in Snapshot :
        /\ Payloads(kind, t, snap) \in Payload
        /\ Payloads(kind, t, snap).task = t /\ Payloads(kind, t, snap).kind = kind
        /\ Payloads(kind, t, snap).snap = snap
  BY DEF Payloads, Payload
<1>2. CASE ChangeTask(t)
  <2>1. PICK done \in BOOLEAN, in \in SUBSET Views :
          LET snap == Snap(vik[t].snap.ver + 1, done)
          IN  /\ snap \in Snapshot
              /\ vik' = [vik EXCEPT ![t] = [exists |-> TRUE, snap |-> snap, in |-> in]]
              /\ Announce(Payloads("update", t, snap))
    BY <1>2 DEF ChangeTask
  <2>2. PICK snap \in Snapshot :
          /\ vik' = [vik EXCEPT ![t] = [exists |-> TRUE, snap |-> snap, in |-> in]]
          /\ Announce(Payloads("update", t, snap))
    BY <2>1
  <2>3. vik[t].exists /\ vik'[t] = [exists |-> TRUE, snap |-> snap, in |-> in]
        /\ \A u \in Tasks \ {t} : vik'[u] = vik[u]
    BY <1>0, <1>2, <2>2 DEF ChangeTask
  <2> DEFINE payload == Payloads("update", t, snap)
  <2>4. payload \in Payload /\ payload.task = t /\ payload.kind = "update"
        /\ payload.snap = snap
    BY <1>1 DEF Kinds
  <2>5. Announce(payload)
    BY <2>2
  <2> HIDE DEF payload
  <2> QED
    BY <2>3, <2>4, <2>5, AnnounceTells
<1>3. CASE CommentOnTask(t)
  <2> DEFINE payload == Payloads("comment", t, Blank)
  <2>1. payload \in Payload /\ payload.task = t /\ payload.kind = "comment"
    BY <1>1, BlankTyped DEF Kinds
  <2>2. Announce(payload) /\ vik[t].exists /\ vik' = vik
    BY <1>3 DEF CommentOnTask
  <2> HIDE DEF payload
  <2> QED
    BY <2>1, <2>2, AnnounceTells
<1>4. CASE DeleteTask(t)
  <2> DEFINE payload == Payloads("delete", t, vik[t].snap)
  <2>1. payload \in Payload /\ payload.task = t /\ payload.kind = "delete"
    BY <1>0, <1>1 DEF Kinds
  <2>2. /\ Announce(payload) /\ vik[t].exists
        /\ vik'[t] = [exists |-> FALSE, snap |-> vik[t].snap, in |-> {}]
        /\ \A u \in Tasks \ {t} : vik'[u] = vik[u]
    BY <1>0, <1>4 DEF DeleteTask
  <2> HIDE DEF payload
  <2> QED
    BY <2>1, <2>2, AnnounceTells
<1> QED
  BY <1>2, <1>3, <1>4

LEMMA Steps ==
  ASSUME DeliveryInv, [Next]_vars
  PROVE  \/ \E t \in Tasks, payload \in Payload : Tells(t, payload)
         \/ \E m \in DOMAIN chat : Loses(m)
         \/ SwitchHook
         \/ \E w \in Workers : Start(w) \/ Works(w) \/ Ends(w)
         \/ Rests
<1>1. ASSUME NEW w \in Workers, Parks(w) PROVE Rests
  BY <1>1 DEF Parks, Stop, Restart, Interrupt, At, Rests, budgetVars, QueueVars
<1>2. UNCHANGED vars => Rests
  BY DEF vars, deliveryVars, budgetVars, QueueVars, Rests
<1> QED
  BY <1>1, <1>2, TaskTells, StopsOrNot DEF Next, Step, Works, Ends, Loses

LEMMA WorkKeeps ==
  ASSUME DeliveryInv, NEW w \in Workers, Works(w)
  PROVE  /\ UNCHANGED <<QueueVars, vik, event, hook, switches>>
         /\ pc[w] # "idle" /\ pc'[w] # "idle" /\ Mine(w)' = Mine(w)
         /\ Mine(w).task \in Tasks /\ Mine(w) \in Payload
         /\ faults' = faults \/ Fault
<1>1. /\ UNCHANGED <<QueueVars, vik, event, hook, switches>> /\ pc[w] # "idle"
      /\ faults' = faults \/ Fault
  BY DEF Works, ReadHook, IgnoreInactive, IgnoreExpired, ReadTask, ReadTaskFails, AskView,
     JudgeViews, ReadRow, EditCard, SendCard, SaveRow, React, ReactFails, MarkRow,
     budgetVars, At
<1>2. pc'[w] # "idle"
  BY <1>1 DEF DeliveryInv, WorkerPart, Works, ReadHook, FirstRead, IgnoreInactive,
     IgnoreExpired, ReadTask, ReadTaskFails, AskView, JudgeViews, ReadRow, EditCard, SendCard,
     SaveRow, React, ReactFails, MarkRow, Go, At
<1> QED
  BY <1>1, <1>2, MineTyped DEF Mine, QueueVars

(* What a delivery remembers of the views changes when one answers. *)
LEMMA WorkRemembers ==
  ASSUME DeliveryInv, NEW w \in Workers, Works(w)
  PROVE  (\E v \in Views : AskView(w, v)) \/ job'[w].answers = job[w].answers
<1>1. job \in [Workers -> Job] /\ job[w] \in Job
  BY DEF DeliveryInv, WorkerPart
<1>2. CASE UNCHANGED job
  BY <1>2
<1>3. CASE ReadTask(w) \/ JudgeViews(w) \/ SendCard(w)
  BY <1>1, <1>3 DEF ReadTask, JudgeViews, SendCard, Job
<1>4. CASE ReadRow(w)
  BY <1>1, <1>4 DEF ReadRow
<1> QED
  BY <1>2, <1>3, <1>4 DEF Works, ReadHook, IgnoreInactive, IgnoreExpired, ReadTaskFails,
     EditCard, SaveRow, React, ReactFails, MarkRow

(* The budgets only fall. *)
LEMMA OrderLasts ==
  ASSUME DeliveryInv, [Next]_vars
  PROVE  /\ hook'.mode = hook.mode
         /\ faults' = MaxFaults => faults = MaxFaults
         /\ NothingDropped' => NothingDropped
         /\ InOrder' => InOrder /\ ~SwitchHook /\ ~\E w \in Workers : IgnoreExpired(w)
<1>1. /\ faults \in 0 .. MaxFaults /\ lapses \in 0 .. MaxLapses
      /\ switches \in 0 .. MaxSwitches /\ MaxFaults \in Nat /\ MaxLapses \in Nat
      /\ MaxSwitches \in Nat
  BY DeliveryConstants DEF DeliveryInv, BudgetPart
<1>2. /\ faults' = faults \/ faults' = faults - 1
      /\ lapses' = lapses \/ lapses' = lapses - 1
      /\ switches' = switches \/ switches' = switches - 1
  BY ZenonT(40)
  DEF Next, vars, budgetVars, Step, Start, ReadHook, IgnoreInactive, IgnoreExpired, ReadTask,
     ReadTaskFails, AskView, JudgeViews, ViewsFail, ReadRow, EditCard, SendCard, SaveRow, React,
     ReactFails, MarkRow, Close, Fails, Stop, Restart, Interrupt, Fault, ChangeTask, CommentOnTask,
     DeleteTask, Announce, RemoveCard, FixCard, SwitchHook
<1>3. /\ faults' = MaxFaults => faults = MaxFaults
      /\ NothingDropped' => NothingDropped
      /\ NothingDropped' => ~SwitchHook /\ ~\E w \in Workers : IgnoreExpired(w)
  BY <1>1, <1>2 DEF NothingDropped, SwitchHook, IgnoreExpired
<1>4. hook'.mode = hook.mode
  <2>1. CASE SwitchHook
    BY <2>1 DEF SwitchHook, DeliveryInv, Hook
  <2>2. CASE UNCHANGED hook
    BY <2>2
  <2> QED
    BY <2>1, <2>2, Steps, WorkKeeps DEF Tells, Loses, RemoveCard, FixCard, Start, Ends, Close, CutOff,
       ViewsFail, Interrupt, Rests
<1> QED
  BY <1>3, <1>4 DEF InOrder
-----------------------------------------------------------------------------
(* The queue of one worker: what it holds is held by it, and as long as    *)
(* nothing failed the events were delivered in order.                      *)
HeldInv ==
  /\ HoldsIt
  /\ \A i \in Ids : status[i] = "held" => \E w \in Workers : held[w] = i

OrderInv ==
  faults = MaxFaults =>
    /\ \A i \in Ids : status[i] # "waiting"
    /\ \A i, j \in Ids : i < j /\ status[j] \in {"held", "done"} => status[i] = "done"
    /\ \A w \in Workers, v \in Views : job[w].answers[v].kind # "failed"

LEMMA QueueTyped ==
  ASSUME DeliveryInv
  PROVE  /\ status \in [Ids -> Statuses] /\ held \in [Workers -> Ids \cup {NoEvent}]
         /\ NoEvent \notin Ids /\ Ids \subseteq Nat
         /\ \A w \in Workers : pc[w] = "idle" <=> held[w] = NoEvent
BY DEF DeliveryInv, QueuePart, QueueTypeOK, WorkerPart, Ids, NoEvent

(* A delivery that ends gives the event back, or it is done. *)
LEMMA EndShape ==
  ASSUME DeliveryInv, NEW w \in Workers, Ends(w)
  PROVE  /\ pc[w] # "idle" /\ held[w] \in Ids /\ Mine(w).task \in Tasks
         /\ \E outcome \in {"done", "waiting"} :
              /\ status' = [status EXCEPT ![held[w]] = outcome]
              /\ outcome = "done" => Close(w)
         /\ held' = [held EXCEPT ![w] = NoEvent]
         /\ pc' = [pc EXCEPT ![w] = "idle"] /\ job' = [job EXCEPT ![w] = NoJob]
         /\ UNCHANGED <<vik, event, hook, row, chat, switches>>
         /\ Close(w) => faults' = faults
         /\ CutOff(w) => Fault
BY MineTyped DEF Ends, Close, CutOff, ViewsFail, Interrupt, Finish, GiveBack, Release, At, Go, budgetVars

LEMMA StartShape ==
  ASSUME DeliveryInv, NEW w \in Workers, Start(w)
  PROVE  /\ pc[w] = "idle" /\ held[w] = NoEvent /\ pc' = [pc EXCEPT ![w] = "hook"]
         /\ \E i \in DOMAIN event :
              /\ status[i] \in {"fresh", "waiting"} /\ i \in Ids
              /\ \A j \in Ids : j < i => status[j] # "fresh"
              /\ status' = [status EXCEPT ![i] = "held"] /\ held' = [held EXCEPT ![w] = i]
              /\ job' = [job EXCEPT ![w] = NewJob(event[i].snap)]
         /\ UNCHANGED <<vik, event, hook, row, chat, budgetVars>>
BY EventDomain DEF Start, At, Take, Go

LEMMA HeldKept ==
  ASSUME OneWorker, DeliveryInv, HeldInv, [Next]_vars
  PROVE  HeldInv'
<1> USE QueueTyped DEF HeldInv
<1>1. HoldsIt'
  BY HoldsItKept
<1>2. CASE UNCHANGED QueueVars
  BY <1>1, <1>2 DEF QueueVars
<1>3. ASSUME NEW t \in Tasks, NEW payload \in Payload, Tells(t, payload)
      PROVE  HeldInv'
  BY <1>1, <1>3 DEF Tells
<1>4. ASSUME NEW w \in Workers, Start(w) PROVE HeldInv'
  <2>1. PICK i \in Ids : /\ held[w] = NoEvent /\ status' = [status EXCEPT ![i] = "held"]
                         /\ held' = [held EXCEPT ![w] = i]
    BY <1>4, StartShape
  <2>2. \A j \in Ids : status'[j] = "held" => j = i \/ status[j] = "held"
    BY <2>1
  <2>3. \A j \in Ids : status[j] # "held"
    BY <2>1 DEF OneWorker
  <2> QED
    BY <1>1, <2>1, <2>2, <2>3
<1>5. ASSUME NEW w \in Workers, Ends(w) PROVE HeldInv'
  <2>1. PICK outcome \in {"done", "waiting"} : status' = [status EXCEPT ![held[w]] = outcome]
    BY <1>5, EndShape
  <2>2. held[w] \in Ids
    BY <1>5, EndShape
  <2>3. \A j \in Ids : status[j] = "held" => j = held[w]
    BY DEF OneWorker
  <2> QED
    BY <1>1, <2>1, <2>2, <2>3
<1> QED
  BY <1>2, <1>3, <1>4, <1>5, Steps, WorkKeeps DEF Loses, RemoveCard, FixCard, SwitchHook, Rests, QueueVars

LEMMA OrderKept ==
  ASSUME OneWorker, DeliveryInv, HeldInv, OrderInv, [Next]_vars
  PROVE  OrderInv'
<1> SUFFICES ASSUME faults' = MaxFaults PROVE OrderInv'
  BY DEF OrderInv
<1>0. faults = MaxFaults /\ ~Fault
  BY OrderLasts, DeliveryConstants DEF DeliveryInv, BudgetPart, Fault
<1>1. /\ \A i \in Ids : status[i] # "waiting"
      /\ \A i, j \in Ids : i < j /\ status[j] \in {"held", "done"} => status[i] = "done"
      /\ \A w \in Workers, v \in Views : job[w].answers[v].kind # "failed"
  BY <1>0 DEF OrderInv
<1>2. /\ job \in [Workers -> Job] /\ \A w \in Workers : job[w] \in Job
  BY DEF DeliveryInv, WorkerPart
<1>3. CASE UNCHANGED <<status, job>>
  BY <1>1, <1>3 DEF OrderInv
<1>4. ASSUME NEW t \in Tasks, NEW payload \in Payload, Tells(t, payload)
      PROVE  OrderInv'
  <2> DEFINE n == Len(event) + 1
  <2>1. /\ n \in Ids /\ status[n] = "absent" /\ status' = [status EXCEPT ![n] = "fresh"]
        /\ UNCHANGED job
    BY <1>4 DEF Tells, deliveryVars
  <2>2. status'[n] = "fresh" /\ \A i \in Ids \ {n} : status'[i] = status[i]
    BY <2>1, QueueTyped
  <2>3. \A i \in Ids : status'[i] # "waiting"
    BY <1>1, <2>2
  <2>4. ASSUME NEW i \in Ids, NEW j \in Ids, i < j, status'[j] \in {"held", "done"}
        PROVE  status'[i] = "done"
    <3>1. j # n /\ status[j] \in {"held", "done"}
      BY <2>2, <2>4
    <3>2. status[i] = "done"
      BY <1>1, <2>4, <3>1
    <3> QED
      BY <2>1, <2>2, <3>2
  <2> QED
    BY <1>1, <2>1, <2>3, <2>4 DEF OrderInv
<1>5. ASSUME NEW w \in Workers, Start(w) PROVE OrderInv'
  <2>1. PICK k \in DOMAIN event :
          /\ k \in Ids /\ status[k] \in {"fresh", "waiting"}
          /\ \A j \in Ids : j < k => status[j] # "fresh"
          /\ status' = [status EXCEPT ![k] = "held"]
          /\ job' = [job EXCEPT ![w] = NewJob(event[k].snap)]
    BY <1>5, StartShape
  <2>2. status'[k] = "held" /\ \A i \in Ids \ {k} : status'[i] = status[i]
    BY <2>1, QueueTyped
  <2>3. \A j \in Ids : status[j] # "held"
    BY <1>5, StartShape, QueueTyped DEF HeldInv, OneWorker
  <2>4. ASSUME NEW i \in Ids, i < k PROVE status[i] = "done"
    <3>1. i \in DOMAIN event
      BY <2>1, <2>4, EventDomain DEF Ids
    <3> QED
      BY <1>1, <2>1, <2>3, <2>4, <3>1, EventDomain, QueueTyped DEF Statuses
  <2>5. ASSUME NEW i \in Ids, NEW j \in Ids, i < j, status'[j] \in {"held", "done"}
        PROVE  status'[i] = "done"
    <3>1. status[i] = "done"
      BY <1>1, <2>2, <2>4, <2>5
    <3> QED
      BY <2>1, <2>2, <3>1
  <2>6. \A u \in Workers, v \in Views : job'[u].answers[v].kind # "failed"
    BY <1>1, <1>2, <2>1 DEF NewJob, Unasked, Reply
  <2> QED
    BY <1>1, <2>2, <2>5, <2>6 DEF OrderInv
<1>6. ASSUME NEW w \in Workers, Ends(w) PROVE OrderInv'
  <2>1. Close(w)
    BY <1>0, <1>1, <1>6, EndShape DEF Ends, ViewsFail, Answered
  <2>2. /\ held[w] \in Ids /\ status' = [status EXCEPT ![held[w]] = "done"]
        /\ job' = [job EXCEPT ![w] = NoJob]
    BY <1>6, <2>1, EndShape DEF Close, Finish, Release
  <2>3. status'[held[w]] = "done" /\ \A i \in Ids \ {held[w]} : status'[i] = status[i]
    BY <2>2, QueueTyped
  <2>4. status[held[w]] = "held"
    BY <2>2, QueueTyped DEF HeldInv, HoldsIt
  <2>5. ASSUME NEW i \in Ids, NEW j \in Ids, i < j, status'[j] \in {"held", "done"}
        PROVE  status'[i] = "done"
    <3>1. status[j] \in {"held", "done"}
      BY <2>3, <2>4, <2>5
    <3> QED
      BY <1>1, <2>3, <2>5, <3>1
  <2>6. \A u \in Workers, v \in Views : job'[u].answers[v].kind # "failed"
    BY <1>1, <1>2, <2>2 DEF NoJob, NewJob, Unasked, Reply
  <2> QED
    BY <1>1, <2>3, <2>5, <2>6 DEF OrderInv
<1>7. ASSUME NEW w \in Workers, Works(w) PROVE OrderInv'
  <2>1. UNCHANGED status
    BY <1>7, WorkKeeps DEF QueueVars
  <2>2. \A u \in Workers, v \in Views : job'[u].answers[v].kind # "failed"
    <3>1. CASE job'[w].answers = job[w].answers
      BY <1>1, <3>1 DEF OneWorker
    <3>2. ASSUME NEW v \in Views, AskView(w, v)
          PROVE  \A u \in Workers, x \in Views : job'[u].answers[x].kind # "failed"
      <4>1. PICK answer \in {Reply("hit", vik[Mine(w).task].snap), Reply("absent", Blank),
                             Reply("failed", Blank)} :
              /\ answer.kind # "failed"
              /\ job' = [job EXCEPT ![w].answers[v] = answer]
        BY <1>0, <3>2 DEF AskView
      <4>2. job'[w].answers = [job[w].answers EXCEPT ![v] = answer]
            /\ job[w].answers \in [Views -> Answer]
        BY <1>2, <4>1 DEF Job
      <4> QED
        BY <1>1, <4>1, <4>2 DEF OneWorker
    <3> QED
      BY <1>7, <3>1, <3>2, WorkRemembers
  <2> QED
    BY <1>1, <2>1, <2>2 DEF OrderInv
<1> QED
  BY <1>3, <1>4, <1>5, <1>6, <1>7, Steps
  DEF Loses, RemoveCard, FixCard, SwitchHook, Rests, QueueVars, deliveryVars

-----------------------------------------------------------------------------
(* What the queue tells of the tasks. *)
LastOf(i) == \A j \in DOMAIN event : event[j].task = event[i].task => j <= i

(* An event that brings its task along, or has it looked up: all but the   *)
(* comments of a hook without a service account.                           *)
Bears(i) == hook.mode = "alone" => event[i].kind # "comment"
LastToBear(i) ==
  \A j \in DOMAIN event : event[j].task = event[i].task /\ Bears(j) => j <= i

(* A comment that nothing can be shown of. *)
Dropped(w) == pc[w] # "idle" /\ hook.mode = "alone" /\ Mine(w).kind = "comment"

HistoryInv ==
  /\ \A w \in Workers : Dropped(w) => pc[w] \in {"hook", "close"}
  /\ \A i \in DOMAIN event : event[i].kind = "delete" =>
       ~vik[event[i].task].exists /\ LastOf(i)
  /\ \A i \in DOMAIN event :
       event[i].kind = "update" /\ vik[event[i].task].exists /\ LastToBear(i) =>
       event[i].snap = vik[event[i].task].snap
  /\ \A t \in Tasks : ~vik[t].exists =>
       /\ vik[t].in = {}
       /\ \E i \in DOMAIN event : event[i].kind = "delete" /\ event[i].task = t
  /\ \A t \in Tasks : row[t].deleted => ~vik[t].exists
  /\ \A t \in Tasks : row[t].msg # NoMsg => Announced(t)
  /\ switches = MaxSwitches => hook.active

(* What a step leaves of a delivery and of another task's card. *)
Serving(w, t) == pc[w] # "idle" /\ Mine(w).task = t

LEMMA TellsLeaves ==
  ASSUME DeliveryInv, NEW t \in Tasks, NEW payload \in Payload, Tells(t, payload)
  PROVE  /\ \A w \in Workers : pc[w] # "idle" => Mine(w)' = Mine(w) /\ Path(w)' = Path(w)
         /\ \A w \in Workers, u \in Tasks : Serving(w, u)' = Serving(w, u)
         /\ \A w \in Workers : Nowhere(w)' = Nowhere(w)
<1>1. UNCHANGED <<held, hook, pc, job>>
  BY DEF Tells, deliveryVars
<1>2. ASSUME NEW w \in Workers, pc[w] # "idle" PROVE Mine(w)' = Mine(w)
  <2>1. held[w] \in DOMAIN event
    BY <1>2, MineTyped, EventDomain DEF Ids
  <2> QED
    BY <1>1, <2>1 DEF Mine, Tells
<1>3. \A w \in Workers : Nowhere(w)' = Nowhere(w)
  BY <1>1 DEF Nowhere, Answered
<1> QED
  BY <1>1, <1>2, <1>3 DEF Path, Serving

(* No step but those that write the mapping changes it. *)
LEMMA MappingShape ==
  ASSUME OneWorker, DeliveryInv, CardInv, NEW w \in Workers, SaveRow(w) \/ MarkRow(w)
  PROVE  /\ \A u \in Tasks \ {Mine(w).task} : row'[u] = row[u]
         /\ row'[Mine(w).task].deleted => Mine(w).kind = "delete"
<1>1. Mine(w).task \in Tasks /\ row \in [Tasks -> Mapping]
  BY MineTyped DEF SaveRow, MarkRow, At, DeliveryInv, CardPart
<1>2. CASE SaveRow(w)
  <2>1. row' = [row EXCEPT ![Mine(w).task] = Saved(w, row[Mine(w).task])]
    BY <1>2 DEF SaveRow
  <2>2. ~row[Mine(w).task].deleted
    BY <1>2 DEF SaveRow, CardInv, Knows, Changing, At
  <2> QED
    BY <1>1, <2>1, <2>2 DEF Saved, Live
<1>3. CASE MarkRow(w)
  <2>1. row' = [row EXCEPT ![Mine(w).task] = Marked(w, row[Mine(w).task])]
    BY <1>3 DEF MarkRow
  <2>2. ~row[Mine(w).task].deleted
    BY <1>3 DEF MarkRow, CardInv, Knows, Changing, Revoking, At
  <2> QED
    BY <1>1, <2>1, <2>2 DEF Marked, Path, Mapping
<1> QED
  BY <1>2, <1>3

LEMMA DroppedKept ==
  ASSUME OneWorker, DeliveryInv, \A w \in Workers : Dropped(w) => pc[w] \in {"hook", "close"},
         [Next]_vars
  PROVE  \A w \in Workers : Dropped(w)' => pc'[w] \in {"hook", "close"}
<1>0. pc \in [Workers -> Places] /\ hook'.mode = hook.mode
  BY OrderLasts DEF DeliveryInv, WorkerPart
<1>1. CASE UNCHANGED <<held, event, pc>>
  BY <1>0, <1>1 DEF Dropped, Mine
<1>2. ASSUME NEW t \in Tasks, NEW payload \in Payload, Tells(t, payload), NEW w \in Workers,
             Dropped(w)'
      PROVE  pc'[w] \in {"hook", "close"}
  <2>1. pc' = pc
    BY <1>2 DEF Tells, deliveryVars
  <2>2. Mine(w)' = Mine(w)
    BY <1>2, <2>1, TellsLeaves DEF Dropped
  <2> QED
    BY <1>0, <1>2, <2>1, <2>2 DEF Dropped
<1>3. ASSUME NEW w \in Workers, Start(w) \/ Ends(w)
      PROVE  \A u \in Workers : pc'[u] \in {"hook", "idle"}
  BY <1>0, <1>3, StartShape, EndShape DEF OneWorker
<1>4. ASSUME NEW w \in Workers, Works(w), Dropped(w)'
      PROVE  pc'[w] \in {"hook", "close"}
  <2>1. Dropped(w) /\ pc[w] \in {"hook", "close"} /\ Mine(w).kind = "comment"
        /\ hook.mode = "alone"
    BY <1>0, <1>4, WorkKeeps DEF Dropped
  <2>2. ReadHook(w) \/ IgnoreInactive(w) \/ IgnoreExpired(w)
    BY <1>4, <2>1 DEF Works, ReadTask, ReadTaskFails, AskView, JudgeViews, ReadRow, EditCard,
       SendCard, SaveRow, React, ReactFails, MarkRow, At
  <2>3. FirstRead(w) = "close"
    BY <2>1 DEF FirstRead
  <2> QED
    BY <1>0, <2>2, <2>3 DEF ReadHook, IgnoreInactive, IgnoreExpired, Go
<1> QED
  BY <1>1, <1>2, <1>3, <1>4, Steps
  DEF OneWorker, Loses, RemoveCard, FixCard, Rests, SwitchHook, deliveryVars, QueueVars, Dropped

LEMMA HistoryKept ==
  ASSUME OneWorker, DeliveryInv, CardInv, HistoryInv, [Next]_vars
  PROVE  HistoryInv'
<1>0. \A w \in Workers : Dropped(w)' => pc'[w] \in {"hook", "close"}
  BY DroppedKept DEF HistoryInv
<1> USE <1>0 DEF HistoryInv
<1>1. CASE UNCHANGED <<vik, event, hook, row, switches>>
  BY <1>1 DEF LastOf, LastToBear, Bears, Announced
<1>2. ASSUME NEW t \in Tasks, NEW payload \in Payload, Tells(t, payload)
      PROVE  HistoryInv'
  <2>1. PICK n \in Ids :
        /\ n = Len(event) + 1
        /\ payload.task = t /\ vik[t].exists /\ DOMAIN event' = DOMAIN event \cup {n}
        /\ \A i \in DOMAIN event : event'[i] = event[i]
        /\ event'[n] = payload
        /\ \A u \in Tasks \ {t} : vik'[u] = vik[u]
        /\ payload.kind = "delete" <=> ~vik'[t].exists
        /\ ~vik'[t].exists => vik'[t].in = {}
        /\ payload.kind = "update" => payload.snap = vik'[t].snap
        /\ payload.kind = "comment" => vik' = vik
        /\ UNCHANGED <<hook, row, switches>>
    BY <1>2 DEF Tells, deliveryVars, budgetVars
  <2>2. /\ Len(event) \in Nat /\ DOMAIN event = 1 .. Len(event)
        /\ \A i \in DOMAIN event : event[i].task \in Tasks
    BY EventDomain
  <2>3. \A i \in DOMAIN event : i < n /\ n \notin DOMAIN event
    BY <2>1, <2>2
  <2>4. LastOf(n)'
    <3>1. \A i \in DOMAIN event' : i <= n
      BY <2>1, <2>2, <2>3
    <3> QED
      BY <2>1, <3>1 DEF LastOf
  <2>5. \A i \in DOMAIN event :
          event[i].task = t /\ LastToBear(i)' => LastToBear(i) /\ vik' = vik
    <3>1. \A i \in DOMAIN event : ~(n <= i)
      BY <2>1, <2>2, <2>3
    <3>2. ASSUME NEW i \in DOMAIN event, event[i].task = t, LastToBear(i)'
          PROVE  LastToBear(i) /\ vik' = vik
      <4>1. ~Bears(n)'
        BY <2>1, <3>1, <3>2 DEF LastToBear
      <4>2. vik' = vik
        BY <2>1, <4>1 DEF Bears
      <4> QED
        BY <2>1, <3>2, <4>2 DEF LastToBear, Bears
    <3> QED
      BY <3>2
  <2>6. \A i \in DOMAIN event : event[i].task # t =>
          /\ LastOf(i)' <=> LastOf(i)
          /\ LastToBear(i)' => LastToBear(i)
    BY <2>1 DEF LastOf, LastToBear, Bears
  <2>7. \A i \in DOMAIN event : event[i].task = t => event[i].kind # "delete"
    BY <2>1
  <2>8. \A i \in DOMAIN event' : event'[i].kind = "delete" =>
          ~vik'[event'[i].task].exists /\ LastOf(i)'
    BY <2>1, <2>2, <2>4, <2>6, <2>7
  <2>9. \A i \in DOMAIN event' :
          event'[i].kind = "update" /\ vik'[event'[i].task].exists /\ LastToBear(i)' =>
            event'[i].snap = vik'[event'[i].task].snap
    BY <2>1, <2>2, <2>5, <2>6
  <2>10. \A u \in Tasks : ~vik'[u].exists =>
           /\ vik'[u].in = {}
           /\ \E i \in DOMAIN event' : event'[i].kind = "delete" /\ event'[i].task = u
    BY <2>1
  <2>11. \A u \in Tasks : row'[u].deleted => ~vik'[u].exists
    BY <2>1
  <2>12. \A u \in Tasks : row'[u].msg # NoMsg => Announced(u)'
    BY <2>1 DEF Announced
  <2> QED
    BY <2>1, <2>8, <2>9, <2>10, <2>11, <2>12
<1>3. ASSUME NEW w \in Workers, SaveRow(w) \/ MarkRow(w) PROVE HistoryInv'
  <2>1. UNCHANGED <<vik, event, hook, switches>> /\ held[w] \in DOMAIN event
        /\ event[held[w]] = Mine(w) /\ Mine(w).task \in Tasks
    BY <1>3, MineTyped, EventDomain DEF SaveRow, MarkRow, At, budgetVars, Mine, Ids
  <2>2. Announced(Mine(w).task)
    BY <1>3, <2>1 DEF Announced, Dropped, SaveRow, MarkRow, At
  <2>3. row'[Mine(w).task].deleted => ~vik[Mine(w).task].exists
    BY <1>3, <2>1, MappingShape
  <2> QED
    BY <1>3, <2>1, <2>2, <2>3, MappingShape DEF LastOf, LastToBear, Bears, Announced
<1>4. ASSUME SwitchHook PROVE HistoryInv'
  <2>1. switches' # MaxSwitches
    BY <1>4, DeliveryConstants DEF SwitchHook, DeliveryInv, BudgetPart
  <2> QED
    BY <1>4, <2>1 DEF SwitchHook, deliveryVars, LastOf, LastToBear, Bears, Announced
<1>5. ASSUME NEW w \in Workers, Works(w), ~SaveRow(w), ~MarkRow(w)
      PROVE  UNCHANGED <<vik, event, hook, row, switches>>
  BY <1>5, WorkKeeps DEF Works, ReadHook, IgnoreInactive, IgnoreExpired, ReadTask, ReadTaskFails,
     AskView, JudgeViews, ReadRow, EditCard, SendCard, React, ReactFails
<1> QED
  BY <1>1, <1>2, <1>3, <1>4, <1>5, Steps, StartShape, EndShape
  DEF Loses, RemoveCard, FixCard, Rests, budgetVars

-----------------------------------------------------------------------------
LEMMA OtherMappings ==
  ASSUME OneWorker, DeliveryInv, CardInv, NEW w \in Workers, Works(w)
  PROVE  /\ \A u \in Tasks \ {Mine(w).task} : row'[u] = row[u]
         /\ SaveRow(w) \/ MarkRow(w) \/ row' = row
BY MappingShape DEF Works, ReadHook, IgnoreInactive, IgnoreExpired, ReadTask, ReadTaskFails,
   AskView, JudgeViews, ReadRow, EditCard, SendCard, React, ReactFails

-----------------------------------------------------------------------------
(* A task whose deletion was delivered has no card to act on, and nothing  *)
(* under way gives it one: whatever is delivered later finds it nowhere.   *)
Revoked(t) == row[t].deleted \/ row[t].msg = NoMsg

Harmless(w) == /\ hook.mode = "filtered" /\ Nowhere(w)
               /\ pc[w] \in {"hook", "views", "row", "close"}

GoneDone(t) == \E i \in DOMAIN event : /\ event[i].kind = "delete" /\ event[i].task = t
                                       /\ status[i] = "done"

DeletionInv ==
  InOrder =>
    /\ \A t \in Tasks : GoneDone(t) =>
         /\ Revoked(t)
         /\ \A w \in Workers : Serving(w, t) => Harmless(w)
    /\ \A w \in Workers : At(w, "close") /\ Mine(w).kind = "delete" => Revoked(Mine(w).task)

(* A delivery that finds its task nowhere goes on to be of no harm.        *)
LEMMA HarmlessLasts ==
  ASSUME OneWorker, DeliveryInv, CardInv, HistoryInv, NEW w \in Workers, Works(w), Harmless(w),
         NEW t, t = Mine(w).task, ~vik[t].exists, Revoked(t), ~IgnoreExpired(w)
  PROVE  Harmless(w)' /\ row' = row
<1> DEFINE Calm == {"hook", "views", "row", "close"}
<1>0. /\ pc \in [Workers -> Places] /\ job[w] \in Job /\ job \in [Workers -> Job]
      /\ Mine(w) \in Payload /\ t \in Tasks /\ hook' = hook
      /\ pc[w] \in Calm /\ hook.mode = "filtered"
      /\ vik[t].in = {}
  BY WorkKeeps DEF DeliveryInv, WorkerPart, Harmless, HistoryInv
<1>1. ReadHook(w) \/ IgnoreInactive(w) \/ (\E v \in Views : AskView(w, v)) \/ JudgeViews(w)
      \/ ReadRow(w)
  BY <1>0 DEF Works, ReadTask, ReadTaskFails, EditCard, SendCard, SaveRow, React, ReactFails,
     MarkRow, At
<1>2. row' = row
  BY <1>1 DEF ReadHook, IgnoreInactive, AskView, JudgeViews, ReadRow
<1>3. pc'[w] \in Calm
  <2>1. CASE ReadHook(w)
    <3>1. FirstRead(w) \in Calm
      BY <1>0 DEF FirstRead
    <3> QED
      BY <1>0, <2>1, <3>1 DEF ReadHook, Go
  <2>2. CASE IgnoreInactive(w) \/ JudgeViews(w)
    BY <1>0, <2>2 DEF IgnoreInactive, JudgeViews, Go
  <2>3. CASE \E v \in Views : AskView(w, v)
    BY <1>0, <2>3 DEF AskView
  <2>4. CASE ReadRow(w)
    <3>1. Path(w) # "live"
      BY <1>0 DEF Path, Harmless
    <3>2. Stops(w, row[t])
      BY <3>1 DEF Stops, Revoked
    <3> QED
      BY <1>0, <2>4, <3>2 DEF ReadRow, Go
  <2> QED
    BY <1>1, <2>1, <2>2, <2>3, <2>4
<1>4. Nowhere(w)'
  <2>1. CASE job'[w].answers = job[w].answers
    BY <2>1 DEF Harmless, Nowhere, Answered
  <2>2. ASSUME NEW v \in Views, AskView(w, v) PROVE Nowhere(w)'
    <3>1. PICK answer \in {Reply("hit", vik[t].snap), Reply("absent", Blank),
                           Reply("failed", Blank)} :
            /\ answer.kind = "hit" => v \in vik[t].in
            /\ job' = [job EXCEPT ![w].answers[v] = answer]
      BY <2>2 DEF AskView
    <3>2. job'[w].answers = [job[w].answers EXCEPT ![v] = answer]
          /\ job[w].answers \in [Views -> Answer]
      BY <1>0, <3>1 DEF Job
    <3>3. answer.kind # "hit"
      BY <1>0, <3>1
    <3>4. \A u \in Views : job'[w].answers[u].kind # "hit"
      BY <3>2, <3>3 DEF Harmless, Nowhere, Answered
    <3> QED
      BY <3>4 DEF Nowhere, Answered
  <2> QED
    BY <2>1, <2>2, WorkRemembers
<1> QED
  BY <1>0, <1>2, <1>3, <1>4 DEF Harmless

(* Until then, the delivery of a deletion closes over a revoked mapping.   *)
LEMMA DeletionCloses ==
  ASSUME OneWorker, DeliveryInv, CardInv, HistoryInv, NEW w \in Workers, Works(w),
         InOrder, ~IgnoreExpired(w), At(w, "close")', Mine(w).kind = "delete"
  PROVE  Revoked(Mine(w).task)'
<1> DEFINE t == Mine(w).task
<1>0. /\ pc \in [Workers -> Places] /\ t \in Tasks /\ row \in [Tasks -> Mapping]
      /\ pc'[w] = "close" /\ Path(w) = "deleted" /\ hook.active
  BY WorkKeeps DEF DeliveryInv, WorkerPart, CardPart, At, Path, HistoryInv, InOrder, NothingDropped
<1>1. ReadRow(w) \/ MarkRow(w)
  BY <1>0 DEF Works, ReadHook, FirstRead, IgnoreInactive, ReadTask, ReadTaskFails, AskView, JudgeViews,
     EditCard, SendCard, SaveRow, React, ReactFails, At, Go, CardInv, Knows
<1>2. CASE ReadRow(w)
  <2>1. Stops(w, row[t]) /\ row' = row
    BY <1>0, <1>2 DEF ReadRow, Go
  <2> QED
    BY <1>0, <1>2, <2>1, WorkKeeps DEF Stops, Revoked
<1>3. CASE MarkRow(w)
  <2>1. row' = [row EXCEPT ![t] = Marked(w, row[t])]
    BY <1>3 DEF MarkRow
  <2>2. row'[t].deleted
    BY <1>0, <2>1 DEF Marked, Mapping
  <2> QED
    BY <2>2, WorkKeeps DEF Revoked
<1> QED
  BY <1>1, <1>2, <1>3

LEMMA DeletionKept ==
  ASSUME OneWorker, DeliveryInv, CardInv, HeldInv, OrderInv, HistoryInv, DeletionInv, [Next]_vars
  PROVE  DeletionInv'
<1> SUFFICES ASSUME InOrder' PROVE DeletionInv'
  BY DEF DeletionInv
<1>0. /\ InOrder /\ ~SwitchHook /\ ~\E w \in Workers : IgnoreExpired(w)
      /\ hook'.mode = hook.mode
      /\ hook.mode # "filtered" => faults = MaxFaults
  BY OrderLasts DEF InOrder
<1>1. /\ \A t \in Tasks : GoneDone(t) =>
           /\ Revoked(t)
           /\ \A w \in Workers : Serving(w, t) => Harmless(w)
      /\ \A w \in Workers : At(w, "close") /\ Mine(w).kind = "delete" => Revoked(Mine(w).task)
  BY <1>0 DEF DeletionInv
<1>2. CASE UNCHANGED <<QueueVars, event, row, pc, job>>
  BY <1>0, <1>1, <1>2 DEF DeletionInv, GoneDone, Revoked, Serving, Harmless, Nowhere, Answered, At, Mine,
     QueueVars
<1>3. ASSUME NEW t \in Tasks, NEW payload \in Payload, Tells(t, payload)
      PROVE  DeletionInv'
  <2>1. \A u \in Tasks : GoneDone(u)' => GoneDone(u)
    <3>1. PICK n \in Ids : /\ DOMAIN event' = DOMAIN event \cup {n} /\ n = Len(event) + 1
                           /\ status' = [status EXCEPT ![n] = "fresh"]
                           /\ \A i \in DOMAIN event : event'[i] = event[i]
      BY <1>3 DEF Tells
    <3>2. \A i \in DOMAIN event' : status'[i] = "done" => i \in DOMAIN event /\ status[i] = "done"
      BY <3>1, QueueTyped, EventDomain
    <3> QED
      BY <3>1, <3>2 DEF GoneDone
  <2>2. UNCHANGED <<row, pc, hook>>
    BY <1>3 DEF Tells, deliveryVars
  <2> QED
    BY <1>1, <1>3, <2>1, <2>2, TellsLeaves DEF DeletionInv, Revoked, Harmless, At
<1>4. ASSUME NEW w \in Workers, Start(w) PROVE DeletionInv'
  <2>1. /\ pc[w] = "idle" /\ held[w] = NoEvent /\ pc' = [pc EXCEPT ![w] = "hook"]
        /\ UNCHANGED <<event, row>>
    BY <1>4, StartShape
  <2>2. PICK k \in DOMAIN event :
          /\ k \in Ids /\ status[k] \in {"fresh", "waiting"}
          /\ status' = [status EXCEPT ![k] = "held"] /\ held' = [held EXCEPT ![w] = k]
          /\ job' = [job EXCEPT ![w] = NewJob(event[k].snap)]
    BY <1>4, StartShape
  <2>3. \A u \in Tasks : GoneDone(u)' => GoneDone(u)
    BY <2>1, <2>2, QueueTyped, EventDomain DEF GoneDone
  <2>4. /\ pc'[w] = "hook" /\ held'[w] = k /\ job'[w] = NewJob(event[k].snap)
        /\ Mine(w)' = event[k]
    BY <2>1, <2>2, QueueTyped DEF DeliveryInv, WorkerPart, Mine
  <2>5. Nowhere(w)'
    BY <2>4 DEF Nowhere, Answered, NewJob, Unasked, Reply
  <2>6. ASSUME GoneDone(event[k].task) PROVE hook.mode = "filtered"
    <3> SUFFICES ASSUME faults = MaxFaults PROVE FALSE
      BY <1>0
    <3>1. PICK i \in DOMAIN event : /\ event[i].kind = "delete" /\ event[i].task = event[k].task
                                    /\ status[i] = "done"
      BY <2>6 DEF GoneDone
    <3>2. k < i
      BY <2>2, <3>1, EventDomain DEF HistoryInv, LastOf, Ids
    <3> QED
      BY <2>2, <3>1, <3>2, EventDomain DEF OrderInv
  <2>7. \A u \in Workers : u = w
    BY DEF OneWorker
  <2> QED
    BY <1>0, <1>1, <2>1, <2>3, <2>4, <2>5, <2>6, <2>7 DEF DeletionInv, Revoked, Harmless, At, Serving
<1>5. ASSUME NEW w \in Workers, Ends(w) PROVE DeletionInv'
  <2>1. /\ held[w] \in Ids /\ UNCHANGED <<event, row>> /\ pc' = [pc EXCEPT ![w] = "idle"]
        /\ held[w] \in DOMAIN event
    BY <1>5, EndShape, MineTyped, EventDomain DEF Ids
  <2>2. PICK outcome \in {"done", "waiting"} :
          /\ status' = [status EXCEPT ![held[w]] = outcome]
          /\ outcome = "done" => Close(w)
    BY <1>5, EndShape
  <2>3. pc'[w] = "idle" /\ \A u \in Workers : u = w
    BY <2>1 DEF OneWorker, DeliveryInv, WorkerPart
  <2>4. ASSUME NEW t \in Tasks, GoneDone(t)' PROVE Revoked(t)
    <3>1. PICK i \in DOMAIN event : /\ event[i].kind = "delete" /\ event[i].task = t
                                    /\ status'[i] = "done"
      BY <2>1, <2>4 DEF GoneDone
    <3>2. CASE i = held[w]
      <4>1. At(w, "close") /\ Mine(w) = event[i]
        BY <2>1, <2>2, <3>1, <3>2, QueueTyped DEF Close, Mine
      <4> QED
        BY <1>1, <3>1, <4>1
    <3>3. CASE i # held[w]
      <4>1. status[i] = "done"
        BY <2>1, <2>2, <3>1, <3>3, QueueTyped, EventDomain
      <4> QED
        BY <1>1, <3>1, <4>1 DEF GoneDone
    <3> QED
      BY <3>2, <3>3
  <2> QED
    BY <2>1, <2>3, <2>4 DEF DeletionInv, Revoked, Serving, At
<1>6. ASSUME NEW w \in Workers, Works(w) PROVE DeletionInv'
  <2>1. /\ UNCHANGED <<QueueVars, event>> /\ pc[w] # "idle" /\ pc'[w] # "idle"
        /\ Mine(w)' = Mine(w) /\ Mine(w).task \in Tasks /\ \A u \in Workers : u = w
    BY <1>6, WorkKeeps DEF OneWorker
  <2>2. \A t \in Tasks : GoneDone(t)' = GoneDone(t) /\ Serving(w, t)' = Serving(w, t)
    BY <2>1 DEF GoneDone, Serving, QueueVars
  <2>3. CASE GoneDone(Mine(w).task)
    <3>1. ~vik[Mine(w).task].exists
      BY <2>3 DEF GoneDone, HistoryInv
    <3>2. Harmless(w)' /\ row' = row
      BY <1>0, <1>1, <1>6, <2>1, <2>3, <3>1, HarmlessLasts DEF Serving
    <3> QED
      BY <1>1, <2>1, <2>2, <2>3, <3>2 DEF DeletionInv, Revoked
  <2>4. CASE ~GoneDone(Mine(w).task)
    <3>1. ASSUME NEW t \in Tasks, GoneDone(t) PROVE Revoked(t)' /\ ~Serving(w, t)
      BY <1>1, <1>6, <2>4, <3>1, OtherMappings DEF Revoked, Serving
    <3>2. At(w, "close")' /\ Mine(w).kind = "delete" => Revoked(Mine(w).task)'
      BY <1>0, <1>6, DeletionCloses
    <3> QED
      BY <2>1, <2>2, <3>1, <3>2 DEF DeletionInv, Revoked
  <2> QED
    BY <2>3, <2>4
<1>7. ASSUME NEW m \in DOMAIN chat, Loses(m)
      PROVE  UNCHANGED <<QueueVars, event, row, pc, job>>
  BY <1>7 DEF Loses, RemoveCard, FixCard
<1>8. Rests => UNCHANGED <<QueueVars, event, row, pc, job>>
  BY DEF Rests
<1> QED
  BY <1>0, <1>2, <1>3, <1>4, <1>5, <1>6, <1>7, <1>8, Steps

-----------------------------------------------------------------------------
(* What a delivery does to the cards already there. *)
LEMMA CardsTouched ==
  ASSUME OneWorker, DeliveryInv, CardInv, NEW w \in Workers, Works(w), NEW m \in DOMAIN chat
  PROVE  \/ chat'[m] = chat[m]
         \/ EditCard(w) /\ m = job[w].target /\ chat'[m] = Edited(w, chat[m])
         \/ React(w) /\ m = job[w].target
              /\ chat'[m] = [chat[m] EXCEPT !.tick = Path(w) = "live" /\ job[w].task.done]
<1>0. chat \in Seq(Card) /\ Len(chat) \in Nat /\ DOMAIN chat = 1 .. Len(chat)
      /\ chat = [k \in DOMAIN chat |-> chat[k]]
  BY ChatLength DEF DeliveryInv, CardPart
<1>1. CASE EditCard(w)
  BY <1>0, <1>1 DEF EditCard
<1>2. CASE React(w)
  BY <1>0, <1>2 DEF React
<1>3. CASE SendCard(w)
  <2> DEFINE card == [task |-> Mine(w).task, face |-> "live", snap |-> job[w].task,
                      tick |-> FALSE, shown |-> TRUE, fixed |-> FALSE]
  <2>1. card \in Card
    BY WorkKeeps, JobTyped DEF Card, Faces
  <2>2. chat' = Append(chat, card)
    BY <1>3 DEF SendCard
  <2> HIDE DEF card
  <2> QED
    BY <1>0, <2>1, <2>2, AppendProperties
<1>4. CASE UNCHANGED chat
  BY <1>4
<1> QED
  BY <1>1, <1>2, <1>3, <1>4 DEF Works, ReadHook, IgnoreInactive, IgnoreExpired, ReadTask, ReadTaskFails,
     AskView, JudgeViews, ReadRow, SaveRow, ReactFails, MarkRow

(* Only the card of the delivery's own task is edited. *)
LEMMA OtherCards ==
  ASSUME OneWorker, DeliveryInv, CardInv, NEW w \in Workers, Works(w),
         NEW t \in Tasks, t # Mine(w).task, row[t].msg # NoMsg
  PROVE  /\ chat'[row[t].msg].face = chat[row[t].msg].face
         /\ chat'[row[t].msg].snap = chat[row[t].msg].snap
         /\ chat'[row[t].msg].shown = chat[row[t].msg].shown
         /\ \/ chat'[row[t].msg].tick = chat[row[t].msg].tick
            \/ React(w) /\ Path(w) = "live" /\ row[t].msg = job[w].target
<1> DEFINE m == row[t].msg
<1>1. m \in DOMAIN chat /\ chat[m] \in Card /\ chat[m].task = t
  BY MessageIds, ElementOfSeq, ChatLength DEF CardInv, MapsOwn, DeliveryInv, CardPart
<1>2. EditCard(w) \/ (React(w) /\ Path(w) # "live") => m # job[w].target
  BY <1>1, WorkKeeps DEF EditCard, React, At, CardInv, Knows, Changing, Revoking, MapsOwn
<1>3. \/ chat'[m] = chat[m]
      \/ React(w) /\ Path(w) = "live" /\ m = job[w].target
           /\ chat'[m] = [chat[m] EXCEPT !.tick = Path(w) = "live" /\ job[w].task.done]
  BY <1>1, <1>2, CardsTouched
<1> QED
  BY <1>1, <1>3 DEF Card

-----------------------------------------------------------------------------
(* A task of which nothing is left to be delivered: its card shows it, or  *)
(* the delivery under way is about to make it so.                          *)
Owed(t) == \E i \in DOMAIN event : /\ event[i].task = t /\ Bears(i)
                                   /\ status[i] \in {"fresh", "waiting"}
Told(t) == vik[t].exists /\ ~Owed(t) /\ Announced(t)

Hidden(t) == hook.mode = "filtered" /\ vik[t].in = {}

Shows(m, snap) == chat[m].shown => chat[m].face = "live" /\ chat[m].snap = snap

Converged(t) ==
  IF Hidden(t) THEN row[t].msg = NoMsg \/ row[t].filtered
  ELSE /\ row[t].msg # NoMsg /\ ~row[t].filtered /\ row[t].snap = vik[t].snap
       /\ Shows(row[t].msg, vik[t].snap)

TrueAnswer(answer, v, t) ==
  /\ answer.kind = "hit" => v \in vik[t].in /\ answer.snap = vik[t].snap
  /\ answer.kind = "absent" => v \notin vik[t].in

(* The delivery under way is one that can change what the card says.       *)
Informs(w, t) == Serving(w, t) /\ ~Dropped(w)

(* Places at which it is decided what the card is to say. *)
Decided == {"row", "edit", "send", "save", "react", "mark"}

Decides(w, t) == /\ (Path(w) = "live") = ~Hidden(t)
                 /\ Path(w) = "live" => job[w].task = vik[t].snap

OnCourse(w, t) ==
  /\ \A v \in Views : TrueAnswer(job[w].answers[v], v, t)
  /\ pc[w] = "views" => hook.mode = "filtered"
  /\ pc[w] = "task" => hook.mode # "filtered"
  /\ pc[w] = "hook" /\ hook.mode \in {"alone", "embedded"} /\ Mine(w).kind = "update" =>
       job[w].task = vik[t].snap
  /\ pc[w] \in Decided => Decides(w, t)
  /\ pc[w] = "save" => Shows(job[w].target, vik[t].snap)
  /\ pc[w] = "close" \/ (pc[w] = "react" /\ Path(w) = "live") => Converged(t)

ConvInv ==
  InOrder => \A t \in Tasks : Told(t) =>
    /\ \A w \in Workers : Informs(w, t) => OnCourse(w, t)
    /\ (\A w \in Workers : ~Informs(w, t)) => Converged(t)

(* The first steps: what the task is found to be. *)
LEMMA LookingOnCourse ==
  ASSUME OneWorker, DeliveryInv, HistoryInv, InOrder', NEW w \in Workers, Works(w),
         NEW t \in Tasks, t = Mine(w).task, Told(t), OnCourse(w, t),
         \/ ReadHook(w) \/ IgnoreInactive(w) \/ IgnoreExpired(w) \/ ReadTask(w) \/ ReadTaskFails(w)
         \/ (\E v \in Views : AskView(w, v)) \/ JudgeViews(w),
         InOrder, ~IgnoreExpired(w), ~Dropped(w)
  PROVE  OnCourse(w, t)'
<1>0. /\ pc \in [Workers -> Places] /\ job[w] \in Job /\ job \in [Workers -> Job]
      /\ job[w].answers \in [Views -> Answer]
      /\ Mine(w) \in Payload /\ Mine(w)' = Mine(w) /\ Mine(w).kind \in {"update", "comment"}
      /\ hook.active /\ hook' = hook /\ vik' = vik /\ vik[t].in \subseteq Views
      /\ hook.mode \in {"alone", "embedded", "fresh", "filtered"}
      /\ UNCHANGED <<row, chat, held>>
      /\ hook.mode # "filtered" => faults' = MaxFaults /\ faults = MaxFaults
  <2>1. Mine(w).kind # "delete"
    <3>1. held[w] \in DOMAIN event
      BY WorkKeeps, MineTyped, EventDomain DEF Ids
    <3> QED
      BY <3>1 DEF HistoryInv, Told, Mine
  <2>2. Mine(w).kind \in {"update", "comment", "delete"}
    BY WorkKeeps DEF Payload, Kinds
  <2>3. hook.mode \in {"alone", "embedded", "fresh", "filtered"} /\ vik[t].in \subseteq Views
    BY DeliveryConstants DEF DeliveryInv, Hook, Modes, Task
  <2>4. UNCHANGED <<row, chat, held>>
    BY DEF ReadHook, IgnoreInactive, IgnoreExpired, ReadTask, ReadTaskFails, AskView, JudgeViews, QueueVars
  <2> QED
    BY <2>1, <2>2, <2>3, <2>4, WorkKeeps, JobTyped DEF DeliveryInv, WorkerPart, HistoryInv, InOrder,
       NothingDropped
<1>1. \A v \in Views : TrueAnswer(job[w].answers[v], v, t)
  BY DEF OnCourse
<1>2. CASE ReadHook(w)
  <2>1. pc'[w] = FirstRead(w) /\ job' = job /\ Nowhere(w)' = Nowhere(w) /\ pc[w] = "hook"
    BY <1>0, <1>2 DEF ReadHook, Go, Nowhere, Answered, At
  <2>2. /\ FirstRead(w) \in {"row", "task", "views"}
        /\ FirstRead(w) = "row" =>
             hook.mode \in {"alone", "embedded"} /\ Mine(w).kind = "update"
        /\ FirstRead(w) = "task" => hook.mode # "filtered"
        /\ FirstRead(w) = "views" => hook.mode = "filtered"
    BY <1>0, WorkKeeps DEF FirstRead, Dropped
  <2>3. FirstRead(w) = "row" => job[w].task = vik[t].snap
    BY <2>1, <2>2 DEF OnCourse
  <2> QED
    BY <1>0, <1>1, <2>1, <2>2, <2>3 DEF OnCourse, TrueAnswer, Decides, Decided, Path, Hidden
<1>3. CASE ReadTask(w)
  <2>1. /\ job' = [job EXCEPT ![w].task = vik[t].snap] /\ pc'[w] = "row" /\ pc[w] = "task"
    BY <1>0, <1>3 DEF ReadTask, Go, At
  <2>2. job'[w].task = vik[t].snap /\ job'[w].answers = job[w].answers
    BY <1>0, <2>1 DEF Job
  <2>3. hook.mode # "filtered"
    BY <2>1 DEF OnCourse
  <2> QED
    BY <1>0, <1>1, <2>1, <2>2, <2>3 DEF OnCourse, TrueAnswer, Decides, Decided, Path, Hidden
<1>4. CASE ReadTaskFails(w)
  <2>1. hook.mode # "filtered" /\ Fault
    BY <1>4 DEF OnCourse, ReadTaskFails, At, Told
  <2> QED
    BY <1>0, <2>1, DeliveryConstants DEF Fault
<1>5. ASSUME NEW v \in Views, AskView(w, v) PROVE OnCourse(w, t)'
  <2>1. PICK answer \in {Reply("hit", vik[t].snap), Reply("absent", Blank),
                         Reply("failed", Blank)} :
          /\ answer.kind = "hit" => v \in vik[t].in
          /\ answer.kind = "absent" => v \notin vik[t].in
          /\ job' = [job EXCEPT ![w].answers[v] = answer]
    BY <1>5 DEF AskView
  <2>2. job'[w].answers = [job[w].answers EXCEPT ![v] = answer]
    BY <1>0, <2>1 DEF Job
  <2>3. TrueAnswer(answer, v, t)
    BY <2>1 DEF TrueAnswer, Reply
  <2>4. \A u \in Views : TrueAnswer(job'[w].answers[u], u, t)
    BY <1>0, <1>1, <2>2, <2>3
  <2>5. pc[w] = "views" /\ pc' = pc /\ hook.mode = "filtered"
    BY <1>5 DEF AskView, At, OnCourse
  <2> QED
    BY <1>0, <2>4, <2>5 DEF OnCourse, TrueAnswer, Decided
<1>6. CASE JudgeViews(w)
  <2>1. pc'[w] = "row" /\ pc[w] = "views" /\ hook.mode = "filtered" /\ Answered(w, "none") = {}
    BY <1>0, <1>6 DEF JudgeViews, Go, At, OnCourse
  <2>2. job'[w].answers = job[w].answers
    BY <1>0, <1>6 DEF JudgeViews, Job
  <2>3. Nowhere(w)' = Nowhere(w)
    BY <2>2 DEF Nowhere, Answered
  <2>4. CASE \E v \in Answered(w, "hit") : job' = [job EXCEPT ![w].task = job[w].answers[v].snap]
    <3>1. PICK v \in Views : /\ job[w].answers[v].kind = "hit"
                             /\ job' = [job EXCEPT ![w].task = job[w].answers[v].snap]
      BY <2>4 DEF Answered
    <3>2. v \in vik[t].in /\ job'[w].task = vik[t].snap
      BY <1>0, <1>1, <3>1 DEF TrueAnswer, Job
    <3>3. ~Nowhere(w)
      BY <3>1 DEF Nowhere, Answered
    <3> QED
      BY <1>0, <1>1, <2>1, <2>2, <2>3, <3>2, <3>3 DEF OnCourse, TrueAnswer, Decides, Decided, Path,
         Hidden
  <2>5. CASE Absent(w)
    <3>1. \A v \in Views : job[w].answers[v].kind \in {"none", "absent", "failed", "hit"}
      BY <1>0 DEF Answer
    <3>2. \A v \in Views : job[w].answers[v].kind = "absent"
      BY <2>1, <2>5, <3>1 DEF Absent, Answered
    <3>3. vik[t].in = {}
      BY <1>0, <1>1, <3>2 DEF TrueAnswer
    <3>4. Nowhere(w)
      BY <2>5 DEF Nowhere, Absent
    <3> QED
      BY <1>0, <1>1, <2>1, <2>2, <2>3, <3>3, <3>4 DEF OnCourse, TrueAnswer, Decides, Decided, Path,
         Hidden
  <2> QED
    BY <1>6, <2>4, <2>5 DEF JudgeViews
<1>7. ~IgnoreInactive(w)
  BY <1>0 DEF IgnoreInactive
<1> QED
  BY <1>2, <1>3, <1>4, <1>5, <1>6, <1>7

(* The last steps: the card is made to show what was found. *)
LEMMA WritingOnCourse ==
  ASSUME OneWorker, DeliveryInv, CardInv, HistoryInv, NEW w \in Workers, Works(w),
         NEW t \in Tasks, t = Mine(w).task, Told(t), OnCourse(w, t),
         \/ ReadRow(w) \/ EditCard(w) \/ SendCard(w) \/ SaveRow(w) \/ React(w) \/ ReactFails(w)
         \/ MarkRow(w)
  PROVE  OnCourse(w, t)'
<1> DEFINE m == job[w].target
<1>0. /\ pc \in [Workers -> Places] /\ job[w] \in Job /\ job \in [Workers -> Job]
      /\ row \in [Tasks -> Mapping] /\ row[t] \in Mapping
      /\ hook' = hook /\ vik' = vik /\ Mine(w)' = Mine(w) /\ Mine(w).kind # "delete"
      /\ ~row[t].deleted /\ pc[w] \in Decided
  <2>1. held[w] \in DOMAIN event
    BY WorkKeeps, MineTyped, EventDomain DEF Ids
  <2>2. Mine(w).kind # "delete"
    BY <2>1 DEF HistoryInv, Told, Mine
  <2>3. pc[w] \in Decided
    BY DEF ReadRow, EditCard, SendCard, SaveRow, React, ReactFails, MarkRow, At, Decided
  <2> QED
    BY <2>2, <2>3, WorkKeeps DEF DeliveryInv, WorkerPart, CardPart, HistoryInv, Told
<1>1. /\ \A v \in Views : TrueAnswer(job[w].answers[v], v, t)
      /\ Decides(w, t)
  BY <1>0 DEF OnCourse
<1>2. job'[w].answers = job[w].answers /\ job'[w].task = job[w].task
  <2>1. CASE ReadRow(w)
    BY <1>0, <2>1 DEF ReadRow
  <2>2. CASE SendCard(w)
    BY <1>0, <2>2 DEF SendCard, Job
  <2>3. CASE UNCHANGED job
    BY <2>3
  <2> QED
    BY <2>1, <2>2, <2>3 DEF EditCard, SaveRow, React, ReactFails, MarkRow
<1>3. /\ \A v \in Views : TrueAnswer(job[w].answers[v], v, t)'
      /\ Decides(w, t)' /\ Path(w)' = Path(w) /\ Hidden(t)' = Hidden(t)
      /\ Hidden(t) => Path(w) = "filtered"
  <2>1. Nowhere(w)' = Nowhere(w)
    BY <1>2 DEF Nowhere, Answered
  <2>2. Path(w)' = Path(w) /\ Hidden(t)' = Hidden(t)
    BY <1>0, <2>1 DEF Path, Hidden
  <2>3. Path(w) \in {"live", "filtered"}
    BY <1>0 DEF Path
  <2> QED
    BY <1>0, <1>1, <1>2, <2>2, <2>3 DEF Decides, TrueAnswer
<1>4. SUFFICES /\ pc'[w] \in {"edit", "send", "save", "react", "mark", "close"}
               /\ pc'[w] = "save" => Shows(job[w].target, vik[t].snap)'
               /\ pc'[w] = "close" \/ (pc'[w] = "react" /\ Path(w) = "live") => Converged(t)'
  BY <1>0, <1>3 DEF OnCourse
<1>5. CASE ReadRow(w)
  <2>1. /\ pc'[w] = IF Stops(w, row[t]) THEN "close" ELSE IF HasCard(row[t]) THEN "edit" ELSE "send"
        /\ UNCHANGED row
    BY <1>0, <1>5 DEF ReadRow, Go
  <2>2. Stops(w, row[t]) => Path(w) = "filtered" /\ (row[t].filtered \/ row[t].msg = NoMsg)
    BY <1>0 DEF Stops, Path
  <2>3. Stops(w, row[t]) => Hidden(t)
    BY <1>1, <2>2 DEF Decides
  <2> QED
    BY <1>3, <2>1, <2>2, <2>3 DEF Converged
<1>6. CASE EditCard(w)
  <2>1. /\ pc'[w] = IF Path(w) = "live" THEN IF Editable(m) THEN "save" ELSE "send"
                    ELSE IF job[w].found.snap.done THEN "react" ELSE "mark"
        /\ job' = job
        /\ IF Editable(m) THEN chat' = [chat EXCEPT ![m] = Edited(w, chat[m])]
                          ELSE UNCHANGED chat
    BY <1>0, <1>6 DEF EditCard, Go
  <2>2. m \in DOMAIN chat
    BY <1>6, MessageIds DEF EditCard, At, CardInv, Knows
  <2>3. pc'[w] = "save" => chat'[m].face = "live" /\ chat'[m].snap = vik[t].snap
    BY <1>1, <2>1, <2>2 DEF Edited, Text, Decides
  <2> QED
    BY <1>0, <2>1, <2>3 DEF Shows
<1>7. CASE SendCard(w)
  <2> DEFINE card == [task |-> t, face |-> "live", snap |-> job[w].task,
                      tick |-> FALSE, shown |-> TRUE, fixed |-> FALSE]
  <2>1. pc'[w] = "save" /\ chat' = Append(chat, card) /\ job'[w].target = Len(chat) + 1
        /\ Path(w) = "live"
    BY <1>0, <1>7 DEF SendCard, Go, Job, At, CardInv, Knows
  <2>2. card \in Card
    BY JobTyped DEF Card, Faces
  <2>3. card.face = "live" /\ card.snap = vik[t].snap
    BY <1>1, <2>1 DEF Decides
  <2> HIDE DEF card
  <2>4. chat'[Len(chat) + 1] = card
    BY <2>1, <2>2, AppendProperties DEF DeliveryInv, CardPart
  <2> QED
    BY <1>0, <2>1, <2>3, <2>4 DEF Shows
<1>8. CASE SaveRow(w)
  <2>1. /\ row' = [row EXCEPT ![t] = Saved(w, row[t])] /\ pc'[w] \in {"react", "close"}
        /\ UNCHANGED chat
    BY <1>0, <1>8 DEF SaveRow, Go
  <2>2. row'[t] = Live(m, job[w].task)
    BY <1>0, <2>1 DEF Saved
  <2>3. Path(w) = "live" /\ m # NoMsg /\ Shows(m, vik[t].snap)
    BY <1>8 DEF SaveRow, At, CardInv, Knows, OnCourse
  <2>4. ~Hidden(t) /\ job[w].task = vik[t].snap
    BY <1>1, <2>3 DEF Decides
  <2>5. Converged(t)'
    BY <1>0, <1>3, <2>1, <2>2, <2>3, <2>4 DEF Converged, Live, Shows
  <2> QED
    BY <2>1, <2>5
<1>9. CASE React(w) \/ ReactFails(w)
  <2>1. pc'[w] = (IF Path(w) = "live" THEN "close" ELSE "mark") /\ pc[w] = "react" /\ row' = row
    BY <1>0, <1>9 DEF React, ReactFails, Go, At
  <2> SUFFICES ASSUME Path(w) = "live" PROVE Converged(t)'
    BY <2>1
  <2>2. ~Hidden(t) /\ Converged(t)
    BY <1>1, <2>1 DEF OnCourse, Decides
  <2>3. row[t].msg \in DOMAIN chat
    BY <2>2, MessageIds DEF Converged
  <2>4. chat[row[t].msg] \in Card
    BY <2>3, ElementOfSeq, ChatLength DEF DeliveryInv, CardPart
  <2>5. ~EditCard(w)
    BY <2>1 DEF EditCard, At
  <2>6. /\ chat'[row[t].msg].face = chat[row[t].msg].face
        /\ chat'[row[t].msg].snap = chat[row[t].msg].snap
        /\ chat'[row[t].msg].shown = chat[row[t].msg].shown
    <3>1. \/ chat'[row[t].msg] = chat[row[t].msg]
          \/ chat'[row[t].msg]
               = [chat[row[t].msg] EXCEPT !.tick = Path(w) = "live" /\ job[w].task.done]
      BY <2>3, <2>5, CardsTouched
    <3> QED
      BY <2>4, <3>1 DEF Card
  <2> QED
    BY <1>0, <1>3, <2>1, <2>2, <2>6 DEF Converged, Shows
<1>10. CASE MarkRow(w)
  <2>1. row' = [row EXCEPT ![t] = Marked(w, row[t])] /\ pc'[w] = "close" /\ Path(w) # "live"
    BY <1>0, <1>10 DEF MarkRow, Go, At, CardInv, Knows, Revoking
  <2>2. Hidden(t) /\ Path(w) = "filtered"
    BY <1>1, <1>3, <2>1 DEF Decides
  <2>3. row'[t].filtered
    BY <1>0, <2>1, <2>2 DEF Marked, Mapping
  <2> QED
    BY <1>3, <2>1, <2>2, <2>3 DEF Converged
<1> QED
  BY <1>5, <1>6, <1>7, <1>8, <1>9, <1>10

(* A task that nobody is serving is shown as it is, and stays so while     *)
(* others are served.                                                      *)
LEMMA OthersStay ==
  ASSUME OneWorker, DeliveryInv, CardInv, NEW w \in Workers, Works(w),
         NEW t \in Tasks, t # Mine(w).task, Converged(t)
  PROVE  Converged(t)'
<1>1. row'[t] = row[t] /\ vik' = vik /\ hook' = hook
  BY OtherMappings, WorkKeeps
<1>2. ASSUME row[t].msg # NoMsg
      PROVE  /\ chat'[row[t].msg].face = chat[row[t].msg].face
             /\ chat'[row[t].msg].snap = chat[row[t].msg].snap
             /\ chat'[row[t].msg].shown = chat[row[t].msg].shown
  BY <1>2, OtherCards
<1> QED
  BY <1>1, <1>2 DEF Converged, Shows, Hidden

LEMMA RemovalStays ==
  ASSUME DeliveryInv, NEW m \in DOMAIN chat, Loses(m)
  PROVE  /\ UNCHANGED <<QueueVars, vik, event, hook, row, pc, job, faults>>
         /\ \A k \in DOMAIN chat :
              /\ chat'[k].face = chat[k].face /\ chat'[k].snap = chat[k].snap
              /\ chat'[k].tick = chat[k].tick
              /\ chat'[k].shown => chat[k].shown
<1>1. \A k \in DOMAIN chat : chat[k] \in Card
  BY ElementOfSeq, ChatLength DEF DeliveryInv, CardPart
<1>2. /\ UNCHANGED <<QueueVars, vik, event, hook, row, pc, job, faults>>
      /\ \/ chat' = [chat EXCEPT ![m].shown = FALSE]
         \/ chat' = [chat EXCEPT ![m].fixed = TRUE]
  BY DEF Loses, RemoveCard, FixCard
<1>3. \A k \in DOMAIN chat :
        \/ chat'[k] = chat[k]
        \/ chat'[k] = [chat[k] EXCEPT !.shown = FALSE]
        \/ chat'[k] = [chat[k] EXCEPT !.fixed = TRUE]
  BY <1>2 DEF DeliveryInv, CardPart
<1> QED
  BY <1>1, <1>2, <1>3 DEF Card

LEMMA ConvKept ==
  ASSUME OneWorker, DeliveryInv, CardInv, HeldInv, OrderInv, HistoryInv, ConvInv, [Next]_vars
  PROVE  ConvInv'
<1> SUFFICES ASSUME InOrder' PROVE ConvInv'
  BY DEF ConvInv
<1>0. /\ InOrder /\ ~SwitchHook /\ ~\E w \in Workers : IgnoreExpired(w)
      /\ hook'.mode = hook.mode
      /\ hook.mode # "filtered" => faults = MaxFaults
  BY OrderLasts DEF InOrder
<1>1. \A t \in Tasks : Told(t) =>
        /\ \A w \in Workers : Informs(w, t) => OnCourse(w, t)
        /\ (\A w \in Workers : ~Informs(w, t)) => Converged(t)
  BY <1>0 DEF ConvInv
<1>2. CASE Rests
  <2>1. UNCHANGED <<status, held, vik, event, hook, row, chat, pc, job>>
    BY <1>2 DEF Rests, QueueVars
  <2>2. \A t : Told(t)' = Told(t) /\ Converged(t)' = Converged(t)
    BY <2>1 DEF Told, Owed, Bears, Announced, Converged, Hidden, Shows
  <2>3. \A w, t : Informs(w, t)' = Informs(w, t) /\ OnCourse(w, t)' = OnCourse(w, t)
    BY <2>1 DEF Informs, Dropped, Serving, Mine, OnCourse, TrueAnswer, Decides, Path, Nowhere, Answered, Hidden, Converged,
       Shows
  <2> QED
    BY <1>1, <2>2, <2>3 DEF ConvInv
<1>3. ASSUME NEW m \in DOMAIN chat, Loses(m) PROVE ConvInv'
  <2>1. UNCHANGED <<status, held, vik, event, hook, row, pc, job>>
    BY <1>3 DEF Loses, RemoveCard, FixCard, QueueVars
  <2>2. \A k \in DOMAIN chat : \A snap : Shows(k, snap) => Shows(k, snap)'
    BY <1>3, RemovalStays DEF Shows
  <2>3. \A t : Told(t)' = Told(t)
    BY <2>1 DEF Told, Owed, Bears, Announced
  <2>4. \A t \in Tasks : Converged(t) => Converged(t)'
    BY <2>1, <2>2, MessageIds DEF Converged, Hidden
  <2>5. ASSUME NEW w \in Workers, NEW t \in Tasks, OnCourse(w, t) PROVE OnCourse(w, t)'
    <3>1. pc[w] = "save" => job[w].target \in DOMAIN chat
      BY MessageIds DEF CardInv, Knows, At
    <3>2. pc[w] = "save" => Shows(job[w].target, vik[t].snap)'
      BY <2>1, <2>2, <2>5, <3>1 DEF OnCourse
    <3>3. Path(w)' = Path(w) /\ Mine(w)' = Mine(w)
      BY <2>1 DEF Path, Mine, Nowhere, Answered
    <3> QED
      BY <2>1, <2>4, <2>5, <3>2, <3>3 DEF OnCourse, TrueAnswer, Decides, Hidden
  <2>6. \A w, t : Informs(w, t)' = Informs(w, t)
    BY <2>1 DEF Informs, Dropped, Serving, Mine
  <2> QED
    BY <1>1, <2>3, <2>4, <2>5, <2>6 DEF ConvInv
<1>4. ASSUME NEW u \in Tasks, NEW payload \in Payload, Tells(u, payload)
      PROVE  ConvInv'
  <2>1. /\ UNCHANGED <<held, hook, row, chat, pc, job>>
        /\ \A t \in Tasks \ {u} : vik'[t] = vik[t]
    BY <1>4 DEF Tells, deliveryVars
  <2>2. PICK n \in Ids : /\ n = Len(event) + 1 /\ DOMAIN event' = DOMAIN event \cup {n}
                         /\ status' = [status EXCEPT ![n] = "fresh"]
                         /\ event'[n] = payload /\ payload.task = u
                         /\ \A i \in DOMAIN event : event'[i] = event[i]
    BY <1>4 DEF Tells
  <2>3. status'[n] = "fresh" /\ n \notin DOMAIN event
        /\ \A i \in DOMAIN event : status'[i] = status[i]
    BY <2>2, QueueTyped, EventDomain
  <2>4. ASSUME NEW t \in Tasks, Told(t)' PROVE Told(t) /\ vik'[t] = vik[t]
    <3>1. CASE t # u
      BY <2>1, <2>2, <2>3, <2>4, <3>1 DEF Told, Owed, Bears, Announced
    <3>2. CASE t = u
      <4>1. ~Bears(n)'
        BY <2>2, <2>3, <2>4, <3>2 DEF Told, Owed
      <4>2. payload.kind = "comment" /\ hook.mode = "alone"
        BY <2>1, <2>2, <4>1 DEF Bears
      <4>3. vik' = vik
        BY <1>4, <4>2 DEF Tells
      <4> QED
        BY <2>1, <2>2, <2>3, <2>4, <4>2, <4>3 DEF Told, Owed, Bears, Announced
    <3> QED
      BY <3>1, <3>2
  <2>5. ASSUME NEW t \in Tasks, Told(t)'
        PROVE  Converged(t)' = Converged(t) /\ Hidden(t)' = Hidden(t)
    BY <2>1, <2>4, <2>5 DEF Converged, Hidden, Shows
  <2>6. \A w \in Workers, t \in Tasks : Informs(w, t)' = Informs(w, t)
    BY <1>4, <2>1, TellsLeaves DEF Informs, Dropped, Serving
  <2>7. ASSUME NEW w \in Workers, NEW t \in Tasks, Told(t)', Informs(w, t), OnCourse(w, t)
        PROVE  OnCourse(w, t)'
    <3>1. Mine(w)' = Mine(w) /\ Path(w)' = Path(w)
      BY <1>4, <2>7, TellsLeaves DEF Informs, Serving
    <3> QED
      BY <2>1, <2>4, <2>5, <2>7, <3>1 DEF OnCourse, TrueAnswer, Decides, Shows
  <2> QED
    BY <1>1, <2>4, <2>5, <2>6, <2>7 DEF ConvInv
<1>5. ASSUME NEW w \in Workers, Start(w) PROVE ConvInv'
  <2>1. /\ pc[w] = "idle" /\ held[w] = NoEvent /\ pc' = [pc EXCEPT ![w] = "hook"]
        /\ UNCHANGED <<vik, event, hook, row, chat>> /\ \A u \in Workers : u = w
    BY <1>5, StartShape DEF OneWorker
  <2>2. PICK k \in DOMAIN event :
          /\ k \in Ids /\ status[k] \in {"fresh", "waiting"}
          /\ status' = [status EXCEPT ![k] = "held"] /\ held' = [held EXCEPT ![w] = k]
          /\ job' = [job EXCEPT ![w] = NewJob(event[k].snap)]
    BY <1>5, StartShape
  <2>3. /\ pc'[w] = "hook" /\ Mine(w)' = event[k] /\ job'[w] = NewJob(event[k].snap)
    BY <2>1, <2>2, QueueTyped DEF DeliveryInv, WorkerPart, Mine
  <2>4. status'[k] = "held" /\ \A i \in Ids \ {k} : status'[i] = status[i]
    BY <2>2, QueueTyped
  <2>5. Dropped(w)' = ~Bears(k)
    BY <2>1, <2>3 DEF Dropped, Bears
  <2>6. ASSUME NEW t \in Tasks, t # event[k].task \/ ~Bears(k), Told(t)'
        PROVE  Converged(t)' /\ ~Informs(w, t)'
    <3>1. Told(t)
      BY <2>1, <2>4, <2>6, EventDomain DEF Told, Owed, Bears, Announced
    <3>2. Converged(t)
      BY <1>1, <2>1, <3>1 DEF Informs, Serving
    <3> QED
      BY <2>1, <2>3, <2>5, <2>6, <3>2 DEF Converged, Hidden, Shows, Informs, Serving
  <2>7. ASSUME NEW t \in Tasks, t = event[k].task, Bears(k), Told(t)'
        PROVE  Informs(w, t)' /\ OnCourse(w, t)'
    <3>1. Informs(w, t)'
      BY <2>3, <2>5, <2>7 DEF Informs, Serving
    <3>2. \A v \in Views : TrueAnswer(job[w].answers[v], v, t)'
      BY <2>3 DEF TrueAnswer, NewJob, Unasked, Reply
    <3>3. ASSUME hook.mode \in {"alone", "embedded"}, event[k].kind = "update"
          PROVE  event[k].snap = vik[t].snap
      <4>1. faults = MaxFaults
        BY <1>0, <3>3
      <4>2. ASSUME NEW j \in DOMAIN event, event[j].task = t, Bears(j), k < j PROVE FALSE
        <5>1. status[j] \notin {"fresh", "waiting"}
          BY <2>1, <2>4, <2>7, <4>2, EventDomain DEF Told, Owed, Bears
        <5>2. status[j] # "held"
          BY <2>1, <4>2, EventDomain, QueueTyped DEF HeldInv
        <5>3. status[j] = "done"
          BY <4>2, <5>1, <5>2, EventDomain, QueueTyped DEF Statuses
        <5> QED
          BY <2>2, <4>1, <4>2, <5>3, EventDomain DEF OrderInv
      <4>3. LastToBear(k)
        BY <2>7, <4>2, EventDomain DEF LastToBear
      <4>4. vik[t].exists
        BY <2>1, <2>7 DEF Told
      <4> QED
        BY <2>7, <3>3, <4>3, <4>4 DEF HistoryInv
    <3>4. /\ pc'[w] \notin Decided
          /\ job'[w].task = event[k].snap
      BY <2>3 DEF Decided, NewJob
    <3>5. OnCourse(w, t)'
      BY <2>1, <2>3, <3>2, <3>3, <3>4 DEF OnCourse
    <3> QED
      BY <3>1, <3>5
  <2> QED
    BY <2>1, <2>6, <2>7 DEF ConvInv
<1>6. ASSUME NEW w \in Workers, Ends(w) PROVE ConvInv'
  <2>1. /\ held[w] \in Ids /\ UNCHANGED <<vik, event, hook, row, chat>>
        /\ pc' = [pc EXCEPT ![w] = "idle"] /\ held[w] \in DOMAIN event /\ pc[w] # "idle"
        /\ \A u \in Workers : u = w
    BY <1>6, EndShape, MineTyped, EventDomain DEF Ids, OneWorker
  <2>2. PICK outcome \in {"done", "waiting"} :
          /\ status' = [status EXCEPT ![held[w]] = outcome]
          /\ outcome = "done" => Close(w)
    BY <1>6, EndShape
  <2>3. pc'[w] = "idle" /\ Mine(w) = event[held[w]]
    BY <2>1 DEF DeliveryInv, WorkerPart, Mine
  <2>4. status'[held[w]] = outcome /\ \A i \in Ids \ {held[w]} : status'[i] = status[i]
    BY <2>1, <2>2, QueueTyped
  <2>5. status[held[w]] = "held"
    BY <2>1, QueueTyped DEF HeldInv, HoldsIt
  <2>6. ASSUME NEW t \in Tasks, Told(t)' PROVE Converged(t)'
    <3>1. Told(t)
      BY <2>1, <2>4, <2>5, <2>6, EventDomain DEF Told, Owed, Bears, Announced
    <3>2. CASE Informs(w, t)
      <4>1. outcome = "done"
        BY <2>1, <2>3, <2>4, <2>6, <3>2 DEF Told, Owed, Bears, Informs, Dropped, Serving
      <4>2. Converged(t)
        BY <1>1, <2>2, <3>1, <3>2, <4>1 DEF Close, At, OnCourse
      <4> QED
        BY <2>1, <4>2 DEF Converged, Hidden, Shows
    <3>3. CASE ~Informs(w, t)
      <4>1. Converged(t)
        BY <1>1, <2>1, <3>1, <3>3
      <4> QED
        BY <2>1, <4>1 DEF Converged, Hidden, Shows
    <3> QED
      BY <3>2, <3>3
  <2> QED
    BY <2>1, <2>3, <2>6 DEF ConvInv, Informs, Serving
<1>7. ASSUME NEW w \in Workers, Works(w) PROVE ConvInv'
  <2>1. /\ UNCHANGED <<QueueVars, vik, event, hook>> /\ pc[w] # "idle" /\ pc'[w] # "idle"
        /\ Mine(w)' = Mine(w) /\ Mine(w).task \in Tasks /\ \A u \in Workers : u = w
    BY <1>7, WorkKeeps DEF OneWorker
  <2>2. \A t \in Tasks : Told(t)' = Told(t) /\ Informs(w, t)' = Informs(w, t)
    BY <2>1 DEF Told, Owed, Bears, Announced, Informs, Dropped, Serving, QueueVars
  <2>3. ASSUME NEW t \in Tasks, Told(t), Informs(w, t) PROVE OnCourse(w, t)'
    <3>1. OnCourse(w, t) /\ t = Mine(w).task /\ ~Dropped(w)
      BY <1>1, <2>3 DEF Informs, Serving
    <3> QED
      BY <1>0, <1>7, <2>3, <3>1, LookingOnCourse, WritingOnCourse DEF Works
  <2>4. ASSUME NEW t \in Tasks, Told(t), ~Informs(w, t) PROVE Converged(t)'
    <3>1. Converged(t)
      BY <1>1, <2>1, <2>4
    <3>2. CASE t # Mine(w).task
      BY <1>7, <3>1, <3>2, OthersStay
    <3>3. CASE t = Mine(w).task
      <4>1. Dropped(w)
        BY <2>1, <2>4, <3>3 DEF Informs, Serving
      <4>2. UNCHANGED <<row, chat>>
        BY <1>7, <4>1 DEF HistoryInv, Works, ReadHook, IgnoreInactive, IgnoreExpired, ReadTask,
           ReadTaskFails, AskView, JudgeViews, ReadRow, EditCard, SendCard, SaveRow, React,
           ReactFails, MarkRow, At
      <4> QED
        BY <2>1, <3>1, <4>2 DEF Converged, Hidden, Shows
    <3> QED
      BY <3>2, <3>3
  <2> QED
    BY <2>1, <2>2, <2>3, <2>4 DEF ConvInv
<1> QED
  BY <1>0, <1>2, <1>3, <1>4, <1>5, <1>6, <1>7, Steps

-----------------------------------------------------------------------------
(* The check mark: it agrees with the mapping, or the delivery under way   *)
(* is about to put it right.                                               *)
Ticked(t) == row[t].msg # NoMsg /\ ~row[t].deleted /\ chat[row[t].msg].shown =>
               chat[row[t].msg].tick = row[t].snap.done

TickInv ==
  faults = MaxFaults /\ hook.mode # "filtered" =>
    /\ \A t \in Tasks : Ticked(t) \/ \E w \in Workers : Serving(w, t) /\ pc[w] \in {"react", "mark"}
    /\ \A w \in Workers :
         /\ At(w, "save") /\ job[w].target # job[w].found.msg => ~chat[job[w].target].tick
         /\ At(w, "react") /\ Path(w) = "live" => /\ row[Mine(w).task].msg = job[w].target
                                                  /\ row[Mine(w).task].snap = job[w].task

LEMMA CardStays ==
  ASSUME OneWorker, DeliveryInv, CardInv, NEW w \in Workers, Works(w),
         NEW m \in DOMAIN chat, ~React(w)
  PROVE  chat'[m].tick = chat[m].tick /\ chat'[m].shown = chat[m].shown
<1>1. chat'[m] = chat[m] \/ chat'[m] = Edited(w, chat[m])
  BY CardsTouched
<1> QED
  BY <1>1 DEF Edited

(* The mark of the task served. *)
LEMMA OwnTick ==
  ASSUME OneWorker, DeliveryInv, CardInv, TickInv, NEW w \in Workers, Works(w),
         faults = MaxFaults, hook.mode # "filtered", ~Fault,
         NEW t \in Tasks, t = Mine(w).task
  PROVE  /\ Ticked(t)' \/ pc'[w] \in {"react", "mark"}
         /\ (At(w, "save") /\ job[w].target # job[w].found.msg => ~chat[job[w].target].tick)'
         /\ At(w, "react")' /\ Path(w) = "live" =>
              row'[t].msg = job'[w].target /\ row'[t].snap = job'[w].task
<1> DEFINE m == job[w].target
<1>0. /\ pc \in [Workers -> Places] /\ job[w] \in Job /\ job \in [Workers -> Job]
      /\ row \in [Tasks -> Mapping] /\ row[t] \in Mapping
      /\ Path(w) \in {"live", "deleted"}
      /\ Len(chat) \in Nat /\ DOMAIN chat = 1 .. Len(chat)
  BY ChatLength DEF DeliveryInv, WorkerPart, CardPart, Path
<1>1. /\ Ticked(t) \/ pc[w] \in {"react", "mark"}
      /\ At(w, "save") /\ m # job[w].found.msg => ~chat[m].tick
      /\ At(w, "react") /\ Path(w) = "live" => row[t].msg = m /\ row[t].snap = job[w].task
      /\ Knows(w)
  BY DEF TickInv, OneWorker, CardInv
<1>2. ~React(w) => \A k \in DOMAIN chat : /\ chat'[k].tick = chat[k].tick
                                          /\ chat'[k].shown = chat[k].shown
  BY CardStays
<1>3. row'[t] = row[t] /\ ~React(w) /\ Ticked(t) => Ticked(t)'
  BY <1>2, MessageIds DEF Ticked
<1>4. CASE ReadHook(w) \/ IgnoreInactive(w) \/ IgnoreExpired(w) \/ ReadTask(w) \/ ReadTaskFails(w)
           \/ (\E v \in Views : AskView(w, v)) \/ JudgeViews(w) \/ ReadRow(w)
  <2>1. /\ row' = row /\ pc[w] \notin {"react", "mark"}
    BY <1>4 DEF ReadHook, IgnoreInactive, IgnoreExpired, ReadTask, ReadTaskFails, AskView, JudgeViews,
       ReadRow, At
  <2>2. pc'[w] \notin {"save", "react"}
    BY <1>0, <1>4 DEF ReadHook, FirstRead, IgnoreInactive, IgnoreExpired, ReadTask, ReadTaskFails, AskView,
       JudgeViews, ReadRow, At, Go
  <2>3. ~React(w)
    BY <2>1 DEF React, At
  <2> QED
    BY <1>1, <1>3, <2>1, <2>2, <2>3 DEF At
<1>5. CASE EditCard(w)
  <2>1. /\ row' = row /\ job' = job /\ pc[w] = "edit" /\ m = job[w].found.msg
        /\ pc'[w] = IF Path(w) = "live" THEN IF Editable(m) THEN "save" ELSE "send"
                    ELSE IF job[w].found.snap.done THEN "react" ELSE "mark"
    BY <1>0, <1>1, <1>5 DEF EditCard, At, Go, Knows
  <2>2. ~React(w)
    BY <2>1 DEF React, At
  <2> QED
    BY <1>1, <1>3, <2>1, <2>2 DEF At
<1>6. CASE SendCard(w)
  <2> DEFINE card == [task |-> t, face |-> "live", snap |-> job[w].task,
                      tick |-> FALSE, shown |-> TRUE, fixed |-> FALSE]
  <2>1. pc'[w] = "save" /\ chat' = Append(chat, card) /\ job'[w].target = Len(chat) + 1
        /\ pc[w] = "send" /\ row' = row
    BY <1>0, <1>6 DEF SendCard, Go, Job, At
  <2>2. card \in Card /\ ~card.tick
    BY JobTyped DEF Card, Faces
  <2> HIDE DEF card
  <2>3. chat'[Len(chat) + 1] = card
    BY <2>1, <2>2, AppendProperties DEF DeliveryInv, CardPart
  <2>4. ~React(w)
    BY <2>1 DEF React, At
  <2> QED
    BY <1>1, <1>3, <2>1, <2>2, <2>3, <2>4 DEF At
<1>7. CASE SaveRow(w)
  <2>1. /\ row' = [row EXCEPT ![t] = Saved(w, row[t])] /\ pc[w] = "save"
        /\ UNCHANGED <<chat, job>> /\ pc'[w] = IF MustReact(w) THEN "react" ELSE "close"
    BY <1>0, <1>7 DEF SaveRow, Go, At
  <2>2. job[w].found = row[t] /\ ~row[t].deleted /\ m # NoMsg
    BY <1>1, <2>1 DEF Knows, Changing, At
  <2>3. row'[t] = Live(m, job[w].task)
    BY <1>0, <2>1, <2>2 DEF Saved
  <2>4. ASSUME ~MustReact(w) PROVE Ticked(t)'
    <3>1. CASE row[t].msg = m
      BY <1>1, <2>1, <2>2, <2>3, <2>4, <3>1 DEF Ticked, MustReact, Live
    <3>2. CASE row[t].msg # m
      <4>1. ~chat[m].tick /\ ~job[w].task.done
        BY <1>1, <2>1, <2>2, <2>4, <3>2 DEF MustReact, At
      <4>2. chat[m].tick \in BOOLEAN /\ job[w].task.done \in BOOLEAN
        <5>1. chat[m] \in Card
          BY <2>2, MessageIds, ElementOfSeq, ChatLength DEF DeliveryInv, CardPart
        <5> QED
          BY <5>1, JobTyped DEF Card, Snapshot
      <4>3. chat[m].tick = job[w].task.done
        BY <4>1, <4>2
      <4> QED
        BY <2>1, <2>3, <4>3 DEF Ticked, Live
    <3> QED
      BY <3>1, <3>2
  <2>5. row'[t].msg = m /\ row'[t].snap = job[w].task
    BY <2>3 DEF Live
  <2> QED
    BY <2>1, <2>4, <2>5 DEF At
<1>8. CASE React(w)
  <2>1. /\ pc[w] = "react" /\ row' = row /\ job' = job
        /\ pc'[w] = IF Path(w) = "live" THEN "close" ELSE "mark"
        /\ IF chat[m].shown
           THEN chat' = [chat EXCEPT ![m].tick = (Path(w) = "live" /\ job[w].task.done)]
           ELSE UNCHANGED chat
    BY <1>0, <1>8 DEF React, Go, At
  <2>2. CASE Path(w) = "live"
    <3>1. row[t].msg = m /\ row[t].snap = job[w].task
      BY <1>1, <2>1, <2>2 DEF At
    <3>2. ASSUME m # NoMsg, chat'[m].shown PROVE chat'[m].tick = job[w].task.done
      <4>1. m \in DOMAIN chat /\ chat[m] \in Card
        BY <3>2, MessageIds, ElementOfSeq, ChatLength DEF DeliveryInv, CardPart
      <4>2. chat' = [chat EXCEPT ![m].tick = (Path(w) = "live" /\ job[w].task.done)]
        BY <2>1, <3>2
      <4>3. chat'[m] = [chat[m] EXCEPT !.tick = (Path(w) = "live" /\ job[w].task.done)]
        BY <4>1, <4>2
      <4>4. chat'[m].tick = (Path(w) = "live" /\ job[w].task.done)
        BY <4>1, <4>3 DEF Card
      <4>5. job[w].task.done \in BOOLEAN
        BY JobTyped DEF Snapshot
      <4> QED
        BY <2>2, <4>4, <4>5
    <3> QED
      BY <2>1, <2>2, <3>1, <3>2 DEF Ticked, At
  <2>3. CASE Path(w) # "live"
    BY <2>1, <2>3 DEF At
  <2> QED
    BY <2>2, <2>3
<1>9. CASE MarkRow(w)
  <2>1. row' = [row EXCEPT ![t] = Marked(w, row[t])] /\ pc'[w] = "close" /\ Path(w) = "deleted"
    BY <1>0, <1>1, <1>9 DEF MarkRow, Go, At, Knows, Revoking
  <2>2. row'[t].deleted
    BY <1>0, <2>1 DEF Marked, Mapping
  <2> QED
    BY <2>1, <2>2 DEF Ticked, At
<1>10. ~ReactFails(w)
  BY DEF ReactFails
<1> QED
  BY <1>4, <1>5, <1>6, <1>7, <1>8, <1>9, <1>10 DEF Works

LEMMA TickKept ==
  ASSUME OneWorker, DeliveryInv, CardInv, HeldInv, OrderInv, TickInv, [Next]_vars
  PROVE  TickInv'
<1> SUFFICES ASSUME faults' = MaxFaults, hook'.mode # "filtered" PROVE TickInv'
  BY DEF TickInv
<1>0. faults = MaxFaults /\ hook.mode # "filtered" /\ ~Fault
  BY OrderLasts, DeliveryConstants DEF DeliveryInv, BudgetPart, Fault
<1>1. /\ \A t \in Tasks : Ticked(t) \/ \E w \in Workers : Serving(w, t) /\ pc[w] \in {"react", "mark"}
      /\ \A w \in Workers :
           /\ At(w, "save") /\ job[w].target # job[w].found.msg => ~chat[job[w].target].tick
           /\ At(w, "react") /\ Path(w) = "live" => /\ row[Mine(w).task].msg = job[w].target
                                                    /\ row[Mine(w).task].snap = job[w].task
  BY <1>0 DEF TickInv
<1>2. CASE Rests \/ SwitchHook
  <2>1. UNCHANGED <<event, held, row, chat, pc, job>> /\ hook'.mode = hook.mode
    BY <1>2, OrderLasts DEF Rests, SwitchHook, deliveryVars, QueueVars
  <2>2. \A w : Mine(w)' = Mine(w) /\ Path(w)' = Path(w)
    BY <2>1 DEF Mine, Path, Nowhere, Answered
  <2> QED
    BY <1>1, <2>1, <2>2 DEF TickInv, Ticked, Serving, At
<1>3. ASSUME NEW m \in DOMAIN chat, Loses(m) PROVE TickInv'
  <2>1. /\ UNCHANGED <<event, held, hook, row, pc, job>>
        /\ \A k \in DOMAIN chat : /\ chat'[k].tick = chat[k].tick
                                  /\ chat'[k].shown => chat[k].shown
    BY <1>3, RemovalStays DEF QueueVars
  <2>2. \A w : Mine(w)' = Mine(w) /\ Path(w)' = Path(w)
    BY <2>1 DEF Mine, Path, Nowhere, Answered
  <2>3. \A t \in Tasks : Ticked(t) => Ticked(t)'
    BY <2>1, MessageIds DEF Ticked
  <2>4. \A w \in Workers : At(w, "save") => job[w].target \in DOMAIN chat
    BY MessageIds DEF CardInv, Knows
  <2> QED
    BY <1>1, <2>1, <2>2, <2>3, <2>4 DEF TickInv, Serving, At
<1>4. ASSUME NEW u \in Tasks, NEW payload \in Payload, Tells(u, payload) PROVE TickInv'
  <2>1. UNCHANGED <<row, chat, pc, job>>
    BY <1>4 DEF Tells, deliveryVars
  <2>2. \A w \in Workers : At(w, "react") => Mine(w)' = Mine(w) /\ Path(w)' = Path(w)
    BY <1>4, TellsLeaves DEF At
  <2> QED
    BY <1>1, <1>4, <2>1, <2>2, TellsLeaves DEF TickInv, Ticked, At
<1>5. ASSUME NEW w \in Workers, Start(w) \/ Ends(w) PROVE TickInv'
  <2>1. /\ UNCHANGED <<row, chat>> /\ pc[w] \notin {"react", "mark"}
        /\ pc'[w] \in {"hook", "idle"} /\ \A u \in Workers : u = w
    <3>1. CASE Start(w)
      BY <3>1, StartShape DEF OneWorker, DeliveryInv, WorkerPart
    <3>2. CASE Ends(w)
      <4>1. Close(w)
        BY <1>0, <3>2, EndShape DEF Ends, ViewsFail, Answered, OrderInv
      <4> QED
        BY <3>2, <4>1, EndShape DEF OneWorker, Close, At, DeliveryInv, WorkerPart
    <3> QED
      BY <1>5, <3>1, <3>2
  <2>2. \A t \in Tasks : Ticked(t)'
    BY <1>1, <2>1 DEF Ticked
  <2> QED
    BY <2>1, <2>2 DEF TickInv, At
<1>6. ASSUME NEW w \in Workers, Works(w) PROVE TickInv'
  <2>1. /\ UNCHANGED <<QueueVars, event, hook>> /\ pc[w] # "idle" /\ pc'[w] # "idle"
        /\ Mine(w)' = Mine(w) /\ Mine(w).task \in Tasks /\ \A u \in Workers : u = w
    BY <1>6, WorkKeeps DEF OneWorker
  <2>2. /\ Ticked(Mine(w).task)' \/ pc'[w] \in {"react", "mark"}
        /\ (At(w, "save") /\ job[w].target # job[w].found.msg => ~chat[job[w].target].tick)'
        /\ At(w, "react")' /\ Path(w) = "live" =>
             row'[Mine(w).task].msg = job'[w].target /\ row'[Mine(w).task].snap = job'[w].task
    BY <1>0, <1>6, <2>1, OwnTick
  <2>3. At(w, "react")' => Path(w)' = Path(w)
    <3>1. CASE job'[w].answers = job[w].answers
      BY <2>1, <3>1 DEF Path, Nowhere, Answered
    <3>2. CASE \E v \in Views : AskView(w, v)
      BY <3>2 DEF AskView, At
    <3> QED
      BY <1>6, <3>1, <3>2, WorkRemembers
  <2>4. ASSUME NEW t \in Tasks, t # Mine(w).task PROVE Ticked(t)'
    <3>1. Ticked(t) /\ row'[t] = row[t]
      BY <1>1, <1>6, <2>1, <2>4, OtherMappings DEF Serving
    <3>2. CASE row[t].msg = NoMsg
      BY <3>1, <3>2 DEF Ticked
    <3>3. CASE row[t].msg # NoMsg
      <4>1. ~(React(w) /\ Path(w) = "live" /\ row[t].msg = job[w].target)
        <5> SUFFICES ASSUME React(w), Path(w) = "live", row[t].msg = job[w].target PROVE FALSE
          OBVIOUS
        <5>1. row[Mine(w).task].msg = row[t].msg
          BY <1>1 DEF React
        <5> QED
          BY <2>1, <2>4, <3>3, <5>1 DEF CardInv, MapsOwn
      <4>2. /\ chat'[row[t].msg].shown = chat[row[t].msg].shown
            /\ chat'[row[t].msg].tick = chat[row[t].msg].tick
        BY <1>6, <2>4, <3>3, <4>1, OtherCards
      <4> QED
        BY <3>1, <4>2 DEF Ticked
    <3> QED
      BY <3>2, <3>3
  <2>5. \A t \in Tasks : Ticked(t)' \/ (Serving(w, t)' /\ pc'[w] \in {"react", "mark"})
    BY <2>1, <2>2, <2>4 DEF Serving
  <2> QED
    BY <2>1, <2>2, <2>3, <2>5 DEF TickInv
<1> QED
  BY <1>2, <1>3, <1>4, <1>5, <1>6, Steps

-----------------------------------------------------------------------------
(* All of it together. *)
RestInv == HeldInv /\ OrderInv /\ HistoryInv /\ DeletionInv /\ ConvInv /\ TickInv

LEMMA RestInit == Init => RestInv
<1> SUFFICES ASSUME Init PROVE RestInv
  OBVIOUS
<1>1. /\ event = << >> /\ \A i \in Ids : status[i] = "absent"
      /\ \A w \in Workers : held[w] = NoEvent /\ pc[w] = "idle" /\ job[w] = NoJob
      /\ \A t \in Tasks : row[t] = NoMapping /\ vik[t].exists
      /\ hook.active
  BY DEF Init, QueueInit
<1>2. DOMAIN event = {}
  BY <1>1
<1>3. HeldInv /\ OrderInv
  BY <1>1 DEF HeldInv, HoldsIt, OrderInv, NoJob, NewJob, Unasked, Reply
<1>4. HistoryInv
  BY <1>1, <1>2 DEF HistoryInv, Dropped, NoMapping
<1>5. DeletionInv /\ ConvInv
  BY <1>1, <1>2 DEF DeletionInv, ConvInv, GoneDone, Told, Announced, At
<1>6. TickInv
  BY <1>1 DEF TickInv, Ticked, At, NoMapping
<1> QED
  BY <1>3, <1>4, <1>5, <1>6 DEF RestInv

LEMMA RestInvariant == ASSUME OneWorker PROVE Spec => [](DeliveryInv /\ RestInv)
<1>1. DeliveryInv /\ CardInv /\ RestInv /\ [Next]_vars => RestInv'
  BY HeldKept, OrderKept, HistoryKept, DeletionKept, ConvKept, TickKept DEF RestInv
<1> QED
  BY <1>1, RestInit, CardInvariant, DeliveryInvariant, PTL DEF Spec

(* At rest nobody works, and nothing is left to be delivered. *)
LEMMA AtRest ==
  ASSUME DeliveryInv, HeldInv, Settled
  PROVE  /\ \A w \in Workers : pc[w] = "idle"
         /\ \A t : ~Owed(t)
<1>1. ASSUME NEW w \in Workers, pc[w] # "idle" PROVE FALSE
  BY <1>1, MineTyped, QueueTyped DEF HeldInv, HoldsIt, Settled
<1>2. \A i \in DOMAIN event : status[i] \notin {"fresh", "waiting"}
  BY EventDomain DEF Settled
<1> QED
  BY <1>1, <1>2 DEF Owed

LEMMA RestRevokes ==
  ASSUME DeliveryInv, RestInv, InOrder, Settled, NEW t \in Tasks, ~vik[t].exists
  PROVE  Revoked(t)
<1>1. PICK i \in DOMAIN event : event[i].kind = "delete" /\ event[i].task = t
  BY DEF RestInv, HistoryInv
<1>2. status[i] = "done"
  BY <1>1, EventDomain DEF Settled
<1> QED
  BY <1>1, <1>2 DEF RestInv, DeletionInv, GoneDone

LEMMA RestConverges ==
  ASSUME DeliveryInv, RestInv, InOrder, Settled, NEW t \in Tasks, vik[t].exists, Announced(t)
  PROVE  Converged(t) /\ ~row[t].deleted
BY AtRest DEF RestInv, ConvInv, HistoryInv, Told, Informs, Serving

(* With one worker, and as long as events are delivered in order and none  *)
(* is dropped, a deleted task is left without a card that a reply could    *)
(* act on when all is at rest (event_worker.py:291-317).                   *)
THEOREM DeletionsRevoke == ASSUME OneWorker PROVE Spec => []DeletionRevokes
<1>1. DeliveryInv /\ RestInv => DeletionRevokes
  BY RestRevokes DEF DeletionRevokes, DeletedTaskNotActionable, Actionable, Revoked
<1> QED
  BY <1>1, RestInvariant, PTL

(* Under the same condition the card of a task shows its last state when   *)
(* all is at rest, or no reply reaches it if no selected view has the task *)
(* (event_worker.py:137-257).                                              *)
THEOREM CardsConverge == ASSUME OneWorker PROVE Spec => []CardConverges
<1>1. DeliveryInv /\ RestInv => CardConverges
  <2> SUFFICES ASSUME DeliveryInv, RestInv, InOrder, Settled,
                      NEW t \in Tasks, vik[t].exists, Announced(t)
               PROVE  IF hook.mode = "filtered" /\ vik[t].in = {}
                      THEN ~Actionable(t)
                      ELSE /\ row[t].msg # NoMsg /\ ~row[t].deleted /\ ~row[t].filtered
                           /\ chat[row[t].msg].shown =>
                                /\ chat[row[t].msg].face = "live"
                                /\ chat[row[t].msg].snap = vik[t].snap
    BY DEF CardConverges
  <2>1. Converged(t) /\ ~row[t].deleted
    BY RestConverges
  <2> QED
    BY <2>1 DEF Converged, Hidden, Shows, Actionable
<1> QED
  BY <1>1, RestInvariant, PTL

(* And where a hook does not filter and no delivery was cut off, the check *)
(* mark is on the card exactly when the task is done                       *)
(* (event_worker.py:249-268).                                              *)
THEOREM ReactionsFollow == ASSUME OneWorker PROVE Spec => []ReactionFollows
<1>1. DeliveryInv /\ RestInv => ReactionFollows
  <2> SUFFICES ASSUME DeliveryInv, RestInv, Undisturbed, hook.mode # "filtered", Settled,
                      NEW t \in Tasks, Actionable(t)
               PROVE  chat[row[t].msg].tick = vik[t].snap.done
    BY DEF ReactionFollows, ReactionMatchesDone
  <2>1. InOrder
    BY DEF Undisturbed, InOrder
  <2>2. vik[t].exists /\ Announced(t)
    BY <2>1, RestRevokes DEF Actionable, Revoked, RestInv, HistoryInv
  <2>3. row[t].snap = vik[t].snap
    BY <2>1, <2>2, RestConverges DEF Converged, Hidden
  <2>4. Ticked(t)
    BY AtRest DEF RestInv, TickInv, Undisturbed, Serving
  <2> QED
    BY <2>3, <2>4 DEF Ticked, Actionable
<1> QED
  BY <1>1, RestInvariant, PTL
=============================================================================
