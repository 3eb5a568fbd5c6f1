--------------------------- MODULE IngressProofs ---------------------------
(***************************************************************************)
(* For any number of hooks, bodies, handlers and faults: nothing that the  *)
(* ingress removed from its buffer is lost, and the way into the queue     *)
(* implements Inbox.                                                       *)
(***************************************************************************)
EXTENDS Ingress, SequenceTheorems, TLAPS

(* What a handler has found out about its record stays true: a body does   *)
(* not change, and a hook that was found is never unknown again.           *)
HandlersKnow ==
  \A s \in Handlers :
    /\ at[s] \in {"active", "known", "store"} => Work(s).body \notin Malformed
    /\ at[s] = "store" => hook[Work(s).hook] # "unknown"

(* A handler works on the record at the head or on one already removed,    *)
(* and the ingress waits only for one that works on the head.              *)
HeadOfLine ==
  /\ \A s \in Handlers : ~At(s, "idle") => record[s] <= acked + 1
  /\ serving # Nobody => ~At(serving, "idle") /\ record[serving] = acked + 1

IngressInv == TypeOK /\ HeadOfLine /\ AcceptedIsStored /\ HandlersKnow /\ QueueIsReadable

-----------------------------------------------------------------------------
(* The queue as EnqueueEvent leaves it: the record is in it, and every     *)
(* other one is where it was.                                              *)
LEMMA AddedQueues ==
  ASSUME queue \in Seq(Record), NEW r \in Record, queue' = Added(r)
  PROVE  /\ queue' \in Seq(Record)
         /\ Queued(r)'
         /\ \A q \in Record : Queued(q) => Queued(q)'
         /\ \A n \in DOMAIN queue' :
              \/ n \in DOMAIN queue /\ queue'[n] = queue[n]
              \/ queue'[n] = r
<1>1. CASE Queued(r)
  BY <1>1 DEF Added, Queued
<1>2. CASE ~Queued(r)
  <2>1. queue' = Append(queue, r)
    BY <1>2 DEF Added
  <2>2. /\ queue' \in Seq(Record)
        /\ Len(queue') = Len(queue) + 1
        /\ queue'[Len(queue) + 1] = r
        /\ \A n \in 1 .. Len(queue) : queue'[n] = queue[n]
    BY <2>1
  <2>3. DOMAIN queue' = 1 .. Len(queue) + 1 /\ DOMAIN queue = 1 .. Len(queue)
    BY <2>2
  <2>4. Len(queue) \in Nat
    OBVIOUS
  <2> QED
    BY <2>2, <2>3, <2>4 DEF Queued
<1> QED
  BY <1>1, <1>2

(* Of hooks: one that is retired stays so, one that is ours stays ours.    *)
HooksAge == /\ \A h \in Hooks : hook[h] = "retired" => hook'[h] = "retired"
            /\ \A h \in Hooks : hook[h] # "unknown" => hook'[h] # "unknown"

(* The queue does not forget. *)
QueueGrows == \A r \in Record : Queued(r) => Queued(r)'

(* The buffer is only ever extended. *)
BufferGrows == /\ Len(buffer) <= Len(buffer')
               /\ \A i \in 1 .. Len(buffer) : buffer'[i] = buffer[i]

LEMMA RecordsNameHooks ==
  ASSUME TypeOK
  PROVE  /\ \A i \in 1 .. Len(buffer) : buffer[i] \in Record /\ buffer[i].hook \in Hooks
         /\ \A n \in DOMAIN queue : queue[n] \in Record /\ queue[n].hook \in Hooks
         /\ \A s \in Handlers : at[s] # "idle" =>
              Work(s) \in Record /\ Work(s).hook \in Hooks
<1>1. buffer \in Seq(Record) /\ queue \in Seq(Record)
  BY DEF TypeOK
<1>2. \A i \in 1 .. Len(buffer) : buffer[i] \in Record
  BY <1>1
<1>3. \A n \in DOMAIN queue : queue[n] \in Record
  BY <1>1
<1>4. \A s \in Handlers : at[s] # "idle" => Work(s) \in Record
  BY <1>2 DEF TypeOK, Work
<1>5. \A r \in Record : r.hook \in Hooks
  BY DEF Record
<1> QED
  BY <1>2, <1>3, <1>4, <1>5

LEMMA StoredStays ==
  ASSUME TypeOK, HooksAge, QueueGrows, BufferGrows
  PROVE  \A i \in 1 .. Len(buffer) : Settled(buffer[i]) => Settled(buffer[i])'
<1>1. ASSUME NEW i \in 1 .. Len(buffer), Settled(buffer[i])
      PROVE  Settled(buffer[i])'
  <2>1. buffer[i] \in Record /\ buffer[i].hook \in Hooks
    BY RecordsNameHooks
  <2>2. buffer'[i] = buffer[i]
    BY DEF BufferGrows
  <2> QED
    BY <1>1, <2>1, <2>2 DEF Settled, QueueGrows, HooksAge, Queued
<1> QED
  BY <1>1

-----------------------------------------------------------------------------
LEMMA InitInv == Init => IngressInv
<1> SUFFICES ASSUME Init PROVE IngressInv
  OBVIOUS
<1> USE IngressConstants DEF Init
<1>1. TypeOK
  BY DEF TypeOK, Conditions, Places
<1>2. HeadOfLine
  BY DEF HeadOfLine, At
<1>3. AcceptedIsStored
  BY DEF AcceptedIsStored
<1>4. HandlersKnow
  BY DEF HandlersKnow
<1>5. QueueIsReadable
  BY DEF QueueIsReadable
<1> QED
  BY <1>1, <1>2, <1>3, <1>4, <1>5 DEF IngressInv

(* A step that leaves the buffer alone and moves at most one handler.      *)
LEMMA AcceptStep ==
  ASSUME IngressInv, NEW r \in Record, Accept(r)
  PROVE  IngressInv'
<1> USE DEF IngressInv, Accept, relayVars, budgetVars
<1>1. /\ buffer' \in Seq(Record) /\ Len(buffer') = Len(buffer) + 1
      /\ \A i \in 1 .. Len(buffer) : buffer'[i] = buffer[i]
  BY DEF TypeOK
<1>2. Len(buffer) \in Nat /\ acked \in Nat /\ acked <= Len(buffer)
  BY DEF TypeOK
<1>3. TypeOK'
  BY <1>1, <1>2 DEF TypeOK
<1>4. HeadOfLine'
  BY DEF HeadOfLine, At
<1>5. AcceptedIsStored'
  BY <1>1, <1>2 DEF AcceptedIsStored, Settled, Queued
<1>6. HandlersKnow'
  BY <1>1 DEF HandlersKnow, Work, TypeOK
<1>7. QueueIsReadable'
  BY DEF QueueIsReadable
<1> QED
  BY <1>3, <1>4, <1>5, <1>6, <1>7

LEMMA SendStep ==
  ASSUME IngressInv, NEW s \in Handlers, Send(s)
  PROVE  IngressInv'
<1> USE DEF IngressInv, Send, budgetVars, At
<1>1. acked + 1 \in 1 .. Len(buffer) /\ acked \in Nat /\ Len(buffer) \in Nat
  BY DEF TypeOK
<1>2. TypeOK'
  BY <1>1, IngressConstants DEF TypeOK, Places
<1>3. HeadOfLine'
  BY <1>1, IngressConstants DEF HeadOfLine, TypeOK
<1>4. AcceptedIsStored'
  BY DEF AcceptedIsStored, Settled, Queued
<1>5. HandlersKnow'
  BY DEF HandlersKnow, Work, TypeOK
<1>6. QueueIsReadable'
  BY DEF QueueIsReadable
<1> QED
  BY <1>2, <1>3, <1>4, <1>5, <1>6

LEMMA GiveUpStep ==
  ASSUME IngressInv, GiveUp
  PROVE  IngressInv'
<1> USE DEF IngressInv, GiveUp, Fault, relayVars
<1>1. TypeOK'
  BY IngressConstants DEF TypeOK
<1>2. HeadOfLine'
  BY DEF HeadOfLine, At
<1>3. AcceptedIsStored'
  BY DEF AcceptedIsStored, Settled, Queued
<1>4. HandlersKnow'
  BY DEF HandlersKnow, Work
<1>5. QueueIsReadable'
  BY DEF QueueIsReadable
<1> QED
  BY <1>1, <1>2, <1>3, <1>4, <1>5

LEMMA CrashStep ==
  ASSUME IngressInv, CrashRelay
  PROVE  IngressInv'
<1> USE DEF IngressInv, CrashRelay, Fault
<1>1. TypeOK'
  BY IngressConstants DEF TypeOK, Places
<1>2. HeadOfLine'
  BY DEF HeadOfLine, At
<1>3. AcceptedIsStored'
  BY DEF AcceptedIsStored, Settled, Queued
<1>4. HandlersKnow'
  BY DEF HandlersKnow, Work
<1>5. QueueIsReadable'
  BY DEF QueueIsReadable
<1> QED
  BY <1>1, <1>2, <1>3, <1>4, <1>5

LEMMA EditStep ==
  ASSUME IngressInv, NEW h \in Hooks, SwitchHook(h) \/ RetireHook(h)
  PROVE  IngressInv' /\ HooksAge
<1> USE DEF IngressInv, relayVars
<1>1. PICK to \in {"off", "active", "retired"}, from \in {{"active"}, {"off"}, {"active", "off"}} :
        Edit(h, from, to)
  BY DEF SwitchHook, RetireHook
<1>2. hook[h] \in {"active", "off"} /\ hook \in [Hooks -> Conditions]
  BY <1>1 DEF Edit, TypeOK
<1>3. hook' = [hook EXCEPT ![h] = to]
  BY <1>1 DEF Edit
<1>4. /\ hook' \in [Hooks -> Conditions] /\ HooksAge
  BY <1>2, <1>3 DEF HooksAge, Conditions
<1>5. edits' \in 0 .. MaxEdits /\ UNCHANGED <<buffer, acked, serving, relayVars, queue, faults>>
  BY <1>1, IngressConstants DEF Edit, TypeOK
<1>6. TypeOK'
  BY <1>4, <1>5 DEF TypeOK
<1>7. HeadOfLine'
  BY <1>5 DEF HeadOfLine, At
<1>8. AcceptedIsStored'
  BY <1>4, <1>5, StoredStays DEF AcceptedIsStored, TypeOK, QueueGrows, BufferGrows, Queued
<1>9. HandlersKnow'
  BY <1>4, <1>5, RecordsNameHooks DEF HandlersKnow, Work, HooksAge
<1>10. QueueIsReadable'
  BY <1>4, <1>5, RecordsNameHooks DEF QueueIsReadable, HooksAge
<1> QED
  BY <1>4, <1>6, <1>7, <1>8, <1>9, <1>10

-----------------------------------------------------------------------------
(* The handlers.  An answer takes the head out of the buffer only when the *)
(* ingress waits for it and the record is settled.                         *)
LEMMA AnswerStep ==
  ASSUME IngressInv, NEW s \in Handlers, NEW success \in BOOLEAN,
         ~At(s, "idle"), Answer(s, success),
         UNCHANGED <<hook, buffer>>,
         queue' \in Seq(Record), QueueGrows,
         success => Settled(Work(s))',
         \A n \in DOMAIN queue' : \/ n \in DOMAIN queue /\ queue'[n] = queue[n]
                                  \/ At(s, "store") /\ queue'[n] = Work(s),
         faults' \in 0 .. MaxFaults, edits' \in 0 .. MaxEdits
  PROVE  IngressInv'
<1> USE DEF IngressInv
<1>1. /\ acked \in 0 .. Len(buffer) /\ Len(buffer) \in Nat
      /\ record[s] \in 1 .. Len(buffer)
  BY DEF TypeOK, At
<1>2. CASE serving = s /\ success
  <2>1. record[s] = acked + 1 /\ acked' = acked + 1 /\ serving' = Nobody
    BY <1>2, IngressConstants DEF HeadOfLine, Answer
  <2>2. ASSUME NEW i \in 1 .. acked'
        PROVE  Settled(buffer[i])'
    <3>1. CASE i \in 1 .. acked
      BY <1>1, <3>1, StoredStays DEF AcceptedIsStored, HooksAge, BufferGrows
    <3>2. CASE i = record[s]
      BY <1>2, <3>2 DEF Settled, Queued, Work, Answer
    <3> QED
      BY <1>1, <2>1, <3>1, <3>2
  <2>3. AcceptedIsStored'
    BY <2>2 DEF AcceptedIsStored
  <2>4. acked' \in 0 .. Len(buffer')
    BY <1>1, <2>1
  <2>5. HeadOfLine'
    BY <1>1, <2>1 DEF HeadOfLine, Answer, At, TypeOK
  <2> QED
    <3>1. TypeOK'
      BY <2>1, <2>4 DEF TypeOK, Answer, At, Places
    <3>2. HandlersKnow'
      BY DEF HandlersKnow, Answer, Work, TypeOK
    <3>3. QueueIsReadable'
      BY DEF QueueIsReadable, HandlersKnow, At
    <3> QED
      BY <2>3, <2>5, <3>1, <3>2, <3>3
<1>3. CASE ~(serving = s /\ success)
  <2>1. acked' = acked /\ serving' \in {serving, Nobody} /\ (serving = s => serving' = Nobody)
    BY <1>3 DEF Answer
  <2>2. TypeOK'
    BY <2>1 DEF TypeOK, Answer, At, Places
  <2>3. HeadOfLine'
    BY <2>1, IngressConstants DEF HeadOfLine, Answer, At, TypeOK
  <2>4. AcceptedIsStored'
    BY <1>1, <2>1, StoredStays DEF AcceptedIsStored, HooksAge, BufferGrows
  <2>5. HandlersKnow'
    BY DEF HandlersKnow, Answer, Work, TypeOK
  <2>6. QueueIsReadable'
    BY DEF QueueIsReadable, HandlersKnow, At
  <2> QED
    BY <2>2, <2>3, <2>4, <2>5, <2>6
<1> QED
  BY <1>2, <1>3

(* A handler goes on to its next await.                                    *)
LEMMA GoStep ==
  ASSUME IngressInv, NEW s \in Handlers, NEW place \in {"active", "known", "store"},
         ~At(s, "idle"), Go(s, place),
         Work(s).body \notin Malformed,
         place = "store" => hook[Work(s).hook] # "unknown",
         UNCHANGED <<hook, buffer, acked, serving, queue, budgetVars>>
  PROVE  IngressInv'
<1> USE DEF IngressInv, budgetVars
<1>1. TypeOK'
  BY DEF TypeOK, Go, At, Places
<1>2. HeadOfLine'
  BY DEF HeadOfLine, Go, At, TypeOK
<1>3. AcceptedIsStored'
  BY DEF AcceptedIsStored, Settled, Queued
<1>4. HandlersKnow'
  BY DEF HandlersKnow, Go, Work, TypeOK
<1>5. QueueIsReadable'
  BY DEF QueueIsReadable
<1> QED
  BY <1>1, <1>2, <1>3, <1>4, <1>5

LEMMA RelayStep ==
  ASSUME IngressInv, NEW s \in Handlers, Relay(s)
  PROVE  IngressInv'
<1> USE DEF IngressInv
<1>1. faults \in 0 .. MaxFaults /\ edits \in 0 .. MaxEdits /\ queue \in Seq(Record)
  BY DEF TypeOK
<1>2. CASE Validate(s)
  <2>1. CASE Work(s).body \in Malformed
    BY <1>1, <1>2, <2>1, AnswerStep DEF Validate, At, budgetVars, QueueGrows, Queued
  <2>2. CASE Work(s).body \notin Malformed
    BY <1>2, <2>2, GoStep DEF Validate, At
  <2> QED
    BY <2>1, <2>2
<1>3. CASE GetActiveHook(s)
  <2>1. Work(s).body \notin Malformed
    BY <1>3 DEF GetActiveHook, At, HandlersKnow
  <2> QED
    BY <1>3, <2>1, GoStep DEF GetActiveHook, At
<1>4. CASE GetHook(s)
  <2>1. hook[Work(s).hook] = "retired" => Settled(Work(s))'
    BY <1>4 DEF GetHook, Answer, Work, Settled
  <2> QED
    BY <1>1, <1>4, <2>1, AnswerStep DEF GetHook, At, budgetVars, QueueGrows, Queued
<1>5. CASE EnqueueEvent(s)
  <2>1. Work(s) \in Record /\ queue' = Added(Work(s)) /\ Work(s)' = Work(s)
    BY <1>5, RecordsNameHooks DEF EnqueueEvent, At, Answer, Work
  <2>2. /\ queue' \in Seq(Record) /\ QueueGrows
        /\ \E n \in DOMAIN queue' : queue'[n] = Work(s)
        /\ \A n \in DOMAIN queue' : \/ n \in DOMAIN queue /\ queue'[n] = queue[n]
                                    \/ queue'[n] = Work(s)
    BY <1>1, <2>1, AddedQueues DEF QueueGrows, Queued
  <2>3. Settled(Work(s))'
    BY <2>1, <2>2 DEF Settled, Queued
  <2> QED
    BY <1>1, <1>5, <2>2, <2>3, AnswerStep DEF EnqueueEvent, At, budgetVars
<1> QED
  BY <1>2, <1>3, <1>4, <1>5 DEF Relay

LEMMA DatabaseErrorStep ==
  ASSUME IngressInv, NEW s \in Handlers, DatabaseError(s)
  PROVE  IngressInv'
<1> USE DEF IngressInv
<1>1. /\ queue \in Seq(Record) /\ edits \in 0 .. MaxEdits
      /\ faults' \in 0 .. MaxFaults /\ edits' = edits
  BY IngressConstants DEF TypeOK, DatabaseError, Fault
<1>2. ~At(s, "idle") /\ Work(s) \in Record
  BY RecordsNameHooks DEF DatabaseError, At
<1>3. CASE UNCHANGED queue
  BY <1>1, <1>2, <1>3, AnswerStep DEF DatabaseError, QueueGrows, Queued
<1>4. CASE At(s, "store") /\ queue' = Added(Work(s))
  <2>1. /\ queue' \in Seq(Record) /\ QueueGrows
        /\ \A n \in DOMAIN queue' : \/ n \in DOMAIN queue /\ queue'[n] = queue[n]
                                    \/ queue'[n] = Work(s)
    BY <1>1, <1>2, <1>4, AddedQueues DEF QueueGrows, Queued
  <2> QED
    BY <1>1, <1>2, <1>4, <2>1, AnswerStep DEF DatabaseError
<1> QED
  BY <1>3, <1>4 DEF DatabaseError

LEMMA NextStep == IngressInv /\ [Next]_vars => IngressInv'
<1> SUFFICES ASSUME IngressInv, [Next]_vars PROVE IngressInv'
  OBVIOUS
<1>1. CASE UNCHANGED vars
  BY <1>1 DEF vars, relayVars, budgetVars, IngressInv, TypeOK, HeadOfLine, At,
              AcceptedIsStored, Settled, Queued, HandlersKnow, Work, QueueIsReadable
<1>2. CASE Next
  <2>1. CASE \E r \in Record : Accept(r)
    BY <2>1, AcceptStep
  <2>2. CASE GiveUp
    BY <2>2, GiveUpStep
  <2>3. CASE CrashRelay
    BY <2>3, CrashStep
  <2>4. CASE \E s \in Handlers : Send(s)
    BY <2>4, SendStep
  <2>5. CASE \E s \in Handlers : Relay(s)
    BY <2>5, RelayStep
  <2>6. CASE \E s \in Handlers : DatabaseError(s)
    BY <2>6, DatabaseErrorStep
  <2>7. CASE \E h \in Hooks : SwitchHook(h) \/ RetireHook(h)
    BY <2>7, EditStep
  <2> QED
    BY <1>2, <2>1, <2>2, <2>3, <2>4, <2>5, <2>6, <2>7 DEF Next
<1> QED
  BY <1>1, <1>2

THEOREM IngressInvariant == Spec => []IngressInv
BY InitInv, NextStep, PTL DEF Spec

(* The types of the buffer, the relay's handlers and the queue             *)
(* (relay.py:40-94, redpanda-connect.yaml:16-43).                          *)
THEOREM IngressTypeCorrect == Spec => []TypeOK
<1>1. IngressInv => TypeOK
  BY DEF IngressInv
<1> QED
  BY <1>1, IngressInvariant, PTL

(* What the ingress has let go of is in the queue, or its hook is retired  *)
(* (relay.py:82-83, README.md:333-336).                                    *)
THEOREM NothingAcceptedIsLost == Spec => []AcceptedIsStored
<1>1. IngressInv => AcceptedIsStored
  BY DEF IngressInv
<1> QED
  BY <1>1, IngressInvariant, PTL

(* Only what _validate_payload and the hook lookup let through is queued   *)
(* (relay.py:49-80).                                                       *)
THEOREM QueueStaysReadable == Spec => []QueueIsReadable
<1>1. IngressInv => QueueIsReadable
  BY DEF IngressInv
<1> QED
  BY <1>1, IngressInvariant, PTL

-----------------------------------------------------------------------------
(* The refinement of Inbox, step by step. *)

Still == UNCHANGED Promise!inboxVars

LEMMA StillWhen ==
  ASSUME UNCHANGED <<hook, buffer, acked, queue>>
  PROVE  Still
BY DEF Still, Promise!inboxVars

(* An answer that adds nothing to the queue takes the head or nothing.     *)
LEMMA AnswerTakes ==
  ASSUME IngressInv, NEW s \in Handlers, NEW success \in BOOLEAN,
         ~At(s, "idle"), Answer(s, success), UNCHANGED <<hook, buffer, queue>>,
         success => Settled(Work(s))
  PROVE  Promise!Take \/ Still
<1>1. CASE serving = s /\ success
  <2>1. record[s] = acked + 1 /\ acked' = acked + 1 /\ acked < Len(buffer)
    BY <1>1, IngressConstants DEF IngressInv, HeadOfLine, Answer, TypeOK, At
  <2>2. Promise!Settled(buffer[acked + 1])
    <3>1. buffer[acked + 1].hook \in Hooks
      BY <2>1, RecordsNameHooks DEF IngressInv, Work, At
    <3> QED
      BY <1>1, <2>1, <3>1 DEF Settled, Queued, Work, Promise!Settled, Promise!Queued
  <2> QED
    BY <2>1, <2>2 DEF Promise!Take
<1>2. CASE ~(serving = s /\ success)
  BY <1>2, StillWhen DEF Answer
<1> QED
  BY <1>1, <1>2

(* A record that is added comes behind all that precede it in the buffer.  *)
LEMMA AddedCommits ==
  ASSUME IngressInv, NEW s \in Handlers, NEW success \in BOOLEAN,
         ~At(s, "idle"), Answer(s, success), UNCHANGED <<hook, buffer>>,
         ~Queued(Work(s)), queue' = Append(queue, Work(s))
  PROVE  \E i \in DOMAIN buffer : Promise!Commit(i) \/ Promise!CommitAndTake(i)
<1>1. /\ record[s] \in 1 .. Len(buffer) /\ acked \in 0 .. Len(buffer)
      /\ Len(buffer) \in Nat /\ DOMAIN buffer = 1 .. Len(buffer)
  BY DEF IngressInv, TypeOK, At
<1>2. /\ record[s] <= acked + 1
      /\ serving = s => record[s] = acked + 1
  BY IngressConstants DEF IngressInv, HeadOfLine, At
<1>3. ~Promise!Queued(buffer[record[s]])
  BY DEF Queued, Work, Promise!Queued
<1>4. CASE serving = s /\ success
  BY <1>1, <1>2, <1>3, <1>4 DEF Promise!CommitAndTake, Answer, Work
<1>5. CASE ~(serving = s /\ success)
  <2>1. ASSUME NEW j \in 1 .. record[s] - 1
        PROVE  Promise!Settled(buffer[j])
    <3>1. j \in 1 .. acked /\ j \in 1 .. Len(buffer)
      BY <1>1, <1>2
    <3>2. Settled(buffer[j]) /\ buffer[j].hook \in Hooks
      BY <3>1, RecordsNameHooks DEF IngressInv, AcceptedIsStored
    <3> QED
      BY <3>2 DEF Settled, Queued, Promise!Settled, Promise!Queued
  <2> QED
    BY <1>1, <1>3, <1>5, <2>1 DEF Promise!Commit, Answer, Work
<1> QED
  BY <1>4, <1>5

LEMMA RelayRefines ==
  ASSUME IngressInv, NEW s \in Handlers, Relay(s) \/ DatabaseError(s)
  PROVE  Promise!InboxNext \/ Still
<1>1. CASE Validate(s)
  <2>1. CASE Work(s).body \in Malformed
    <3>1. Answer(s, FALSE) /\ UNCHANGED <<hook, buffer, queue>> /\ ~At(s, "idle")
      BY <1>1, <2>1 DEF Validate, At
    <3> QED
      BY <3>1, AnswerTakes DEF Promise!InboxNext
  <2>2. CASE Work(s).body \notin Malformed
    BY <1>1, <2>2, StillWhen DEF Validate
  <2> QED
    BY <2>1, <2>2
<1>2. CASE GetActiveHook(s)
  BY <1>2, StillWhen DEF GetActiveHook
<1>3. CASE GetHook(s)
  <2>1. /\ ~At(s, "idle") /\ UNCHANGED <<hook, buffer, queue>>
        /\ Answer(s, hook[Work(s).hook] = "retired")
    BY <1>3 DEF GetHook, At
  <2>2. hook[Work(s).hook] = "retired" => Settled(Work(s))
    BY DEF Settled
  <2> QED
    BY <2>1, <2>2, AnswerTakes DEF Promise!InboxNext
<1>4. CASE EnqueueEvent(s)
  <2>1. /\ ~At(s, "idle") /\ UNCHANGED <<hook, buffer>>
        /\ Answer(s, TRUE) /\ queue' = Added(Work(s))
    BY <1>4 DEF EnqueueEvent, At
  <2>2. CASE Queued(Work(s))
    BY <2>1, <2>2, AnswerTakes DEF Added, Settled, Promise!InboxNext
  <2>3. CASE ~Queued(Work(s))
    BY <2>1, <2>3, AddedCommits DEF Added, Promise!InboxNext
  <2> QED
    BY <2>2, <2>3
<1>5. CASE DatabaseError(s)
  <2>1. /\ ~At(s, "idle") /\ UNCHANGED <<hook, buffer>> /\ Answer(s, FALSE)
        /\ queue' = queue \/ queue' = Added(Work(s))
    BY <1>5 DEF DatabaseError, At
  <2>2. CASE queue' = queue
    BY <2>1, <2>2, AnswerTakes DEF Promise!InboxNext
  <2>3. CASE queue' # queue
    BY <2>1, <2>3, AddedCommits DEF Added, Promise!InboxNext
  <2> QED
    BY <2>2, <2>3
<1> QED
  BY <1>1, <1>2, <1>3, <1>4, <1>5 DEF Relay

LEMMA EditRefines ==
  ASSUME IngressInv, NEW h \in Hooks, SwitchHook(h) \/ RetireHook(h)
  PROVE  Promise!Close(h) \/ Still
<1>1. hook \in [Hooks -> Conditions]
  BY DEF IngressInv, TypeOK
<1>2. CASE SwitchHook(h)
  <2>1. \A g \in Hooks : hook'[g] = "retired" <=> hook[g] = "retired"
    BY <1>1, <1>2 DEF SwitchHook, Edit
  <2> QED
    BY <1>2, <2>1 DEF Still, Promise!inboxVars, SwitchHook, Edit
<1>3. CASE RetireHook(h)
  <2>1. \A g \in Hooks : hook'[g] = "retired" <=> hook[g] = "retired" \/ g = h
    BY <1>1, <1>3 DEF RetireHook, Edit
  <2>2. {g \in Hooks : hook'[g] = "retired"} = {g \in Hooks : hook[g] = "retired"} \cup {h}
    BY <2>1
  <2> QED
    BY <1>3, <2>2 DEF Promise!Close, RetireHook, Edit
<1> QED
  BY <1>2, <1>3

LEMMA RefineStep == IngressInv /\ [Next]_vars => [Promise!InboxNext]_(Promise!inboxVars)
<1> SUFFICES ASSUME IngressInv, [Next]_vars PROVE Promise!InboxNext \/ Still
  BY DEF Still
<1>1. CASE UNCHANGED vars
  BY <1>1, StillWhen DEF vars
<1>2. CASE Next
  <2>1. ASSUME NEW r \in Record, Accept(r)
        PROVE  Promise!InboxNext
    <3>1. Promise!Accept(r) /\ r \in Promise!Record
      BY <2>1 DEF Accept, Promise!Accept, Record, Promise!Record
    <3> QED
      BY <3>1 DEF Promise!InboxNext
  <2>2. CASE GiveUp \/ CrashRelay
    BY <2>2, StillWhen DEF GiveUp, CrashRelay
  <2>3. CASE \E s \in Handlers : Send(s)
    BY <2>3, StillWhen DEF Send
  <2>4. CASE \E s \in Handlers : Relay(s) \/ DatabaseError(s)
    BY <2>4, RelayRefines
  <2>5. CASE \E h \in Hooks : SwitchHook(h) \/ RetireHook(h)
    BY <2>5, EditRefines DEF Promise!InboxNext
  <2> QED
    BY <1>2, <2>1, <2>2, <2>3, <2>4, <2>5 DEF Next
<1> QED
  BY <1>1, <1>2

(* The buffer, the retries and the relay together implement Inbox: each    *)
(* record is queued once, behind all that were accepted before it, and is  *)
(* let go of only then (database.py:290-305, README.md:333-336).           *)
THEOREM IngressImplementsInbox == Spec => ImplementsInbox
<1>1. Init => Promise!InboxInit
  BY DEF Init, Promise!InboxInit
<1> QED
  BY <1>1, RefineStep, IngressInvariant, PTL
  DEF Spec, ImplementsInbox, Promise!InboxSpec
=============================================================================
