------------------------------ MODULE Ingress ------------------------------
(***************************************************************************)
(* The way of a webhook into the event queue: Redpanda Connect commits the *)
(* request to a SQLite buffer and acknowledges it to Vikunja, then hands   *)
(* it to the relay (receive_event) again and again, until that answers     *)
(* with success.  One request is out at a time, and the next record is not *)
(* tried before the one at the head has been accepted.                     *)
(*                                                                         *)
(* The relay's handler is not cancelled when the ingress gives its request *)
(* up: it goes on while the same record is sent again, so that several     *)
(* handlers may work on one record, or on one that was accepted long ago.  *)
(***************************************************************************)
EXTENDS Naturals, Sequences

CONSTANTS
  Hooks,       \* the hook ids that occur in webhook URLs
  Bodies,      \* the raw request bodies
  Malformed,   \* those that are no event with a name, data and a time
  Handlers,    \* requests the relay can be working on at once
  Nobody,      \* no handler
  MaxRecords,  \* bound: webhooks Vikunja sends
  MaxFaults,   \* bound: timeouts, crashes and database errors
  MaxEdits     \* bound: times a hook is switched or retired

ASSUME IngressConstants ==
  /\ Malformed \subseteq Bodies
  /\ Nobody \notin Handlers
  /\ MaxRecords \in Nat /\ MaxFaults \in Nat /\ MaxEdits \in Nat

VARIABLES
  hook,     \* what the hooks table says of each id
  buffer,   \* every request the ingress acknowledged, in order
  acked,    \* how many of them it has removed after a success
  serving,  \* the handler whose answer the ingress awaits
  at,       \* the await each handler of the relay is at
  record,   \* the record it works on, by its place in the buffer
  queue,    \* the events table, in the order of the ids
  faults, edits   \* budgets left

relayVars == <<at, record>>
budgetVars == <<faults, edits>>
vars == <<hook, buffer, acked, serving, relayVars, queue, budgetVars>>

-----------------------------------------------------------------------------
Record == [hook : Hooks, body : Bodies]

(* A hook that is off has active = FALSE; one that is retired, deleted_at. *)
Conditions == {"unknown", "active", "off", "retired"}
Places == {"idle", "body", "active", "known", "store"}

TypeOK ==
  /\ hook \in [Hooks -> Conditions]
  /\ buffer \in Seq(Record)
  /\ acked \in 0 .. Len(buffer)
  /\ serving \in Handlers \cup {Nobody}
  /\ at \in [Handlers -> Places]
  /\ record \in [Handlers -> Nat]
  /\ \A s \in Handlers : at[s] # "idle" => record[s] \in 1 .. Len(buffer)
  /\ queue \in Seq(Record)
  /\ faults \in 0 .. MaxFaults
  /\ edits \in 0 .. MaxEdits

(* An id may be unknown for good: a pasted URL need not be one of ours.    *)
Init ==
  /\ hook \in [Hooks -> {"unknown", "active"}]
  /\ buffer = << >> /\ acked = 0
  /\ serving = Nobody
  /\ at = [s \in Handlers |-> "idle"]
  /\ record = [s \in Handlers |-> 0]
  /\ queue = << >>
  /\ faults = MaxFaults /\ edits = MaxEdits

At(s, place) == at[s] = place
Work(s) == buffer[record[s]]
Go(s, place) == at' = [at EXCEPT ![s] = place] /\ UNCHANGED record
Fault == faults > 0 /\ faults' = faults - 1 /\ UNCHANGED edits

Queued(r) == \E n \in DOMAIN queue : queue[n] = r
Settled(r) == Queued(r) \/ hook[r.hook] = "retired"

-----------------------------------------------------------------------------
(* Redpanda Connect. *)

(* A webhook is buffered and acknowledged.  Vikunja may repeat one whose   *)
(* acknowledgement it missed.                                              *)
Accept(r) ==
  /\ Len(buffer) < MaxRecords
  /\ buffer' = Append(buffer, r)
  /\ UNCHANGED <<hook, acked, serving, relayVars, queue, budgetVars>>

SendBeyond(s) ==  \* mutant: the end of the buffer is not noticed
  /\ serving = Nobody /\ At(s, "idle")
  /\ at' = [at EXCEPT ![s] = "body"]
  /\ record' = [record EXCEPT ![s] = acked + 1]
  /\ serving' = s
  /\ UNCHANGED <<hook, buffer, acked, queue, budgetVars>>

(* The record at the head is sent, for the first time or again. *)
Send(s) ==
  /\ serving = Nobody
  /\ acked < Len(buffer)
  /\ At(s, "idle")
  /\ at' = [at EXCEPT ![s] = "body"]
  /\ record' = [record EXCEPT ![s] = acked + 1]
  /\ serving' = s
  /\ UNCHANGED <<hook, buffer, acked, queue, budgetVars>>

(* No answer within the timeout, an answer that is lost, or a restart of   *)
(* the ingress: the buffer is all that it remembers.                       *)
GiveUp ==
  /\ serving # Nobody
  /\ Fault
  /\ serving' = Nobody
  /\ UNCHANGED <<hook, buffer, acked, relayVars, queue>>

-----------------------------------------------------------------------------
(* The relay. *)

(* The handler answers.  The ingress hears it only if it still waits; it   *)
(* removes the record after a success and keeps it after anything else.    *)
Answer(s, success) ==
  /\ at' = [at EXCEPT ![s] = "idle"]
  /\ UNCHANGED record
  /\ serving' = IF serving = s THEN Nobody ELSE serving
  /\ acked' = IF serving = s /\ success THEN acked + 1 ELSE acked

ValidateNothing(s) ==  \* mutant: any body is passed on
  /\ At(s, "body")
  /\ Go(s, "active")
  /\ UNCHANGED <<hook, buffer, acked, serving, queue, budgetVars>>

(* 413, 400 or 422 for what can never be stored. *)
Validate(s) ==
  /\ At(s, "body")
  /\ IF Work(s).body \in Malformed
     THEN Answer(s, FALSE)
     ELSE Go(s, "active") /\ UNCHANGED <<serving, acked>>
  /\ UNCHANGED <<hook, buffer, queue, budgetVars>>

GetActiveHook(s) ==
  /\ At(s, "active")
  /\ Go(s, IF hook[Work(s).hook] = "active" THEN "store" ELSE "known")
  /\ UNCHANGED <<hook, buffer, acked, serving, queue, budgetVars>>

GetHookButNever(s) ==  \* mutant: a retired hook is answered like an unknown one
  /\ At(s, "known")
  /\ Answer(s, FALSE)
  /\ UNCHANGED <<hook, buffer, queue, budgetVars>>

GetHookOrDiscard(s) ==  \* mutant: what no active hook wants is dropped
  /\ At(s, "known")
  /\ Answer(s, TRUE)
  /\ UNCHANGED <<hook, buffer, queue, budgetVars>>

(* A retired hook's late delivery is discarded with 202, every other one   *)
(* refused with 404.                                                       *)
GetHook(s) ==
  /\ At(s, "known")
  /\ Answer(s, hook[Work(s).hook] = "retired")
  /\ UNCHANGED <<hook, buffer, queue, budgetVars>>

AddedAgain(r) == Append(queue, r)  \* mutant: the insert knows no conflict

(* The insert does nothing on a conflict of hook and digest. *)
Added(r) == IF Queued(r) THEN queue ELSE Append(queue, r)

EnqueueEvent(s) ==
  /\ At(s, "store")
  /\ queue' = Added(Work(s))
  /\ Answer(s, TRUE)
  /\ UNCHANGED <<hook, buffer, budgetVars>>

(* A database call raises, 503; the commit may have taken effect. *)
DatabaseError(s) ==
  /\ at[s] \in {"active", "known", "store"}
  /\ Fault
  /\ \/ UNCHANGED queue
     \/ At(s, "store") /\ queue' = Added(Work(s))
  /\ Answer(s, FALSE)
  /\ UNCHANGED <<hook, buffer>>

(* The container dies, and with it every handler. *)
CrashRelay ==
  /\ \E s \in Handlers : ~At(s, "idle")
  /\ Fault
  /\ at' = [s \in Handlers |-> "idle"]
  /\ serving' = Nobody
  /\ UNCHANGED <<hook, buffer, acked, record, queue>>

-----------------------------------------------------------------------------
(* The owner, through /hooks. *)
Edit(h, from, to) ==
  /\ edits > 0 /\ edits' = edits - 1
  /\ hook[h] \in from
  /\ hook' = [hook EXCEPT ![h] = to]
  /\ UNCHANGED <<buffer, acked, serving, relayVars, queue, faults>>

SwitchHook(h) == Edit(h, {"active"}, "off") \/ Edit(h, {"off"}, "active")
RetireHook(h) == Edit(h, {"active", "off"}, "retired")

Relay(s) == Validate(s) \/ GetActiveHook(s) \/ GetHook(s) \/ EnqueueEvent(s)

Next ==
  \/ \E r \in Record : Accept(r)
  \/ GiveUp \/ CrashRelay
  \/ \E s \in Handlers : Send(s) \/ Relay(s) \/ DatabaseError(s)
  \/ \E h \in Hooks : SwitchHook(h) \/ RetireHook(h)

(* The ingress retries without end (max_retries: 0), a handler's calls all *)
(* return, and a free handler is found.                                    *)
Fairness == /\ WF_vars(\E s \in Handlers : Send(s))
            /\ \A s \in Handlers : WF_vars(Relay(s))

Spec == Init /\ [][Next]_vars /\ Fairness

-----------------------------------------------------------------------------
(* What the ingress removed from its buffer after a success is in the      *)
(* queue, or its hook is retired: acceptance is never reported when the    *)
(* durable write failed (relay.py:82-83, README.md:333-336).               *)
AcceptedIsStored == \A i \in 1 .. acked : Settled(buffer[i])

(* Retries, late handlers, crashes and repeated requests notwithstanding,  *)
(* each record is queued once and behind all that were accepted before it, *)
(* except those of retired hooks (database.py:290-305).                    *)
Promise == INSTANCE Inbox WITH
             Routes <- Hooks, Contents <- Bodies, accepted <- buffer,
             taken <- acked, closed <- {h \in Hooks : hook[h] = "retired"}
ImplementsInbox == Promise!InboxSpec

(* Nothing malformed and nothing of a hook that is not ours is queued, not *)
(* even by a handler that was given up (relay.py:49-80).                   *)
QueueIsReadable ==
  \A n \in DOMAIN queue : /\ queue[n].body \notin Malformed
                          /\ hook[queue[n].hook] # "unknown"

Arrived(i) == i <= Len(buffer)
Undeliverable(r) == r.body \in Malformed \/ hook[r.hook] \in {"unknown", "off"}
Obstructed(i) == \E j \in acked + 1 .. Len(buffer) : j <= i /\ Undeliverable(buffer[j])

(* A buffered record reaches the queue, or is obsolete because its hook is *)
(* retired, unless it is stuck behind a record that the relay goes on      *)
(* refusing (README.md:345-348).                                           *)
EveryRecordArrives ==
  \A i \in 1 .. MaxRecords :
    Arrived(i) ~> (Arrived(i) /\ (Settled(buffer[i]) \/ Obstructed(i)))
=============================================================================
