------------------------- MODULE ReplyActionsProofs -------------------------
(***************************************************************************)
(* For any number of actors, accounts, tokens, labels and handlers at once,*)
(* and replies of any length: a task is changed only for an actor it is    *)
(* granted to and under an account that actor has proved to hold, whatever *)
(* /login, /logout, revocations and failures come between the check of the *)
(* token and the calls made with it; a reply without company toggles what  *)
(* it names once and reports what it did; and handlers that do not overlap *)
(* make no label twice.                                                    *)
(***************************************************************************)
EXTENDS ReplyActions, SequenceTheorems, FiniteSetTheorems, WellFoundedInduction, TLAPS

(* The types the argument is about: reply, label and task do not matter.   *)
IdentitiesTyped ==
  /\ binding \in [Actors -> SUBSET Row]
  /\ owner \in [Tokens -> Accounts \cup {Nobody}]
  /\ proven \in [Actors -> SUBSET Accounts]
  /\ pc \in [Sessions -> TokenPlaces \cup ReplyPlaces]
  /\ client \in [Sessions -> Client]
  /\ acted \subseteq Actors \X Accounts

(* A row says that its actor once supplied a token of its account.         *)
BindingsProven == \A a \in Actors : \A row \in binding[a] : row.account \in proven[a]

Checked == {"whoami"} \cup CallPlaces
Admitted == {"binding", "done", "failed"} \cup Checked

(* What a handler's place in the code says of the client it works with.    *)
Backed(s) ==
  /\ pc[s] # "idle" => client[s].actor \in Actors
  /\ pc[s] \in Admitted => client[s].actor \in card.granted
  /\ pc[s] \in Checked => client[s].account \subseteq proven[client[s].actor]
  /\ pc[s] \in CallPlaces => Identity(s) \subseteq client[s].account

IdentityInv ==
  /\ IdentitiesTyped
  /\ BindingsProven
  /\ \A s \in Sessions : Backed(s)
  /\ ActsAsOwnAccount

(* The tables and the record of what was done, after a step.               *)
TablesKept ==
  /\ binding' \in [Actors -> SUBSET Row]
  /\ proven' \in [Actors -> SUBSET Accounts]
  /\ \A a \in Actors : proven[a] \subseteq proven'[a]
  /\ BindingsProven'
  /\ acted' \subseteq Actors \X Accounts
  /\ ActsAsOwnAccount'

-----------------------------------------------------------------------------
(* How the moves of one handler leave the invariant. *)

(* One handler moves to a place its client is fit for. *)
LEMMA MoveKeepsInv ==
  ASSUME IdentityInv, TablesKept, UNCHANGED <<owner, card>>,
         NEW s \in Sessions, NEW place \in TokenPlaces \cup ReplyPlaces,
         NEW memory \in Client, Begin(s, place, memory),
         place # "idle" => memory.actor \in Actors,
         place \in Admitted => memory.actor \in card.granted,
         place \in Checked => memory.account \subseteq proven'[memory.actor],
         place \in CallPlaces =>
           {owner[t] : t \in memory.token} \ {Nobody} \subseteq memory.account
  PROVE  IdentityInv'
<1>1. IdentitiesTyped'
  BY DEF IdentityInv, IdentitiesTyped, TablesKept, Begin
<1>2. ASSUME NEW r \in Sessions
      PROVE  Backed(r)'
  <2>1. CASE r = s
    <3>1. pc'[r] = place /\ client'[r] = memory
      BY <2>1 DEF IdentityInv, IdentitiesTyped, Begin
    <3> QED
      BY <3>1 DEF Backed, Identity
  <2>2. CASE r # s
    <3>1. pc'[r] = pc[r] /\ client'[r] = client[r]
      BY <2>2 DEF IdentityInv, IdentitiesTyped, Begin
    <3>2. Backed(r) /\ pc[r] # "idle" => proven[client[r].actor] \subseteq proven'[client[r].actor]
      BY DEF Backed, TablesKept
    <3>3. "idle" \notin Checked
      BY DEF Checked, CallPlaces, ReplyPlaces
    <3> QED
      BY <3>1, <3>2, <3>3 DEF IdentityInv, Backed, Identity
  <2> QED
    BY <2>1, <2>2
<1> QED
  BY <1>1, <1>2 DEF IdentityInv, TablesKept

LEMMA TablesUntouched ==
  ASSUME IdentityInv, UNCHANGED <<binding, proven, card, acted>>
  PROVE  TablesKept
BY DEF IdentityInv, IdentitiesTyped, TablesKept, BindingsProven, ActsAsOwnAccount

LEMMA LeaveKeepsInv ==
  ASSUME IdentityInv, TablesKept, UNCHANGED <<owner, card>>, NEW s \in Sessions, Leave(s)
  PROVE  IdentityInv'
<1>1. NoClient \in Client /\ "idle" \in TokenPlaces
  BY DEF NoClient, ClientOf, Client, TokenPlaces
<1>2. "idle" \notin Admitted /\ "idle" \notin Checked /\ "idle" \notin CallPlaces
  BY DEF Admitted, Checked, CallPlaces, ReplyPlaces
<1> QED
  BY <1>1, <1>2, MoveKeepsInv DEF Leave

(* A handler that is already making calls goes on, and may have done one   *)
(* more thing under the account its token is of.                           *)
LEMMA CallKeepsInv ==
  ASSUME IdentityInv, UNCHANGED taskFrame, NEW s \in Sessions,
         pc[s] \in CallPlaces, acted' = acted \/ Signed(s),
         NEW place \in CallPlaces \cup {"done", "failed"}, Go(s, place)
  PROVE  IdentityInv'
<1>1. Backed(s) /\ pc[s] \in Checked /\ pc[s] \in Admitted /\ pc[s] # "idle"
  BY DEF IdentityInv, Checked, Admitted, CallPlaces, ReplyPlaces
<1>2. /\ client[s].actor \in Actors /\ client[s].actor \in card.granted
      /\ client[s].account \subseteq proven[client[s].actor]
      /\ Identity(s) \subseteq client[s].account
  BY <1>1 DEF Backed
<1>3. client[s] \in Client
  BY DEF IdentityInv, IdentitiesTyped
<1>4. proven[client[s].actor] \subseteq Accounts
  BY <1>2 DEF IdentityInv, IdentitiesTyped
<1>5. TablesKept
  <2>1. CASE acted' = acted
    BY <2>1, TablesUntouched DEF taskFrame
  <2>2. CASE Signed(s)
    <3>1. \A deed \in {client[s].actor} \X Identity(s) :
            /\ deed[1] \in card.granted /\ deed[2] \in proven[deed[1]]
            /\ deed \in Actors \X Accounts
      BY <1>2, <1>4
    <3>2. acted' \subseteq Actors \X Accounts /\ ActsAsOwnAccount'
      BY <2>2, <3>1 DEF Signed, ActsAsOwnAccount, IdentityInv, IdentitiesTyped, taskFrame
    <3> QED
      BY <3>2 DEF TablesKept, IdentityInv, IdentitiesTyped, BindingsProven, taskFrame
  <2> QED
    BY <2>1, <2>2
<1>6. Begin(s, place, client[s])
  BY DEF Go, Begin, IdentityInv, IdentitiesTyped
<1>7. place \in TokenPlaces \cup ReplyPlaces
  BY DEF CallPlaces, ReplyPlaces
<1> QED
  BY <1>2, <1>3, <1>5, <1>6, <1>7, MoveKeepsInv DEF taskFrame, Identity

LEMMA FollowingIsCall ==
  ASSUME NEW text, NEW todo, NEW kind
  PROVE  Following(text, todo, kind) \in CallPlaces \cup {"done", "failed"}
BY DEF Following, CallPlaces, ReplyPlaces

LEMMA FirstCallIsCall ==
  ASSUME NEW text
  PROVE  FirstCall(text) \in CallPlaces
BY DEF FirstCall, CallPlaces, ReplyPlaces

-----------------------------------------------------------------------------
(* Bindings. *)

(* What is stored was proved by the token it is stored with. *)
LEMMA StoredKeepsTables ==
  ASSUME IdentityInv, NEW s \in Sessions, client[s].actor \in Actors, Stored(s),
         UNCHANGED <<card, acted>>
  PROVE  TablesKept
<1> DEFINE a == client[s].actor
           rows == {row \in Row : row.token \in client[s].token
                                  /\ row.account \in client[s].account}
<1>1. client[s] \in Client /\ client[s].account \subseteq Accounts
  BY DEF IdentityInv, IdentitiesTyped, Client
<1>2. binding' = [binding EXCEPT ![a] = rows]
  BY DEF Stored
<1>3. proven' = [proven EXCEPT ![a] = proven[a] \cup client[s].account]
  BY DEF Stored
<1>4. binding' \in [Actors -> SUBSET Row]
  BY <1>2 DEF IdentityInv, IdentitiesTyped
<1>5. proven' \in [Actors -> SUBSET Accounts]
  BY <1>1, <1>3 DEF IdentityInv, IdentitiesTyped
<1>6. \A b \in Actors : proven[b] \subseteq proven'[b]
  BY <1>3 DEF IdentityInv, IdentitiesTyped
<1>7. ASSUME NEW b \in Actors, NEW row \in binding'[b]
      PROVE  row.account \in proven'[b]
  <2>1. CASE b = a
    BY <2>1, <1>2, <1>3 DEF IdentityInv, IdentitiesTyped
  <2>2. CASE b # a
    BY <2>2, <1>2, <1>3 DEF IdentityInv, IdentitiesTyped, BindingsProven
  <2> QED
    BY <2>1, <2>2
<1>8. ActsAsOwnAccount'
  BY <1>6 DEF IdentityInv, IdentitiesTyped, ActsAsOwnAccount
<1> QED
  BY <1>4, <1>5, <1>6, <1>7, <1>8
  DEF TablesKept, BindingsProven, IdentityInv, IdentitiesTyped

LEMMA RemovedKeepsTables ==
  ASSUME IdentityInv, NEW s \in Sessions, Removed(s), UNCHANGED <<card, acted>>
  PROVE  TablesKept
<1>1. binding' = [binding EXCEPT ![client[s].actor] = {}]
  BY DEF Removed
<1>2. binding' \in [Actors -> SUBSET Row] /\ BindingsProven'
  BY <1>1 DEF IdentityInv, IdentitiesTyped, BindingsProven, Removed
<1> QED
  BY <1>2 DEF TablesKept, IdentityInv, IdentitiesTyped, ActsAsOwnAccount, Removed

LEMMA ClientOfTyped ==
  ASSUME NEW a \in Actors, NEW token \in SUBSET Tokens, NEW account \in SUBSET Accounts
  PROVE  /\ ClientOf(a, token, account) \in Client
         /\ ClientOf(a, token, account).actor = a
         /\ ClientOf(a, token, account).account = account
BY DEF ClientOf, Client

LEMMA IdentityTyped ==
  ASSUME IdentityInv, NEW s \in Sessions
  PROVE  client[s] \in Client /\ Identity(s) \subseteq Accounts
BY DEF IdentityInv, IdentitiesTyped, Identity, Client

(* A command, or a reply's reading of the binding, moves on. *)
LEMMA TokenStepKeepsInv ==
  ASSUME IdentityInv, NEW s \in Sessions, TokenStep(s), UNCHANGED <<card, acted>>
  PROVE  IdentityInv'
<1> USE DEF TokenPlaces
<1>1. client[s] \in Client /\ Identity(s) \subseteq Accounts /\ Backed(s)
  BY IdentityTyped DEF IdentityInv
<1>2. /\ "identify" \notin Admitted /\ "bind" \notin Admitted /\ "unbind" \notin Admitted
      /\ "identify" \notin Checked /\ "bind" \notin Checked /\ "unbind" \notin Checked
      /\ "whoami" \in Admitted /\ "binding" \in Admitted /\ "whoami" \in Checked
      /\ CallPlaces \subseteq Checked /\ "whoami" \notin CallPlaces
  BY DEF Admitted, Checked, CallPlaces, ReplyPlaces
<1>3. ASSUME NEW a \in Actors, Logout(s, a)
      PROVE  IdentityInv'
  <2>1. TablesKept
    BY <1>3, TablesUntouched DEF Logout
  <2> QED
    BY <1>2, <1>3, <2>1, ClientOfTyped, MoveKeepsInv DEF Logout
<1>4. ASSUME NEW a \in Actors, NEW t \in Tokens, Login(s, a, t)
      PROVE  IdentityInv'
  <2>1. TablesKept
    BY <1>4, TablesUntouched DEF Login
  <2> QED
    BY <1>2, <1>4, <2>1, ClientOfTyped, MoveKeepsInv DEF Login
<1>5. CASE Identify(s)
  <2>1. TablesKept /\ UNCHANGED <<owner, card>>
    BY <1>5, TablesUntouched DEF Identify
  <2>2. CASE Leave(s)
    BY <2>1, <2>2, LeaveKeepsInv
  <2>3. CASE Begin(s, "bind", [client[s] EXCEPT !.account = Identity(s)])
    <3> DEFINE memory == [client[s] EXCEPT !.account = Identity(s)]
    <3>1. memory \in Client /\ memory.actor = client[s].actor
      BY <1>1 DEF Client
    <3>2. client[s].actor \in Actors
      BY <1>1, <1>5 DEF Backed, Identify, At
    <3> QED
      BY <1>2, <2>1, <2>3, <3>1, <3>2, MoveKeepsInv
  <2> QED
    BY <1>5, <2>2, <2>3 DEF Identify
<1>6. CASE Bind(s)
  <2>1. client[s].actor \in Actors
    BY <1>1, <1>6 DEF Backed, Bind, At
  <2> QED
    BY <1>6, <2>1, StoredKeepsTables, LeaveKeepsInv DEF Bind
<1>7. CASE Unbind(s)
  BY <1>7, RemovedKeepsTables, LeaveKeepsInv DEF Unbind
<1>8. CASE ReadBinding(s)
  <2> DEFINE bound == binding[client[s].actor]
             memory == ClientOf(client[s].actor, {row.token : row \in bound},
                                {row.account : row \in bound})
  <2>1. TablesKept /\ UNCHANGED <<owner, proven, card>>
    BY <1>8, TablesUntouched DEF ReadBinding
  <2>2. CASE Leave(s)
    BY <2>1, <2>2, LeaveKeepsInv
  <2>3. CASE Begin(s, "whoami", memory)
    <3>1. client[s].actor \in Actors /\ client[s].actor \in card.granted
      BY <1>1, <1>2, <1>8 DEF Backed, ReadBinding, At
    <3>2. bound \subseteq Row /\ \A row \in bound : row.account \in proven[client[s].actor]
      BY <3>1 DEF IdentityInv, IdentitiesTyped, BindingsProven
    <3>3. /\ {row.token : row \in bound} \in SUBSET Tokens
          /\ {row.account : row \in bound} \in SUBSET Accounts
      BY <3>2 DEF Row
    <3>4. /\ memory \in Client /\ memory.actor = client[s].actor
          /\ memory.account = {row.account : row \in bound}
      BY <3>1, <3>3, ClientOfTyped
    <3>5. memory.account \subseteq proven'[memory.actor]
      BY <2>1, <3>2, <3>4
    <3> QED
      BY <1>2, <2>1, <2>3, <3>1, <3>4, <3>5, MoveKeepsInv
  <2> QED
    BY <1>8, <2>2, <2>3 DEF ReadBinding
<1>9. CASE TokenCallFails(s)
  <2>1. client[s].actor \in Actors
    BY <1>1, <1>9 DEF Backed, TokenCallFails
  <2>2. TablesKept
    <3>1. CASE UNCHANGED <<binding, proven>>
      BY <3>1, TablesUntouched
    <3>2. CASE Stored(s)
      BY <2>1, <3>2, StoredKeepsTables
    <3>3. CASE Removed(s)
      BY <3>3, RemovedKeepsTables
    <3> QED
      BY <1>9, <3>1, <3>2, <3>3 DEF TokenCallFails
  <2> QED
    BY <1>9, <2>2, LeaveKeepsInv DEF TokenCallFails
<1> QED
  BY <1>3, <1>4, <1>5, <1>6, <1>7, <1>8, <1>9 DEF TokenStep

(* Only here does a handler get to calls, with a token that is of the      *)
(* account it was bound with.                                              *)
LEMMA CheckTokenKeepsInv ==
  ASSUME IdentityInv, NEW s \in Sessions, CheckToken(s)
  PROVE  IdentityInv'
<1>1. Whoami(s, FirstCall(reply[s].text)) /\ UNCHANGED <<card, vikVars>>
  BY DEF CheckToken
<1>2. TablesKept /\ UNCHANGED <<owner, proven, card>> /\ pc[s] = "whoami"
  BY <1>1, TablesUntouched DEF Whoami, At, vikVars
<1>3. CASE Leave(s)
  BY <1>2, <1>3, LeaveKeepsInv
<1>4. CASE SameIdentity(s) /\ Go(s, FirstCall(reply[s].text))
  <2>1. client[s] \in Client /\ Backed(s)
    BY IdentityTyped DEF IdentityInv
  <2>2. /\ client[s].actor \in Actors /\ client[s].actor \in card.granted
        /\ client[s].account \subseteq proven[client[s].actor]
    BY <1>2, <2>1 DEF Backed, Checked, Admitted
  <2>3. Begin(s, FirstCall(reply[s].text), client[s])
    BY <1>4 DEF Go, Begin, IdentityInv, IdentitiesTyped
  <2>4. FirstCall(reply[s].text) \in TokenPlaces \cup ReplyPlaces
    BY FirstCallIsCall DEF CallPlaces
  <2> QED
    BY <1>2, <1>4, <2>1, <2>2, <2>3, <2>4, MoveKeepsInv DEF SameIdentity, Identity
<1> QED
  BY <1>1, <1>3, <1>4 DEF Whoami

(* Vikunja: an identity only shrinks while it is relied on. *)
LEMMA TokenChangesKeepInv ==
  ASSUME IdentityInv, TokenChanges
  PROVE  IdentityInv'
<1>1. PICK t \in Tokens : Revoke(t) \/ Rehome(t)
  BY DEF TokenChanges
<1>2. UNCHANGED <<binding, proven, pc, client, card, acted>>
  BY <1>1 DEF TokenChanges, Revoke, Rehome, Changes, vikVars
<1>3. /\ owner' \in [Tokens -> Accounts \cup {Nobody}]
      /\ \A s \in Sessions : pc[s] \in CallPlaces => Identity(s)' \subseteq Identity(s)
  <2>1. CASE Revoke(t)
    BY <1>2, <2>1 DEF Revoke, Changes, Identity, IdentityInv, IdentitiesTyped, Client
  <2>2. CASE Rehome(t)
    <3>1. "idle" \notin CallPlaces
      BY DEF CallPlaces, ReplyPlaces
    <3> QED
      BY <2>2, <3>1 DEF Rehome, Changes, Quiet, At, IdentityInv, IdentitiesTyped
  <2> QED
    BY <1>1, <2>1, <2>2
<1>4. \A s \in Sessions : Backed(s)'
  BY <1>2, <1>3 DEF IdentityInv, Backed
<1> QED
  BY <1>2, <1>3, <1>4 DEF IdentityInv, IdentitiesTyped, BindingsProven, ActsAsOwnAccount

-----------------------------------------------------------------------------
(* Replies. *)

LEMMA StartReplyKeepsInv ==
  ASSUME IdentityInv, NEW s \in Sessions, NEW a \in Actors, NEW spot, NEW text,
         StartReply(s, a, spot, text)
  PROVE  IdentityInv'
<1>1. TablesKept /\ UNCHANGED <<owner, card>> /\ Begin(s, "card", ClientOf(a, {}, {}))
  BY TablesUntouched DEF StartReply, vikVars
<1>2. "card" \in ReplyPlaces /\ "card" \notin Admitted /\ "card" \notin Checked
      /\ "card" \notin CallPlaces
  BY DEF ReplyPlaces, Admitted, Checked, CallPlaces
<1> QED
  BY <1>1, <1>2, ClientOfTyped, MoveKeepsInv

LEMMA DismissKeepsInv ==
  ASSUME IdentityInv, NEW s \in Sessions, Dismiss(s), UNCHANGED <<taskFrame, acted>>
  PROVE  IdentityInv'
BY TablesUntouched, LeaveKeepsInv DEF Dismiss, taskFrame

LEMMA AdmitKeepsInv ==
  ASSUME IdentityInv, NEW s \in Sessions, pc[s] # "idle", Admit(s),
         UNCHANGED <<taskFrame, acted>>
  PROVE  IdentityInv'
<1>1. CASE Dismiss(s)
  BY <1>1, DismissKeepsInv
<1>2. CASE Allowed(s) /\ Go(s, "binding")
  <2>1. client[s] \in Client /\ client[s].actor \in Actors /\ client[s].actor \in card.granted
    BY <1>2, IdentityTyped DEF IdentityInv, Backed, Allowed
  <2>2. Begin(s, "binding", client[s])
    BY <1>2 DEF Go, Begin, IdentityInv, IdentitiesTyped
  <2>3. "binding" \in TokenPlaces /\ "binding" \notin Checked /\ "binding" \notin CallPlaces
    BY DEF TokenPlaces, Checked, CallPlaces, ReplyPlaces
  <2>4. TablesKept /\ UNCHANGED <<owner, card>>
    BY TablesUntouched DEF taskFrame
  <2> QED
    BY <2>1, <2>2, <2>3, <2>4, MoveKeepsInv
<1> QED
  BY <1>1, <1>2 DEF Admit

LEMMA FindCardKeepsInv ==
  ASSUME IdentityInv, NEW s \in Sessions,
         FindCard(s) \/ FindCardOfThread(s) \/ LookupFails(s)
  PROVE  IdentityInv'
<1>1. pc[s] # "idle" /\ UNCHANGED <<taskFrame, acted>>
  BY DEF FindCard, FindCardOfThread, LookupFails, At, taskFrame, vikVars
<1>2. CASE Admit(s) \/ Dismiss(s)
  BY <1>1, <1>2, AdmitKeepsInv, DismissKeepsInv
<1>3. CASE Go(s, "thread")
  <2>1. client[s] \in Client /\ client[s].actor \in Actors
    BY <1>1, IdentityTyped DEF IdentityInv, Backed
  <2>2. Begin(s, "thread", client[s])
    BY <1>3 DEF Go, Begin, IdentityInv, IdentitiesTyped
  <2>3. "thread" \in ReplyPlaces /\ "thread" \notin Admitted /\ "thread" \notin Checked
        /\ "thread" \notin CallPlaces
    BY DEF ReplyPlaces, Admitted, Checked, CallPlaces
  <2>4. TablesKept /\ UNCHANGED <<owner, card>>
    BY <1>1, TablesUntouched DEF taskFrame
  <2> QED
    BY <2>1, <2>2, <2>3, <2>4, MoveKeepsInv
<1> QED
  BY <1>2, <1>3 DEF FindCard, FindCardOfThread, LookupFails

(* Every call, done, refused or failed, is made with the client that was   *)
(* checked.                                                                *)
LEMMA CallsKeepInv ==
  ASSUME IdentityInv, NEW s \in Sessions,
         \/ ReadLabels(s) \/ SearchLabel(s) \/ CreateLabel(s) \/ ToggleLabel(s)
         \/ ReadAssignees(s) \/ FindUser(s) \/ ToggleUser(s) \/ AddComment(s)
         \/ Refused(s) \/ CallFails(s)
  PROVE  IdentityInv'
<1>1. pc[s] \in CallPlaces
  BY DEF ReadLabels, SearchLabel, CreateLabel, ToggleLabel, ReadAssignees, FindUser,
         ToggleUser, AddComment, Refused, CallFails, At, CallPlaces, ReplyPlaces
<1>2. UNCHANGED taskFrame
  BY DEF ReadLabels, SearchLabel, CreateLabel, ToggleLabel, ReadAssignees, FindUser,
         ToggleUser, AddComment, Refused, CallFails
<1>3. acted' = acted \/ Signed(s)
  BY DEF ReadLabels, SearchLabel, CreateLabel, ToggleLabel, ReadAssignees, FindUser,
         ToggleUser, AddComment, Refused, CallFails, CarriedOut, vikVars
<1>4. \E place \in CallPlaces \cup {"done", "failed"} : Go(s, place)
  <2> USE DEF Then, CallPlaces, ReplyPlaces
  <2>1. CASE ToggleLabel(s) \/ ToggleUser(s)
    BY <2>1, FollowingIsCall DEF ToggleLabel, ToggleUser
  <2>2. CASE ReadLabels(s) \/ CreateLabel(s) \/ ReadAssignees(s) \/ AddComment(s)
    BY <2>2 DEF ReadLabels, CreateLabel, ReadAssignees, AddComment
  <2>3. CASE SearchLabel(s) \/ FindUser(s)
    BY <2>3 DEF SearchLabel, FindUser
  <2>4. CASE Refused(s) \/ CallFails(s)
    BY <2>4 DEF Refused, CallFails
  <2> QED
    BY <2>1, <2>2, <2>3, <2>4
<1> QED
  BY <1>1, <1>2, <1>3, <1>4, CallKeepsInv

LEMMA TellKeepsInv ==
  ASSUME IdentityInv, NEW s \in Sessions, Tell(s)
  PROVE  IdentityInv'
BY DismissKeepsInv DEF Tell, vikVars

-----------------------------------------------------------------------------
LEMMA InitEstablishesInv ==
  ASSUME Init
  PROVE  IdentityInv
<1>1. IdentitiesTyped
  BY DEF Init, TokenInit, IdentitiesTyped, Rows, NoClient, ClientOf, Client, TokenPlaces, Row
<1>2. BindingsProven
  BY DEF Init, TokenInit, BindingsProven
<1>3. "idle" \notin Admitted /\ "idle" \notin Checked /\ "idle" \notin CallPlaces
  BY DEF Admitted, Checked, CallPlaces, ReplyPlaces
<1>4. \A s \in Sessions : Backed(s)
  BY <1>3 DEF Init, TokenInit, Backed
<1> QED
  BY <1>1, <1>2, <1>4 DEF IdentityInv, Init, ActsAsOwnAccount

LEMMA NextKeepsInv ==
  ASSUME IdentityInv, [Next]_vars
  PROVE  IdentityInv'
<1>1. CASE UNCHANGED vars
  BY <1>1 DEF vars, tokenVars, vikVars, IdentityInv, IdentitiesTyped, BindingsProven,
              Backed, Identity, ActsAsOwnAccount
<1>2. ASSUME NEW s \in Sessions, Command(s)
      PROVE  IdentityInv'
  BY <1>2, TokenStepKeepsInv DEF Command, vikVars
<1>3. ASSUME NEW s \in Sessions, CheckToken(s)
      PROVE  IdentityInv'
  BY <1>3, CheckTokenKeepsInv
<1>4. ASSUME NEW s \in Sessions, Act(s)
      PROVE  IdentityInv'
  <2>1. ASSUME NEW a \in Actors, NEW spot \in Spots, NEW text \in Texts,
               StartReply(s, a, spot, text)
        PROVE  IdentityInv'
    BY <2>1, StartReplyKeepsInv
  <2> QED
    BY <1>4, <2>1, FindCardKeepsInv, CallsKeepInv, TellKeepsInv DEF Act
<1>5. CASE TokenChanges
  BY <1>5, TokenChangesKeepInv
<1> QED
  BY <1>1, <1>2, <1>3, <1>4, <1>5 DEF Next

(* Whatever the order of replies, logins, logouts, revocations and failures*)
(* the task is changed only for an actor the card grants it to, under an   *)
(* account that actor has supplied a token of (tokens.py:97-107).          *)
THEOREM NobodyElsesAccount == Spec => []ActsAsOwnAccount
<1>1. Init => IdentityInv
  BY InitEstablishesInv
<1>2. IdentityInv /\ [Next]_vars => IdentityInv'
  BY NextKeepsInv
<1>3. IdentityInv => ActsAsOwnAccount
  BY DEF IdentityInv
<1> QED
  BY <1>1, <1>2, <1>3, PTL DEF Spec

-----------------------------------------------------------------------------
(* What a handler keeps in mind.  Due: the words still to be acted on;     *)
(* Handled: those it is through with.                                      *)
Firsts(text, kind) == FirstWords(text) \cap Positions(text, kind)
Due(r, kind) == r.todo \cap Positions(r.text, kind)
Handled(r, kind) == Firsts(r.text, kind) \ r.todo

Early == {"card", "thread", "binding", "whoami", "labels"}
Labelling == {"search", "create", "label"}
Assigning == {"finduser", "user"}

(* Each deed reported is of a word that was handled. *)
DeedFits(place, r, deed) ==
  /\ deed.what = "label" =>
       /\ deed.id \in DOMAIN label
       /\ \E k \in Handled(r, "label") : r.text[k].title = label[deed.id].title
  /\ deed.what = "user" => \E k \in Handled(r, "user") : r.text[k].name = deed.id
  /\ deed.what = "comment" => place \in {"done", "failed"}

Fits(place, r) ==
  /\ r.todo \subseteq FirstWords(r.text)
  /\ place \in {"binding", "whoami", "labels"} => r.todo = FirstWords(r.text)
  /\ place \in Early => r.done = << >>
  /\ place \in {"labels"} \cup Labelling => Due(r, "label") # {}
  /\ place \in {"labels", "assignees"} \cup Labelling => Firsts(r.text, "user") \subseteq r.todo
  /\ place \in {"assignees"} \cup Assigning => Due(r, "user") # {}
  /\ place \in {"assignees", "comment", "done"} \cup Assigning => Due(r, "label") = {}
  /\ place \in {"comment", "done"} => Due(r, "user") = {}
  /\ place = "label" => \E i \in LabelsOf(r.text[Least(Due(r, "label"))].title) : r.target = {i}
  /\ place = "user" => /\ r.target = {r.text[Least(Due(r, "user"))].name}
                       /\ r.target \subseteq Accounts
  /\ \A t \in Titles : r.known[t] = 0 \/ r.known[t] \in LabelsOf(t)
  /\ \A n \in DOMAIN r.done : DeedFits(place, r, r.done[n])
  /\ place \notin ReplyPlaces \cup {"binding", "whoami"} => r.before = {}

(* A reply without company: nobody else is under way, and what it has done *)
(* is what it will report.                                                 *)
Only(t, i) == label[i].title = t /\ \A j \in LabelsOf(t) : j = i
OneSpelling(text, t) == \A m, n \in Positions(text, "label") :
                          text[m].title = t /\ text[n].title = t => text[m] = text[n]

LabelsTold(s, before) ==
  \A i \in DOMAIN label : (i \in task.labels) = Expected(s, "label", i, before.labels)
UsersTold(s, before) ==
  \A u \in Accounts : (u \in task.users) = Expected(s, "user", u, before.users)
CommentTold(s, before) == task.comments = before.comments + Commented(s)

LabelsToggled(s, before) ==
  \A t \in Titles : OneSpelling(reply[s].text, t) =>
    \A i \in DOMAIN label : Only(t, i) =>
      (((i \in task.labels) # (i \in before.labels))
         <=> \E k \in Handled(reply[s], "label") : reply[s].text[k].title = t)
UsersToggled(s, before) ==
  \A u \in Accounts :
    ((u \in task.users) # (u \in before.users))
      <=> \E k \in Handled(reply[s], "user") : reply[s].text[k].name = u

AllTold(s, before) ==
  /\ LabelsTold(s, before) /\ UsersTold(s, before) /\ CommentTold(s, before)
  /\ LabelsToggled(s, before) /\ UsersToggled(s, before)

Toggling == {"assignees", "comment", "done"} \cup Labelling \cup Assigning

Course(s, before) ==
  /\ before.labels \subseteq DOMAIN label
  /\ pc[s] \in Early => task = before
  /\ pc[s] \in Labelling => \A t \in Titles, i \in DOMAIN label :
       Only(t, i) => ((i \in task.labels) <=> reply[s].known[t] = i)
  /\ pc[s] \in Assigning => reply[s].users = task.users
  /\ pc[s] \in Toggling => AllTold(s, before)
  /\ pc[s] = "failed" =>
       /\ Cardinality(Unreported(s, before)) <= 1
       /\ (\A t \in Titles : OneSpelling(reply[s].text, t)) =>
            \A thing \in Unreported(s, before) : LastWord(s, thing[1], thing[2]) = {}

FitsInv == \A s \in Sessions : Fits(pc[s], reply[s])

LoneInv ==
  \A s \in Sessions : \A before \in reply[s].before :
    /\ \A q \in Sessions \ {s} : pc[q] = "idle"
    /\ Course(s, before)

(* As long as handlers do not overlap there is one at a time, and a label  *)
(* about to be made was not found.                                         *)
OneAtATime == \A s, q \in Sessions : pc[s] # "idle" /\ pc[q] # "idle" => s = q
NotFound == \A s \in Sessions : At(s, "create") => Matches(Current(s, "label")) = {}
Covering(t) == {i \in DOMAIN label : label[i].title >= t}
Unique == \A t \in Titles : Cardinality(Covering(t)) <= PageSize => Cardinality(LabelsOf(t)) <= 1

UniqueInv == Sequential => OneAtATime /\ NotFound /\ Unique

ReplyTyped ==
  /\ faults \in 0 .. MaxFaults
  /\ overlaps \in 0 .. MaxOverlaps /\ commands \in 0 .. MaxCommands
  /\ card \in Card
  /\ label \in Seq(Label)
  /\ task \in Task /\ task.labels \subseteq DOMAIN label
  /\ reply \in [Sessions -> Reply]

ReplyInv == IdentitiesTyped /\ ReplyTyped /\ FitsInv

-----------------------------------------------------------------------------
(* The words of a text, and the least of a set of positions.               *)
LEMMA LeastIn ==
  ASSUME NEW S \in SUBSET Nat, S # {}
  PROVE  Least(S) \in S /\ \A m \in S : Least(S) <= m
<1>1. PICK x \in S : \A y \in S : ~(<<y, x>> \in OpToRel(<, Nat))
  BY WFMin, NatLessThanWellFounded
<1>2. \A y \in S : x <= y
  <2> SUFFICES ASSUME NEW y \in S PROVE x <= y
    OBVIOUS
  <2>1. ~(y < x)
    BY <1>1 DEF OpToRel
  <2> QED
    BY <2>1
<1> QED
  BY <1>1, <1>2 DEF Least

LEMMA Words ==
  ASSUME NEW text \in Seq(Word)
  PROVE  /\ DOMAIN text = 1 .. Len(text)
         /\ \A n \in Positions(text, "label") : text[n] \in LabelWord
         /\ \A n \in Positions(text, "user") : text[n] \in UserWord
         /\ Positions(text, "label") \cap Positions(text, "user") = {}
         /\ \A kind : Positions(text, kind) \subseteq DOMAIN text
         /\ FirstWords(text) \subseteq Positions(text, "label") \cup Positions(text, "user")
         /\ FirstWords(text) \in SUBSET (Nat \ {0})
<1>1. DOMAIN text = 1 .. Len(text) /\ \A n \in DOMAIN text : text[n] \in Word
  OBVIOUS
<1>2. \A n \in Positions(text, "label") : text[n] \in LabelWord
  BY <1>1 DEF Positions, Word, LabelWord, UserWord, PlainWord
<1>3. \A n \in Positions(text, "user") : text[n] \in UserWord
  BY <1>1 DEF Positions, Word, LabelWord, UserWord, PlainWord
<1> QED
  BY <1>1, <1>2, <1>3 DEF Positions, FirstWords

(* Equal words have one first among them, and first words are different.   *)
LEMMA FirstWordsDiffer ==
  ASSUME NEW text \in Seq(Word), NEW m \in FirstWords(text), NEW n \in FirstWords(text),
         text[m] = text[n]
  PROVE  m = n
<1>1. m \in Nat /\ n \in Nat /\ m > 0 /\ n > 0
  BY Words
<1> QED
  BY <1>1 DEF FirstWords

LEMMA FirstWordExists ==
  ASSUME NEW text \in Seq(Word), NEW kind \in {"label", "user"}, NEW n \in Positions(text, kind)
  PROVE  \E k \in Firsts(text, kind) : text[k] = text[n]
<1> DEFINE S == {k \in DOMAIN text : text[k] = text[n]}
           k == Least(S)
<1>1. n \in S /\ S \in SUBSET Nat /\ S # {} /\ DOMAIN text = 1 .. Len(text)
  BY Words DEF Positions
<1>2. k \in S /\ \A m \in S : k <= m
  BY <1>1, LeastIn
<1> HIDE DEF k
<1>3. k \in Positions(text, kind)
  BY <1>2 DEF Positions
<1>4. \A m \in 1 .. k - 1 : text[m] # text[k]
  <2> SUFFICES ASSUME NEW m \in 1 .. k - 1, text[m] = text[k] PROVE FALSE
    OBVIOUS
  <2>1. k \in Nat /\ k <= Len(text) /\ Len(text) \in Nat /\ text[k] = text[n]
    BY <1>1, <1>2
  <2>2. m \in S /\ m < k
    BY <1>1, <2>1
  <2> QED
    BY <1>2, <2>1, <2>2
<1> QED
  BY <1>2, <1>3, <1>4 DEF Firsts, FirstWords

LEMMA LargestIn ==
  ASSUME NEW n \in Nat, NEW S \in SUBSET (1 .. n), S # {}
  PROVE  Largest(S) \in S /\ \A m \in S : m <= Largest(S)
<1> DEFINE T == {k \in Nat : \A m \in S : m <= k}
           k == Least(T)
<1>1. n \in T /\ T \in SUBSET Nat
  OBVIOUS
<1>2. k \in T /\ \A m \in T : k <= m
  BY <1>1, LeastIn
<1> HIDE DEF k
<1>3. k \in S
  <2> SUFFICES ASSUME k \notin S PROVE FALSE
    OBVIOUS
  <2>1. k \in Nat /\ \A m \in S : m <= k /\ m # k /\ m \in Nat
    BY <1>2
  <2>2. k - 1 \in Nat /\ \A m \in S : m <= k - 1
    <3>1. PICK x \in S : TRUE
      OBVIOUS
    <3>2. x \in Nat /\ x < k
      BY <2>1
    <3> QED
      BY <2>1, <3>2
  <2> QED
    BY <1>2, <2>1, <2>2
<1> QED
  BY <1>2, <1>3 DEF Largest

LEMMA SomethingDue ==
  ASSUME NEW r \in Reply, NEW kind, Due(r, kind) # {}, r.todo \subseteq FirstWords(r.text)
  PROVE  /\ Least(Due(r, kind)) \in Firsts(r.text, kind)
         /\ Least(Due(r, kind)) \in r.todo
         /\ Least(Due(r, kind)) \in Positions(r.text, kind)
<1>1. r.todo \in SUBSET Nat
  BY DEF Reply
<1> QED
  BY <1>1, LeastIn DEF Due, Firsts

LEMMA KnownIsLabel ==
  ASSUME label \in Seq(Label), NEW ids \in SUBSET DOMAIN label, NEW t \in Titles
  PROVE  /\ Known(ids)[t] = 0 /\ {i \in ids : label[i].title = t} = {}
         \/ Known(ids)[t] \in {i \in ids : label[i].title = t}
<1> DEFINE same == {i \in ids : label[i].title = t}
<1>1. DOMAIN label = 1 .. Len(label) /\ Len(label) \in Nat
  OBVIOUS
<1>2. same \in SUBSET (1 .. Len(label))
  BY <1>1
<1>3. Known(ids)[t] = IF same = {} THEN 0 ELSE Largest(same)
  BY DEF Known
<1> QED
  BY <1>1, <1>2, <1>3, LargestIn

-----------------------------------------------------------------------------
(* Labels are only added. *)
Grown ==
  /\ label' \in Seq(Label) /\ DOMAIN label \subseteq DOMAIN label'
  /\ \A i \in DOMAIN label : label'[i] = label[i]

LEMMA FitsLasts ==
  ASSUME Grown, NEW place, NEW r, Fits(place, r)
  PROVE  Fits(place, r)'
<1>1. \A t : LabelsOf(t) \subseteq LabelsOf(t)'
  BY DEF Grown, LabelsOf
<1>2. \A n \in DOMAIN r.done : DeedFits(place, r, r.done[n])'
  BY DEF Fits, DeedFits, Grown
<1> QED
  BY <1>1, <1>2 DEF Fits

(* A handler that is under way goes on. *)
Turns(s, place, memory) ==
  /\ pc[s] # "idle"
  /\ pc' = [pc EXCEPT ![s] = place]
  /\ reply' = [reply EXCEPT ![s] = memory]
  /\ memory.before \subseteq reply[s].before

FitTurn(s) ==
  \E place, memory : /\ Turns(s, place, memory)
                     /\ memory \in Reply /\ Fits(place, memory)'

LEMMA TurnKeepsFits ==
  ASSUME ReplyInv, Grown, NEW s \in Sessions, FitTurn(s)
  PROVE  reply' \in [Sessions -> Reply] /\ FitsInv'
<1>1. PICK place, memory : /\ Turns(s, place, memory)
                           /\ memory \in Reply /\ Fits(place, memory)'
  BY DEF FitTurn
<1>2. pc' = [pc EXCEPT ![s] = place] /\ reply' = [reply EXCEPT ![s] = memory]
  BY <1>1 DEF Turns
<1>3. pc \in [Sessions -> TokenPlaces \cup ReplyPlaces] /\ reply \in [Sessions -> Reply]
  BY DEF ReplyInv, IdentitiesTyped, ReplyTyped
<1>4. ASSUME NEW q \in Sessions
      PROVE  Fits(pc[q], reply[q])'
  <2>1. CASE q = s
    <3>1. pc'[q] = place /\ reply'[q] = memory
      BY <1>2, <1>3, <2>1
    <3> QED
      BY <1>1, <3>1
  <2>2. CASE q # s
    <3>1. PICK p, r : p = pc[q] /\ r = reply[q]
      OBVIOUS
    <3>2. pc'[q] = p /\ reply'[q] = r
      BY <1>2, <1>3, <2>2, <3>1
    <3>3. Fits(p, r)
      BY <3>1 DEF ReplyInv, FitsInv
    <3>4. Fits(p, r)'
      BY <3>3, FitsLasts
    <3> QED
      BY <3>2, <3>4
  <2> QED
    BY <2>1, <2>2
<1> QED
  BY <1>1, <1>2, <1>3, <1>4 DEF FitsInv

LEMMA NoReplyFits ==
  /\ NoReply \in Reply /\ \A place : place \in TokenPlaces \ {"binding", "whoami"} =>
                            Fits(place, NoReply) /\ Fits(place, NoReply)'
<1>1. NoReply \in Reply
  BY EmptySeq DEF NoReply, Reply, Spots
<1>2. FirstWords(<< >>) = {} /\ \A kind : Positions(<< >>, kind) = {}
  BY DEF FirstWords, Positions
<1>3. ASSUME NEW place, place \in TokenPlaces \ {"binding", "whoami"}
      PROVE  Fits(place, NoReply) /\ Fits(place, NoReply)'
  BY <1>2, <1>3 DEF Fits, NoReply, TokenPlaces, Early, Labelling, Assigning, Due, Firsts
<1> QED
  BY <1>1, <1>3

(* The lookup of the card, and the end. *)
LEMMA DismissTurns ==
  ASSUME ReplyInv, NEW s \in Sessions, pc[s] # "idle", Dismiss(s)
  PROVE  FitTurn(s)
<1>1. Turns(s, "idle", NoReply)
  BY DEF Dismiss, Leave, Begin, Remember, Turns, NoReply
<1> QED
  BY <1>1, NoReplyFits DEF FitTurn, TokenPlaces

LEMMA AdmitTurns ==
  ASSUME ReplyInv, Grown, NEW s \in Sessions, pc[s] \in {"card", "thread"}, Admit(s)
  PROVE  FitTurn(s)
<1>1. CASE Dismiss(s)
  BY <1>1, DismissTurns
<1>2. CASE ~Dismiss(s)
  <2>1. PICK r : r = reply[s]
    OBVIOUS
  <2>2. PICK m : m = [r EXCEPT !.spot = "card", !.todo = FirstWords(r.text)]
    OBVIOUS
  <2>3. r \in Reply /\ Fits(pc[s], r) /\ r.text \in Seq(Word)
    BY <2>1 DEF ReplyInv, ReplyTyped, FitsInv, Reply
  <2>4. Turns(s, "binding", m)
    BY <1>2, <2>1, <2>2, <2>3 DEF Admit, Go, Remember, Turns, Reply
  <2>5. m \in Reply
    BY <2>2, <2>3, Words DEF Reply, Spots
  <2>6. r.done = << >> /\ \A t \in Titles : r.known[t] = 0 \/ r.known[t] \in LabelsOf(t)
    BY <2>3 DEF Fits, Early
  <2>7. Fits("binding", m)
    BY <2>2, <2>3, <2>6 DEF Fits, Early, Labelling, Assigning, Reply
  <2> QED
    BY <2>4, <2>5, <2>7, FitsLasts DEF FitTurn
<1> QED
  BY <1>1, <1>2

LEMMA TextTyped ==
  ASSUME ReplyInv, NEW s \in Sessions
  PROVE  /\ reply[s] \in Reply /\ reply[s].text \in Seq(Word) /\ Fits(pc[s], reply[s])
         /\ reply[s].todo \subseteq FirstWords(reply[s].text)
         /\ pc[s] \in TokenPlaces \cup ReplyPlaces
BY DEF ReplyInv, IdentitiesTyped, ReplyTyped, FitsInv, Reply, Fits

(* A handler goes on with the same memory. *)
LEMMA MovesOn ==
  ASSUME ReplyInv, Grown, NEW s \in Sessions, NEW place, pc[s] # "idle",
         pc' = [pc EXCEPT ![s] = place], UNCHANGED reply,
         Fits(place, reply[s])
  PROVE  FitTurn(s)
<1>1. PICK m : m = reply[s]
  OBVIOUS
<1>2. Turns(s, place, m)
  BY <1>1 DEF Turns, ReplyInv, ReplyTyped
<1>3. Fits(place, m)'
  BY <1>1, FitsLasts
<1> QED
  BY <1>1, <1>2, <1>3, TextTyped DEF FitTurn

LEMMA LookupTurns ==
  ASSUME ReplyInv, Grown, NEW s \in Sessions,
         FindCard(s) \/ FindCardOfThread(s) \/ LookupFails(s) \/ Tell(s)
  PROVE  FitTurn(s)
<1>1. pc[s] # "idle"
  BY DEF FindCard, FindCardOfThread, LookupFails, Tell, At
<1>2. CASE Dismiss(s)
  BY <1>1, <1>2, DismissTurns
<1>3. CASE (FindCard(s) \/ FindCardOfThread(s)) /\ Admit(s)
  BY <1>3, AdmitTurns DEF FindCard, FindCardOfThread, At
<1>4. CASE FindCard(s) /\ Go(s, "thread") /\ UNCHANGED reply
  <2>1. Fits("thread", reply[s])
    BY <1>4, TextTyped DEF FindCard, At, Fits, Early, Labelling, Assigning, DeedFits, ReplyPlaces
  <2> QED
    BY <1>1, <1>4, <2>1, MovesOn DEF Go
<1> QED
  BY <1>2, <1>3, <1>4 DEF FindCard, FindCardOfThread, LookupFails, Tell

LEMMA FirstCallFits ==
  ASSUME ReplyInv, NEW s \in Sessions, At(s, "whoami")
  PROVE  Fits(FirstCall(reply[s].text), reply[s])
<1> DEFINE r == reply[s]
<1>1. /\ r.text \in Seq(Word) /\ r.done = << >> /\ r.todo = FirstWords(r.text)
      /\ \A t \in Titles : r.known[t] = 0 \/ r.known[t] \in LabelsOf(t)
  BY TextTyped DEF At, Fits, Early
<1>2. \A kind \in {"label", "user"} :
        /\ Due(r, kind) = Firsts(r.text, kind)
        /\ Positions(r.text, kind) = {} <=> Due(r, kind) = {}
  BY <1>1, FirstWordExists DEF Due, Firsts
<1> QED
  BY <1>1, <1>2 DEF Fits, FirstCall, Early, Labelling, Assigning, ReplyPlaces, Firsts

LEMMA CheckTokenTurns ==
  ASSUME ReplyInv, Grown, NEW s \in Sessions, CheckToken(s)
  PROVE  FitTurn(s)
<1>1. At(s, "whoami") /\ pc \in [Sessions -> TokenPlaces \cup ReplyPlaces]
  BY DEF CheckToken, Whoami, ReplyInv, IdentitiesTyped
<1>2. CASE Leave(s)
  BY <1>1, <1>2, DismissTurns DEF CheckToken, Leave, Begin, At, Dismiss
<1>3. CASE Go(s, FirstCall(reply[s].text))
  <2>1. pc'[s] # "idle"
    BY <1>1, <1>3, FirstCallIsCall DEF Go, CallPlaces, ReplyPlaces
  <2> QED
    BY <1>1, <1>3, <2>1, FirstCallFits, MovesOn DEF CheckToken, Go, At
<1> QED
  BY <1>2, <1>3 DEF CheckToken, Whoami

-----------------------------------------------------------------------------
(* The calls: what is at hand. *)
LEMMA AtHand ==
  ASSUME ReplyInv, NEW s \in Sessions, NEW kind \in {"label", "user"},
         Due(reply[s], kind) # {}
  PROVE  LET c == Least(Pending(s, kind))
             text == reply[s].text
         IN  /\ c \in Firsts(text, kind) /\ c \in reply[s].todo /\ c \in Due(reply[s], kind)
             /\ Current(s, kind) = text[c] /\ Left(s, kind) = reply[s].todo \ {c}
             /\ kind = "label" => text[c] \in LabelWord
             /\ kind = "user" => text[c] \in UserWord
<1>1. Pending(s, kind) = Due(reply[s], kind)
  BY DEF Pending, Due
<1> QED
  BY <1>1, TextTyped, SomethingDue, Words DEF Current, Left, Due

LEMMA LabelAtHand ==
  ASSUME ReplyInv, NEW s \in Sessions, At(s, "label")
  PROVE  LET c == Least(Pending(s, "label"))
         IN  \E x \in DOMAIN label :
               /\ reply[s].target = {x} /\ x \in Nat \ {0}
               /\ label[x].title = reply[s].text[c].title
               /\ x \in LabelsOf(reply[s].text[c].title)
               /\ Attached(s) <=> reply[s].known[reply[s].text[c].title] = x
               /\ (CHOOSE id \in reply[s].target : TRUE) = x
<1> DEFINE c == Least(Pending(s, "label"))
<1>1. /\ Due(reply[s], "label") # {} /\ Pending(s, "label") = Due(reply[s], "label")
      /\ \E i \in LabelsOf(reply[s].text[c].title) : reply[s].target = {i}
      /\ \A t \in Titles : reply[s].known[t] = 0 \/ reply[s].known[t] \in LabelsOf(t)
  BY TextTyped DEF At, Fits, Labelling, Pending, Due
<1>2. PICK x \in LabelsOf(reply[s].text[c].title) : reply[s].target = {x}
  BY <1>1
<1>3. x \in DOMAIN label /\ x \in Nat \ {0} /\ label[x].title = reply[s].text[c].title
  BY <1>2 DEF LabelsOf, ReplyInv, ReplyTyped
<1>4. reply[s].text[c].title \in Titles
  BY <1>1, AtHand DEF LabelWord
<1>5. \A t \in Titles : reply[s].known[t] \in reply[s].target => t = reply[s].text[c].title
  BY <1>1, <1>2, <1>3 DEF LabelsOf
<1>6. Attached(s) <=> reply[s].known[reply[s].text[c].title] = x
  BY <1>2, <1>4, <1>5 DEF Attached
<1> QED
  BY <1>2, <1>3, <1>6

LEMMA UserAtHand ==
  ASSUME ReplyInv, NEW s \in Sessions, At(s, "user")
  PROVE  LET u == Current(s, "user").name
         IN  /\ reply[s].target = {u} /\ u \in Accounts
             /\ Assigned(s) <=> u \in reply[s].users
             /\ (CHOOSE id \in reply[s].target : TRUE) = u
BY TextTyped DEF At, Fits, Assigned, Current, Pending, Due

(* Where the handler goes after a toggle. *)
LEMMA FollowingPlace ==
  ASSUME NEW text \in Seq(Word), NEW todo, NEW place, NEW kind \in {"label", "user"},
         place = Following(text, todo, kind)
  PROVE  /\ kind = "label" => place \in {"search", "assignees", "comment", "done"}
         /\ kind = "user" => place \in {"finduser", "comment", "done"}
         /\ place = "search" => todo \cap Positions(text, "label") # {}
         /\ place # "search" /\ kind = "label" => todo \cap Positions(text, "label") = {}
         /\ place = "finduser" => todo \cap Positions(text, "user") # {}
         /\ place = "assignees" => Firsts(text, "user") # {}
         /\ kind = "label" /\ place \in {"comment", "done"} => Positions(text, "user") = {}
         /\ kind = "user" /\ place # "finduser" => todo \cap Positions(text, "user") = {}
BY FirstWordExists DEF Following

-----------------------------------------------------------------------------
(* The calls, one by one. *)
LEMMA ReadTurns ==
  ASSUME ReplyInv, Grown, NEW s \in Sessions, ReadLabels(s) \/ ReadAssignees(s)
  PROVE  FitTurn(s)
<1> DEFINE r == reply[s]
<1>1. r \in Reply /\ Fits(pc[s], r) /\ pc[s] # "idle"
  BY TextTyped DEF ReadLabels, ReadAssignees, At
<1>2. CASE ReadLabels(s)
  <2>1. PICK m : m = [r EXCEPT !.known = Known(task.labels)]
    OBVIOUS
  <2>2. /\ \A t \in Titles : Known(task.labels)[t] = 0 \/ Known(task.labels)[t] \in LabelsOf(t)
        /\ Known(task.labels) \in [Titles -> Nat]
    <3>1. label \in Seq(Label) /\ task.labels \in SUBSET DOMAIN label
      BY DEF ReplyInv, ReplyTyped
    <3>2. \A t \in Titles : Known(task.labels)[t] = 0 \/ Known(task.labels)[t] \in LabelsOf(t)
      BY <3>1, KnownIsLabel DEF LabelsOf
    <3>3. \A t \in Titles : Known(task.labels)[t] \in Nat
      BY <3>1, <3>2 DEF LabelsOf
    <3>4. Known(task.labels) = [t \in Titles |-> Known(task.labels)[t]]
      BY DEF Known
    <3> QED
      BY <3>2, <3>3, <3>4
  <2>3. m \in Reply /\ m.before = r.before
    BY <1>1, <2>1, <2>2 DEF Reply
  <2>4. Turns(s, "search", m)
    BY <1>1, <1>2, <2>1, <2>3 DEF ReadLabels, Then, Go, Remember, Turns
  <2>5. Fits("search", m)
    BY <1>1, <1>2, <2>1, <2>2 DEF ReadLabels, At, Fits, Early, Labelling, Assigning, ReplyPlaces,
       Due, Firsts, Reply
  <2> QED
    BY <2>3, <2>4, <2>5, FitsLasts DEF FitTurn
<1>3. CASE ReadAssignees(s)
  <2>1. PICK m : m = [r EXCEPT !.users = task.users]
    OBVIOUS
  <2>2. m \in Reply /\ m.before = r.before
    BY <1>1, <2>1 DEF Reply, ReplyInv, ReplyTyped, Task
  <2>3. Turns(s, "finduser", m)
    BY <1>1, <1>3, <2>1, <2>2 DEF ReadAssignees, Then, Go, Remember, Turns
  <2>4. Fits("finduser", m)
    BY <1>1, <1>3, <2>1 DEF ReadAssignees, At, Fits, Early, Labelling, Assigning, ReplyPlaces,
       Due, Firsts, Reply, DeedFits, Handled
  <2> QED
    BY <2>2, <2>3, <2>4, FitsLasts DEF FitTurn
<1> QED
  BY <1>2, <1>3

LEMMA TargetTurns ==
  ASSUME ReplyInv, Grown, NEW s \in Sessions, NEW place \in {"label", "user"},
         place = "label" => pc[s] \in Labelling, place = "user" => pc[s] \in Assigning,
         NEW x \in Nat \cup Accounts,
         NEW title, place = "label" => /\ title = reply[s].text[Least(Due(reply[s], "label"))].title
                                       /\ x \in LabelsOf(title)',
         place = "user" => /\ x = reply[s].text[Least(Due(reply[s], "user"))].name
                           /\ x \in Accounts,
         Then(s, place, [reply[s] EXCEPT !.target = {x}])
  PROVE  FitTurn(s)
<1>1. PICK r : r = reply[s]
  OBVIOUS
<1>2. PICK m : m = [r EXCEPT !.target = {x}]
  OBVIOUS
<1>3. r \in Reply /\ Fits(pc[s], r) /\ pc[s] # "idle"
  BY <1>1, TextTyped DEF Labelling, Assigning
<1>4. m \in Reply /\ m.before = r.before
  BY <1>2, <1>3 DEF Reply
<1>5. Turns(s, place, m)
  BY <1>1, <1>2, <1>3, <1>4 DEF Then, Go, Remember, Turns
<1>6. PICK p : p = pc[s]
  OBVIOUS
<1>7. Fits(p, r)'
  BY <1>3, <1>6, FitsLasts
<1>8. Due(m, "label") = Due(r, "label") /\ Due(m, "user") = Due(r, "user")
      /\ Firsts(m.text, "user") = Firsts(r.text, "user") /\ m.target = {x}
      /\ m.text = r.text /\ m.todo = r.todo /\ m.done = r.done /\ m.known = r.known
      /\ \A kind : Handled(m, kind) = Handled(r, kind)
  BY <1>2, <1>3 DEF Reply, Due, Firsts, Handled
<1>9. \A n \in DOMAIN m.done : DeedFits(place, m, m.done[n])'
  BY <1>6, <1>7, <1>8 DEF Fits, DeedFits, Labelling, Assigning
<1>10. place = "label" => x \in LabelsOf(m.text[Least(Due(m, "label"))].title)'
  BY <1>1, <1>8
<1>11. place = "user" => x = m.text[Least(Due(m, "user"))].name
  BY <1>1, <1>8
<1>12. Fits(place, m)'
  BY <1>6, <1>7, <1>8, <1>9, <1>10, <1>11 DEF Fits, Early, Labelling, Assigning, ReplyPlaces
<1> QED
  BY <1>4, <1>5, <1>12 DEF FitTurn

LEMMA SearchTurns ==
  ASSUME ReplyInv, Grown, UNCHANGED label, NEW s \in Sessions, SearchLabel(s)
  PROVE  FitTurn(s)
<1> DEFINE word == Current(s, "label")
           found == Matches(word)
<1>1. /\ At(s, "search") /\ pc[s] \in Labelling /\ pc[s] # "idle"
      /\ Due(reply[s], "label") # {} /\ Fits(pc[s], reply[s])
  BY TextTyped DEF SearchLabel, At, Fits, Labelling
<1>2. CASE found = {}
  <2>1. pc' = [pc EXCEPT ![s] = "create"] /\ UNCHANGED reply
    BY <1>2 DEF SearchLabel, Go
  <2>2. Fits("create", reply[s])
    BY <1>1 DEF At, Fits, Early, Labelling, Assigning, ReplyPlaces, DeedFits
  <2> QED
    BY <1>1, <2>1, <2>2, MovesOn
<1>3. CASE found # {}
  <2>1. PICK x, title : x = Least(found) /\ title = word.title
    OBVIOUS
  <2>2. found \in SUBSET Nat /\ found \subseteq LabelsOf(title)
    <3>1. DOMAIN label \in SUBSET Nat
      BY DEF ReplyInv, ReplyTyped
    <3> QED
      BY <2>1, <3>1 DEF Matches, Hits, LabelsOf
  <2>3. x \in Nat /\ x \in LabelsOf(title)
    BY <1>3, <2>1, <2>2, LeastIn
  <2>4. x \in LabelsOf(title)'
    BY <2>3 DEF LabelsOf
  <2>5. title = reply[s].text[Least(Due(reply[s], "label"))].title
    BY <2>1 DEF Current, Pending, Due
  <2>6. Then(s, "label", [reply[s] EXCEPT !.target = {x}])
    BY <1>3, <2>1 DEF SearchLabel
  <2> QED
    BY <1>1, <2>3, <2>4, <2>5, <2>6, TargetTurns
<1> QED
  BY <1>2, <1>3

LEMMA CreatedGrows ==
  ASSUME ReplyInv, NEW s \in Sessions, At(s, "create"),
         label' = Created(Current(s, "label"))
  PROVE  LET word == Current(s, "label")
         IN  /\ Grown /\ word \in LabelWord
             /\ Len(label') = Len(label) + 1 /\ Len(label) \in Nat
             /\ DOMAIN label = 1 .. Len(label) /\ DOMAIN label' = 1 .. Len(label')
             /\ label'[Len(label')].title = word.title
             /\ DOMAIN label' = DOMAIN label \cup {Len(label')} /\ Len(label') \notin DOMAIN label
             /\ Len(label') # 0
<1>1. Due(reply[s], "label") # {}
  BY TextTyped DEF At, Fits, Labelling
<1>2. Current(s, "label") \in LabelWord
  BY <1>1, AtHand
<1> DEFINE new == [title |-> Current(s, "label").title, case |-> Current(s, "label").case]
<1>3. new \in Label /\ label \in Seq(Label) /\ label' = Append(label, new)
      /\ new.title = Current(s, "label").title
  BY <1>2 DEF LabelWord, Label, Created, ReplyInv, ReplyTyped
<1> HIDE DEF new
<1>4. /\ label' \in Seq(Label) /\ Len(label') = Len(label) + 1 /\ Len(label) \in Nat
      /\ \A i \in 1 .. Len(label) : label'[i] = label[i]
      /\ label'[Len(label) + 1] = new
  BY <1>3, AppendProperties
<1>5. DOMAIN label = 1 .. Len(label) /\ DOMAIN label' = 1 .. Len(label')
  BY <1>3, <1>4
<1>6. /\ DOMAIN label' = DOMAIN label \cup {Len(label')}
      /\ Len(label') \notin DOMAIN label /\ Len(label') # 0
  <2>1. PICK n \in Nat : n = Len(label) /\ Len(label') = n + 1
    BY <1>4
  <2>2. DOMAIN label = 1 .. n /\ DOMAIN label' = 1 .. n + 1
    BY <1>5, <2>1
  <2>3. 1 .. n + 1 = (1 .. n) \cup {n + 1} /\ n + 1 \notin 1 .. n /\ n + 1 # 0
    OBVIOUS
  <2> QED
    BY <2>1, <2>2, <2>3, Zenon
<1>7. Grown
  BY <1>3, <1>4, <1>5, <1>6 DEF Grown
<1> QED
  BY <1>2, <1>3, <1>4, <1>5, <1>6, <1>7

LEMMA CreateTurns ==
  ASSUME ReplyInv, NEW s \in Sessions, CreateLabel(s)
  PROVE  FitTurn(s)
<1>1. At(s, "create") /\ label' = Created(Current(s, "label"))
  BY DEF CreateLabel
<1>2. PICK x, title : x = Len(label') /\ title = Current(s, "label").title
  OBVIOUS
<1>3. Grown /\ x \in Nat /\ x \in LabelsOf(title)'
  BY <1>1, <1>2, CreatedGrows DEF LabelsOf
<1>4. title = reply[s].text[Least(Due(reply[s], "label"))].title
  BY <1>2 DEF Current, Pending, Due
<1>5. Then(s, "label", [reply[s] EXCEPT !.target = {x}])
  BY <1>2 DEF CreateLabel
<1>6. pc[s] \in Labelling
  BY <1>1 DEF At, Labelling
<1> QED
  BY <1>3, <1>4, <1>5, <1>6, TargetTurns

LEMMA FindUserTurns ==
  ASSUME ReplyInv, Grown, NEW s \in Sessions, FindUser(s)
  PROVE  FitTurn(s)
<1>1. /\ At(s, "finduser") /\ pc[s] \in Assigning /\ pc[s] # "idle"
      /\ Fits(pc[s], reply[s])
  BY TextTyped DEF FindUser, At, Assigning
<1>2. CASE Current(s, "user").name \in Accounts
  <2>1. PICK x : x = Current(s, "user").name
    OBVIOUS
  <2>2. Then(s, "user", [reply[s] EXCEPT !.target = {x}])
    BY <1>2, <2>1 DEF FindUser
  <2>3. x = reply[s].text[Least(Due(reply[s], "user"))].name
    BY <2>1 DEF Current, Pending, Due
  <2> QED
    BY <1>1, <1>2, <2>1, <2>2, <2>3, TargetTurns
<1>3. CASE Current(s, "user").name \notin Accounts
  <2>1. pc' = [pc EXCEPT ![s] = "failed"] /\ UNCHANGED reply
    BY <1>3 DEF FindUser, Go
  <2>2. Fits("failed", reply[s])
    BY <1>1 DEF At, Fits, Early, Labelling, Assigning, ReplyPlaces, DeedFits
  <2> QED
    BY <1>1, <2>1, <2>2, MovesOn
<1> QED
  BY <1>2, <1>3

LEMMA FailTurns ==
  ASSUME ReplyInv, Grown, NEW s \in Sessions, Refused(s) \/ CallFails(s)
  PROVE  FitTurn(s)
<1>1. pc[s] \in CallPlaces /\ pc' = [pc EXCEPT ![s] = "failed"] /\ UNCHANGED reply
  BY DEF Refused, CallFails, Go
<1>2. pc[s] # "idle" /\ Fits(pc[s], reply[s])
  BY <1>1, TextTyped DEF CallPlaces, ReplyPlaces
<1>3. Fits("failed", reply[s])
  BY <1>2 DEF Fits, Early, Labelling, Assigning, ReplyPlaces, DeedFits
<1> QED
  BY <1>1, <1>2, <1>3, MovesOn

(* A toggle: one more word is handled, and one more deed to be reported.   *)
LEMMA DeedsFit ==
  ASSUME ReplyInv, Grown, NEW p, NEW place, NEW r \in Reply, NEW m \in Reply, Fits(p, r),
         p \notin {"done", "failed"}, NEW deed \in Deed,
         m.text = r.text, m.todo \subseteq r.todo, m.done = Append(r.done, deed),
         DeedFits(place, m, deed)'
  PROVE  \A n \in DOMAIN m.done : DeedFits(place, m, m.done[n])'
<1>1. /\ r.done \in Seq(Deed) /\ DOMAIN m.done = 1 .. Len(r.done) + 1
      /\ DOMAIN r.done = 1 .. Len(r.done) /\ Len(r.done) \in Nat
      /\ \A n \in 1 .. Len(r.done) : m.done[n] = r.done[n]
      /\ m.done[Len(r.done) + 1] = deed
  <2>1. r.done \in Seq(Deed) /\ m.done \in Seq(Deed)
    BY DEF Reply
  <2> QED
    BY <2>1, AppendProperties
<1>2. \A kind : Handled(r, kind) \subseteq Handled(m, kind)
  BY DEF Handled
<1>3. ASSUME NEW n \in DOMAIN r.done
      PROVE  DeedFits(place, m, m.done[n])'
  <2>1. DeedFits(p, r, r.done[n])' /\ m.done[n] = r.done[n]
    BY <1>1, FitsLasts DEF Fits
  <2> QED
    BY <1>2, <2>1 DEF DeedFits
<1> QED
  BY <1>1, <1>3

LEMMA ToggleLabelTurns ==
  ASSUME ReplyInv, Grown, UNCHANGED label, NEW s \in Sessions, ToggleLabel(s)
  PROVE  FitTurn(s)
<1> DEFINE c0 == Least(Pending(s, "label"))
<1>1. PICK r, c : r = reply[s] /\ c = c0
  OBVIOUS
<1>2. /\ At(s, "label") /\ r \in Reply /\ r.text \in Seq(Word) /\ Fits("label", r)
      /\ Due(r, "label") # {}
  BY <1>1, TextTyped DEF ToggleLabel, At, Fits, Labelling
<1>3. /\ c \in Firsts(r.text, "label") /\ c \in r.todo
      /\ Left(s, "label") = r.todo \ {c} /\ Current(s, "label") = r.text[c]
      /\ r.text[c] \in LabelWord
  BY <1>1, <1>2, AtHand
<1>4. PICK x \in DOMAIN label :
        /\ r.target = {x} /\ x \in Nat \ {0} /\ label[x].title = r.text[c].title
        /\ x \in LabelsOf(r.text[c].title)
        /\ (CHOOSE id \in r.target : TRUE) = x
  BY <1>1, <1>2, LabelAtHand
<1>5. PICK known, deed, place :
        /\ known = KnownThen(s)
        /\ deed = [what |-> "label", id |-> x, added |-> ~Attached(s)]
        /\ place = Following(r.text, r.todo \ {c}, "label")
  OBVIOUS
<1>6. PICK m : m = [r EXCEPT !.known = known, !.todo = r.todo \ {c}, !.target = {},
                             !.done = Append(r.done, deed)]
  OBVIOUS
<1>7. deed \in Deed /\ deed.what = "label" /\ deed.id = x
  BY <1>4, <1>5 DEF Deed
<1>8. known \in [Titles -> Nat] /\ \A t \in Titles : known[t] = 0 \/ known[t] \in LabelsOf(t)
  <2>1. /\ r.known \in [Titles -> Nat]
        /\ \A t \in Titles : r.known[t] = 0 \/ r.known[t] \in LabelsOf(t)
    BY <1>2 DEF Fits, Reply
  <2>2. CASE Attached(s)
    BY <1>1, <1>5, <2>1, <2>2 DEF KnownThen
  <2>3. CASE ~Attached(s)
    BY <1>1, <1>3, <1>4, <1>5, <2>1, <2>3 DEF KnownThen, LabelWord
  <2> QED
    BY <2>2, <2>3
<1>9. m \in Reply /\ m.before = r.before /\ m.text = r.text /\ m.todo = r.todo \ {c}
      /\ m.done = Append(r.done, deed) /\ m.known = known
  <2>1. Append(r.done, deed) \in Seq(Deed)
    BY <1>2, <1>7, AppendProperties DEF Reply
  <2>2. r.todo \ {c} \in SUBSET (Nat \ {0})
    BY <1>2 DEF Reply
  <2> QED
    BY <1>2, <1>6, <1>8, <2>1, <2>2 DEF Reply
<1>10. Turns(s, place, m)
  <2>1. Reported(s, "label", Attached(s)) = Append(r.done, deed)
    BY <1>1, <1>4, <1>5 DEF Reported
  <2> QED
    BY <1>1, <1>2, <1>3, <1>5, <1>6, <1>9, <2>1 DEF ToggleLabel, Then, Go, Remember, Turns, At
<1>11. DeedFits(place, m, deed)'
  <2>1. x \in DOMAIN label' /\ label'[x].title = m.text[c].title
    BY <1>4, <1>9 DEF Grown
  <2>2. c \in Handled(m, "label")
    BY <1>3, <1>9 DEF Handled
  <2> QED
    BY <1>7, <2>1, <2>2 DEF DeedFits
<1>12. \A n \in DOMAIN m.done : DeedFits(place, m, m.done[n])'
  BY <1>2, <1>7, <1>9, <1>11, DeedsFit
<1>13. /\ place \in {"search", "assignees", "comment", "done"}
       /\ place = "search" <=> Due(m, "label") # {}
       /\ place = "assignees" => Firsts(m.text, "user") # {}
       /\ place \in {"comment", "done"} => Positions(m.text, "user") = {}
  BY <1>2, <1>5, <1>9, FollowingPlace DEF Due
<1>14. Firsts(m.text, "user") \subseteq m.todo /\ m.todo \subseteq FirstWords(m.text)
  <2>1. Firsts(r.text, "user") \subseteq r.todo /\ r.todo \subseteq FirstWords(r.text)
    BY <1>2 DEF Fits, Labelling
  <2>2. c \notin Firsts(r.text, "user")
    BY <1>2, <1>3, Words DEF Firsts
  <2> QED
    BY <1>9, <2>1, <2>2
<1>15. \A t \in Titles : m.known[t] = 0 \/ m.known[t] \in LabelsOf(t)'
  BY <1>8, <1>9 DEF LabelsOf
<1>16. Fits(place, m)'
  BY <1>12, <1>13, <1>14, <1>15
  DEF Fits, Early, Labelling, Assigning, ReplyPlaces, Due, Firsts
<1> QED
  BY <1>9, <1>10, <1>16 DEF FitTurn

LEMMA ToggleUserTurns ==
  ASSUME ReplyInv, Grown, UNCHANGED label, NEW s \in Sessions, ToggleUser(s)
  PROVE  FitTurn(s)
<1> DEFINE c0 == Least(Pending(s, "user"))
<1>1. PICK r, c : r = reply[s] /\ c = c0
  OBVIOUS
<1>2. /\ At(s, "user") /\ r \in Reply /\ r.text \in Seq(Word) /\ Fits("user", r)
      /\ Due(r, "user") # {}
  BY <1>1, TextTyped DEF ToggleUser, At, Fits, Assigning
<1>3. /\ c \in Firsts(r.text, "user") /\ c \in r.todo
      /\ Left(s, "user") = r.todo \ {c} /\ Current(s, "user") = r.text[c]
  BY <1>1, <1>2, AtHand
<1>4. PICK u \in Accounts : /\ u = r.text[c].name /\ r.target = {u}
                            /\ (CHOOSE id \in r.target : TRUE) = u
  BY <1>1, <1>2, <1>3, UserAtHand
<1>5. PICK users, deed, place :
        /\ users = Toggled(r.users, r.target, Assigned(s))
        /\ deed = [what |-> "user", id |-> u, added |-> ~Assigned(s)]
        /\ place = Following(r.text, r.todo \ {c}, "user")
  OBVIOUS
<1>6. PICK m : m = [r EXCEPT !.users = users, !.todo = r.todo \ {c}, !.target = {},
                             !.done = Append(r.done, deed)]
  OBVIOUS
<1>7. deed \in Deed /\ deed.what = "user" /\ deed.id = u
  BY <1>5 DEF Deed
<1>8. users \subseteq Accounts
  BY <1>2, <1>4, <1>5 DEF Toggled, Reply
<1>9. m \in Reply /\ m.before = r.before /\ m.text = r.text /\ m.todo = r.todo \ {c}
      /\ m.done = Append(r.done, deed) /\ m.known = r.known
  <2>1. Append(r.done, deed) \in Seq(Deed)
    BY <1>2, <1>7, AppendProperties DEF Reply
  <2>2. r.todo \ {c} \in SUBSET (Nat \ {0})
    BY <1>2 DEF Reply
  <2> QED
    BY <1>2, <1>6, <1>8, <2>1, <2>2 DEF Reply
<1>10. Turns(s, place, m)
  <2>1. Reported(s, "user", Assigned(s)) = Append(r.done, deed)
    BY <1>1, <1>4, <1>5 DEF Reported
  <2>2. reply' = [reply EXCEPT ![s] = m] /\ pc' = [pc EXCEPT ![s] = place]
    BY <1>1, <1>3, <1>5, <1>6, <2>1 DEF ToggleUser, Then, Go, Remember
  <2> QED
    BY <1>1, <1>2, <1>9, <2>2 DEF Turns, At
<1>11. DeedFits(place, m, deed)'
  <2>1. c \in Handled(m, "user")
    BY <1>3, <1>9 DEF Handled
  <2> QED
    BY <1>4, <1>7, <1>9, <2>1 DEF DeedFits
<1>12. \A n \in DOMAIN m.done : DeedFits(place, m, m.done[n])'
  BY <1>2, <1>7, <1>9, <1>11, DeedsFit
<1>13. /\ place \in {"finduser", "comment", "done"}
       /\ place = "finduser" <=> Due(m, "user") # {}
  BY <1>2, <1>5, <1>9, FollowingPlace DEF Due
<1>14. Due(m, "label") = {} /\ m.todo \subseteq FirstWords(m.text)
  BY <1>2, <1>9 DEF Fits, Assigning, Due
<1>15. \A t \in Titles : m.known[t] = 0 \/ m.known[t] \in LabelsOf(t)'
  BY <1>2, <1>9 DEF LabelsOf, Fits
<1>16. Fits(place, m)'
  BY <1>12, <1>13, <1>14, <1>15
  DEF Fits, Early, Labelling, Assigning, ReplyPlaces
<1> QED
  BY <1>9, <1>10, <1>16 DEF FitTurn

LEMMA CommentTurns ==
  ASSUME ReplyInv, Grown, NEW s \in Sessions, AddComment(s)
  PROVE  FitTurn(s)
<1>1. PICK r : r = reply[s]
  OBVIOUS
<1>2. /\ At(s, "comment") /\ r \in Reply /\ Fits("comment", r)
  BY <1>1, TextTyped DEF AddComment, At
<1>3. PICK deed : deed = [what |-> "comment"]
  OBVIOUS
<1>4. PICK m : m = [r EXCEPT !.done = Append(r.done, deed)]
  OBVIOUS
<1>5. deed \in Deed /\ deed.what = "comment"
  BY <1>3 DEF Deed
<1>6. m \in Reply /\ m.before = r.before /\ m.text = r.text /\ m.todo = r.todo
      /\ m.done = Append(r.done, deed) /\ m.known = r.known
  <2>1. Append(r.done, deed) \in Seq(Deed)
    BY <1>2, <1>5, AppendProperties DEF Reply
  <2> QED
    BY <1>2, <1>4, <2>1 DEF Reply
<1>7. Turns(s, "done", m)
  BY <1>1, <1>2, <1>3, <1>4, <1>6 DEF AddComment, Then, Go, Remember, Turns, At
<1>8. DeedFits("done", m, deed)'
  BY <1>5 DEF DeedFits
<1>9. \A n \in DOMAIN m.done : DeedFits("done", m, m.done[n])'
  BY <1>2, <1>5, <1>6, <1>8, DeedsFit
<1>10. Due(m, "label") = {} /\ Due(m, "user") = {} /\ m.todo \subseteq FirstWords(m.text)
  BY <1>2, <1>6 DEF Fits, Due
<1>11. Fits("comment", r)'
  BY <1>2, FitsLasts
<1>12. Fits("done", m)'
  BY <1>6, <1>9, <1>10, <1>11 DEF Fits, Early, Labelling, Assigning, ReplyPlaces
<1> QED
  BY <1>6, <1>7, <1>12 DEF FitTurn

-----------------------------------------------------------------------------
(* Arrivals and commands. *)
LEMMA JoinKeepsFits ==
  ASSUME ReplyInv, Grown, NEW s \in Sessions, NEW place, NEW memory \in Reply,
         Fits(place, memory)', pc' = [pc EXCEPT ![s] = place], Joined(s, memory)
  PROVE  reply' \in [Sessions -> Reply] /\ FitsInv'
<1>1. pc \in [Sessions -> TokenPlaces \cup ReplyPlaces] /\ reply \in [Sessions -> Reply]
  BY DEF ReplyInv, IdentitiesTyped, ReplyTyped
<1>2. ASSUME NEW q \in Sessions
      PROVE  reply'[q] \in Reply /\ Fits(pc[q], reply[q])'
  <2>1. CASE q = s
    <3>1. pc'[q] = place /\ reply'[q] = memory
      BY <1>1, <2>1 DEF Joined
    <3> QED
      BY <3>1
  <2>2. CASE q # s
    <3>1. PICK p, r : p = pc[q] /\ r = reply[q]
      OBVIOUS
    <3>2. PICK m : m = [r EXCEPT !.before = {}]
      OBVIOUS
    <3>3. pc'[q] = p /\ reply'[q] = m /\ r \in Reply
      BY <1>1, <2>2, <3>1, <3>2 DEF Joined
    <3>4. Fits(p, r)
      BY <3>1 DEF ReplyInv, FitsInv
    <3>5. /\ m \in Reply /\ m.text = r.text /\ m.todo = r.todo /\ m.done = r.done
          /\ m.known = r.known /\ m.target = r.target /\ m.before = {}
      BY <3>2, <3>3 DEF Reply
    <3>6. \A n \in DOMAIN m.done : DeedFits(p, m, m.done[n])
      BY <3>4, <3>5 DEF Fits, DeedFits, Handled
    <3>7. Fits(p, m)
      BY <3>4, <3>5, <3>6 DEF Fits, Due
    <3> QED
      BY <3>3, <3>5, <3>7, FitsLasts
  <2> QED
    BY <2>1, <2>2
<1>3. reply' = [q \in Sessions |-> reply'[q]]
  BY DEF Joined
<1> QED
  BY <1>2, <1>3 DEF FitsInv

LEMMA StillGrown ==
  ASSUME ReplyInv, UNCHANGED label
  PROVE  Grown
BY DEF Grown, ReplyInv, ReplyTyped

LEMMA StartFits ==
  ASSUME ReplyInv, NEW s \in Sessions, NEW a, NEW spot \in Spots, NEW text \in Texts,
         StartReply(s, a, spot, text)
  PROVE  reply' \in [Sessions -> Reply] /\ FitsInv'
<1>1. Grown /\ pc' = [pc EXCEPT ![s] = "card"]
  BY StillGrown DEF StartReply, Begin, vikVars
<1>2. PICK m : m = [NoReply EXCEPT !.spot = spot, !.text = text,
                                   !.before = IF Quiet THEN {task} ELSE {}]
  OBVIOUS
<1>3. Joined(s, m)
  BY <1>2 DEF StartReply
<1>4. text \in Seq(Word) /\ task \in Task
  BY ReplyTexts DEF ReplyInv, ReplyTyped
<1>5. m \in Reply
  BY <1>2, <1>4, NoReplyFits DEF Reply
<1>6. m.todo = {} /\ m.done = << >> /\ \A t \in Titles : m.known[t] = 0
  BY <1>2 DEF NoReply
<1>7. Fits("card", m)'
  BY <1>6 DEF Fits, Early, Labelling, Assigning, ReplyPlaces
<1> QED
  BY <1>1, <1>3, <1>5, <1>7, JoinKeepsFits

(* A command takes up its work, or is at it. *)
LEMMA CommandCases ==
  ASSUME ReplyInv, NEW s \in Sessions, Command(s)
  PROVE  \/ /\ At(s, "idle") /\ Joined(s, NoReply) /\ Arrives(s)
            /\ \E place \in {"identify", "unbind"} : pc' = [pc EXCEPT ![s] = place]
         \/ FitTurn(s) /\ ~Arrives(s)
<1>0. pc \in [Sessions -> TokenPlaces \cup ReplyPlaces]
  BY DEF ReplyInv, IdentitiesTyped
<1>1. CASE \E a \in Actors : Logout(s, a) \/ \E t \in Tokens : Login(s, a, t)
  <2>1. Arrives(s) /\ At(s, "idle")
    BY <1>1 DEF Logout, Login, Arrives
  <2>2. PICK place \in {"identify", "unbind"} : pc' = [pc EXCEPT ![s] = place]
    BY <1>1 DEF Logout, Login, Begin
  <2>3. pc'[s] # "idle"
    BY <1>0, <2>2
  <2> QED
    BY <2>1, <2>2, <2>3 DEF Command
<1>2. CASE Identify(s) \/ Bind(s) \/ Unbind(s) \/ ReadBinding(s) \/ TokenCallFails(s)
  <2>1. pc[s] # "idle" /\ ~At(s, "idle") /\ Fits(pc[s], reply[s])
    BY <1>2, TextTyped DEF Identify, Bind, Unbind, ReadBinding, TokenCallFails, At
  <2>2. CASE Leave(s)
    <3>1. pc'[s] = "idle"
      BY <1>0, <2>2 DEF Leave, Begin
    <3>2. Dismiss(s)
      BY <2>2, <3>1 DEF Command, Dismiss
    <3> QED
      BY <2>1, <3>2, DismissTurns DEF Arrives
  <2>3. CASE \E place \in {"bind", "whoami"} :
               /\ pc' = [pc EXCEPT ![s] = place]
               /\ place = "bind" => At(s, "identify")
               /\ place = "whoami" => At(s, "binding")
    <3>1. PICK place \in {"bind", "whoami"} :
               /\ pc' = [pc EXCEPT ![s] = place]
               /\ place = "bind" => At(s, "identify")
               /\ place = "whoami" => At(s, "binding")
      BY <2>3
    <3>2. pc'[s] # "idle"
      BY <1>0, <3>1
    <3>3. Fits(place, reply[s])
      BY <2>1, <3>1 DEF At, Fits, Early, Labelling, Assigning, ReplyPlaces, DeedFits
    <3>4. Grown /\ UNCHANGED reply
      BY <2>1, <3>2, StillGrown DEF Command, vikVars
    <3> QED
      BY <2>1, <3>1, <3>3, <3>4, MovesOn DEF Arrives
  <2> QED
    BY <1>2, <2>2, <2>3 DEF Identify, Bind, Unbind, ReadBinding, TokenCallFails, Begin
<1> QED
  BY <1>1, <1>2 DEF Command, TokenStep

LEMMA CommandKeepsFits ==
  ASSUME ReplyInv, NEW s \in Sessions, Command(s)
  PROVE  reply' \in [Sessions -> Reply] /\ FitsInv'
<1>1. Grown
  BY StillGrown DEF Command, vikVars
<1>2. \A place \in {"identify", "unbind"} : Fits(place, NoReply)'
  BY NoReplyFits DEF TokenPlaces
<1> QED
  BY <1>1, <1>2, CommandCases, NoReplyFits, JoinKeepsFits, TurnKeepsFits

-----------------------------------------------------------------------------
(* What replies do to the task and the labels. *)
LEMMA TaskKept ==
  ASSUME ReplyInv, NEW s \in Sessions,
         \/ UNCHANGED <<label, task>>
         \/ At(s, "create") /\ label' = Created(Current(s, "label")) /\ task' = task
         \/ At(s, "label") /\ task' = TaskWithLabel(s) /\ label' = label
         \/ At(s, "user") /\ task' = TaskWithUser(s) /\ label' = label
         \/ task' = TaskWithComment /\ label' = label
  PROVE  Grown /\ task' \in Task /\ task'.labels \subseteq DOMAIN label'
<1>1. task \in Task /\ task.labels \subseteq DOMAIN label /\ DOMAIN label \in SUBSET (Nat \ {0})
  BY DEF ReplyInv, ReplyTyped
<1>2. CASE UNCHANGED <<label, task>>
  BY <1>1, <1>2, StillGrown
<1>3. CASE At(s, "create") /\ label' = Created(Current(s, "label")) /\ task' = task
  <2>1. Grown
    BY <1>3, CreatedGrows
  <2> QED
    BY <1>1, <1>3, <2>1 DEF Grown
<1>4. CASE At(s, "label") /\ task' = TaskWithLabel(s) /\ label' = label
  <2>1. PICK x \in DOMAIN label : reply[s].target = {x}
    BY <1>4, LabelAtHand
  <2>2. Toggled(task.labels, reply[s].target, Attached(s)) \subseteq DOMAIN label
    BY <1>1, <2>1 DEF Toggled
  <2>3. task' = [task EXCEPT !.labels = Toggled(task.labels, reply[s].target, Attached(s))]
    BY <1>4 DEF TaskWithLabel
  <2> QED
    BY <1>1, <1>4, <2>2, <2>3, StillGrown DEF Task
<1>5. CASE At(s, "user") /\ task' = TaskWithUser(s) /\ label' = label
  <2>1. reply[s].target \subseteq Accounts
    BY <1>5, UserAtHand
  <2>2. Toggled(task.users, reply[s].target, Assigned(s)) \subseteq Accounts
    BY <1>1, <2>1 DEF Toggled, Task
  <2>3. task' = [task EXCEPT !.users = Toggled(task.users, reply[s].target, Assigned(s))]
    BY <1>5 DEF TaskWithUser
  <2> QED
    BY <1>1, <1>5, <2>2, <2>3, StillGrown DEF Task
<1>6. CASE task' = TaskWithComment /\ label' = label
  BY <1>1, <1>6, StillGrown DEF TaskWithComment, Task
<1> QED
  BY <1>2, <1>3, <1>4, <1>5, <1>6

LEMMA BudgetsKept ==
  ASSUME ReplyTyped, NEW s \in Sessions, UNCHANGED tokenBudgets \/ Fault \/ Arrives(s)
  PROVE  /\ faults' \in 0 .. MaxFaults
         /\ overlaps' \in 0 .. MaxOverlaps /\ commands' \in 0 .. MaxCommands
         /\ Sequential' => Sequential /\ (Arrives(s) => Quiet)
BY TokenConstants DEF ReplyTyped, tokenBudgets, Fault, Arrives, Sequential

(* Every step of a session is one of these. *)
Calls(s) ==
  \/ ReadLabels(s) \/ SearchLabel(s) \/ CreateLabel(s) \/ ToggleLabel(s)
  \/ ReadAssignees(s) \/ FindUser(s) \/ ToggleUser(s) \/ AddComment(s)
  \/ Refused(s) \/ CallFails(s)

LEMMA CallTurns ==
  ASSUME ReplyInv, NEW s \in Sessions, Calls(s)
  PROVE  FitTurn(s) /\ Grown /\ task' \in Task /\ task'.labels \subseteq DOMAIN label'
<1>1. Grown /\ task' \in Task /\ task'.labels \subseteq DOMAIN label'
  BY TaskKept DEF Calls, ReadLabels, SearchLabel, CreateLabel, ToggleLabel, ReadAssignees,
     FindUser, ToggleUser, AddComment, Refused, CallFails, CarriedOut, vikVars
<1>2. SearchLabel(s) \/ ToggleLabel(s) \/ ToggleUser(s) => UNCHANGED label
  BY DEF SearchLabel, ToggleLabel, ToggleUser, vikVars
<1> QED
  BY <1>1, <1>2, ReadTurns, SearchTurns, CreateTurns, ToggleLabelTurns, FindUserTurns,
     ToggleUserTurns, CommentTurns, FailTurns DEF Calls

LEMMA ReplyInvKept ==
  ASSUME ReplyInv, IdentityInv', [Next]_vars
  PROVE  ReplyInv'
<1>1. IdentitiesTyped'
  BY DEF IdentityInv
<1> SUFFICES /\ reply' \in [Sessions -> Reply] /\ FitsInv'
             /\ card' = card /\ Grown /\ task' \in Task /\ task'.labels \subseteq DOMAIN label'
             /\ faults' \in 0 .. MaxFaults
             /\ overlaps' \in 0 .. MaxOverlaps /\ commands' \in 0 .. MaxCommands
  BY <1>1 DEF ReplyInv, ReplyTyped, Grown
<1>2. CASE UNCHANGED vars
  <2>1. UNCHANGED <<card, label, task, pc, reply, tokenBudgets>>
    BY <1>2 DEF vars, tokenVars, vikVars
  <2>2. FitsInv'
    <3>1. Grown
      BY <2>1, StillGrown
    <3>2. ASSUME NEW s \in Sessions
          PROVE  Fits(pc[s], reply[s])'
      <4>1. PICK place, r : place = pc[s] /\ r = reply[s]
        OBVIOUS
      <4>2. Fits(place, r)
        BY <4>1 DEF ReplyInv, FitsInv
      <4>3. Fits(place, r)'
        BY <3>1, <4>2, FitsLasts
      <4>4. place = pc'[s] /\ r = reply'[s]
        BY <2>1, <4>1
      <4> QED
        BY <4>3, <4>4
    <3> QED
      BY <3>2 DEF FitsInv
  <2> QED
    BY <2>1, <2>2, StillGrown DEF ReplyInv, ReplyTyped, tokenBudgets
<1>3. ASSUME NEW s \in Sessions, Command(s)
      PROVE  /\ reply' \in [Sessions -> Reply] /\ FitsInv'
             /\ card' = card /\ Grown /\ task' \in Task /\ task'.labels \subseteq DOMAIN label'
             /\ faults' \in 0 .. MaxFaults
             /\ overlaps' \in 0 .. MaxOverlaps /\ commands' \in 0 .. MaxCommands
  <2>1. UNCHANGED <<card, label, task>> /\ (UNCHANGED tokenBudgets \/ Fault \/ Arrives(s))
    BY <1>3 DEF Command, TokenStep, Login, Logout, Identify, Bind, Unbind, ReadBinding,
       TokenCallFails, vikVars
  <2> QED
    BY <1>3, <2>1, CommandKeepsFits, BudgetsKept, StillGrown DEF ReplyInv, ReplyTyped
<1>4. ASSUME NEW s \in Sessions, CheckToken(s)
      PROVE  /\ reply' \in [Sessions -> Reply] /\ FitsInv'
             /\ card' = card /\ Grown /\ task' \in Task /\ task'.labels \subseteq DOMAIN label'
             /\ faults' \in 0 .. MaxFaults
             /\ overlaps' \in 0 .. MaxOverlaps /\ commands' \in 0 .. MaxCommands
  <2>1. UNCHANGED <<card, label, task>> /\ UNCHANGED tokenBudgets /\ Grown
    BY <1>4, StillGrown DEF CheckToken, Whoami, vikVars
  <2> QED
    BY <1>4, <2>1, CheckTokenTurns, TurnKeepsFits, BudgetsKept DEF ReplyInv, ReplyTyped
<1>5. ASSUME NEW s \in Sessions, Act(s)
      PROVE  /\ reply' \in [Sessions -> Reply] /\ FitsInv'
             /\ card' = card /\ Grown /\ task' \in Task /\ task'.labels \subseteq DOMAIN label'
             /\ faults' \in 0 .. MaxFaults
             /\ overlaps' \in 0 .. MaxOverlaps /\ commands' \in 0 .. MaxCommands
  <2>1. card' = card /\ (UNCHANGED tokenBudgets \/ Fault \/ Arrives(s))
    BY <1>5 DEF Act, StartReply, FindCard, FindCardOfThread, LookupFails, ReadLabels, SearchLabel,
       CreateLabel, ToggleLabel, ReadAssignees, FindUser, ToggleUser, AddComment, Refused,
       CallFails, Tell, taskFrame
  <2>2. CASE Calls(s)
    BY <2>1, <2>2, CallTurns, TurnKeepsFits, BudgetsKept DEF ReplyInv
  <2>3. CASE FindCard(s) \/ FindCardOfThread(s) \/ LookupFails(s) \/ Tell(s)
    <3>1. UNCHANGED <<label, task>>
      BY <2>3 DEF FindCard, FindCardOfThread, LookupFails, Tell, vikVars
    <3> QED
      BY <2>1, <2>3, <3>1, LookupTurns, StillGrown, TurnKeepsFits, BudgetsKept
      DEF ReplyInv, ReplyTyped
  <2>4. ASSUME NEW a \in Actors, NEW spot \in Spots, NEW text \in Texts,
               StartReply(s, a, spot, text)
        PROVE  /\ reply' \in [Sessions -> Reply] /\ FitsInv'
               /\ Grown /\ task' \in Task /\ task'.labels \subseteq DOMAIN label'
    BY <2>4, StartFits, StillGrown DEF StartReply, vikVars, ReplyInv, ReplyTyped
  <2> QED
    BY <1>5, <2>1, <2>2, <2>3, <2>4, BudgetsKept DEF Act, Calls, ReplyInv
<1>6. CASE TokenChanges
  <2>1. UNCHANGED <<card, label, task, pc, reply>> /\ Fault
    BY <1>6 DEF TokenChanges, Revoke, Rehome, Changes, vikVars
  <2>2. FitsInv'
    <3>1. Grown
      BY <2>1, StillGrown
    <3>2. ASSUME NEW s \in Sessions
          PROVE  Fits(pc[s], reply[s])'
      <4>1. PICK place, r : place = pc[s] /\ r = reply[s]
        OBVIOUS
      <4>2. Fits(place, r)
        BY <4>1 DEF ReplyInv, FitsInv
      <4>3. Fits(place, r)'
        BY <3>1, <4>2, FitsLasts
      <4>4. place = pc'[s] /\ r = reply'[s]
        BY <2>1, <4>1
      <4> QED
        BY <4>3, <4>4
    <3> QED
      BY <3>2 DEF FitsInv
  <2> QED
    BY <2>1, <2>2, StillGrown, TokenConstants DEF ReplyInv, ReplyTyped, Fault
<1> QED
  BY <1>2, <1>3, <1>4, <1>5, <1>6 DEF Next

-----------------------------------------------------------------------------
(* What is reported, after one deed more or none. *)
LEMMA ToldSame ==
  ASSUME NEW s, reply'[s].done = reply[s].done
  PROVE  /\ \A what, id : LastWord(s, what, id)' = LastWord(s, what, id)
         /\ \A what, id, ids : Expected(s, what, id, ids)' = Expected(s, what, id, ids)
         /\ Commented(s)' = Commented(s)
BY DEF LastWord, Expected, Commented

LastOf(done, what, id) ==
  {m \in DOMAIN done : /\ done[m].what = what /\ done[m].id = id
                       /\ \A k \in m + 1 .. Len(done) : ~(done[k].what = what /\ done[k].id = id)}

LEMMA LastOfAppend ==
  ASSUME NEW old \in Seq(Deed), NEW deed \in Deed, NEW what, NEW id
  PROVE  LET new == Append(old, deed)
         IN  /\ IF deed.what = what /\ deed.id = id
                THEN LastOf(new, what, id) = {Len(old) + 1}
                ELSE LastOf(new, what, id) = LastOf(old, what, id)
             /\ new[Len(old) + 1] = deed
             /\ DOMAIN old = 1 .. Len(old) /\ DOMAIN new = 1 .. Len(old) + 1
             /\ \A k \in DOMAIN old : new[k] = old[k]
<1> PICK new : new = Append(old, deed)
  OBVIOUS
<1> DEFINE Match(done, k) == done[k].what = what /\ done[k].id = id
<1>1. /\ Len(new) = Len(old) + 1 /\ Len(old) \in Nat /\ new[Len(old) + 1] = deed
      /\ \A k \in 1 .. Len(old) : new[k] = old[k]
      /\ DOMAIN old = 1 .. Len(old) /\ DOMAIN new = 1 .. Len(old) + 1
  BY AppendProperties
<1>2. \A done : LastOf(done, what, id) =
        {m \in DOMAIN done : Match(done, m) /\ \A k \in m + 1 .. Len(done) : ~Match(done, k)}
  BY DEF LastOf
<1>3. (Match(new, Len(old) + 1) <=> deed.what = what /\ deed.id = id)
      /\ \A k \in 1 .. Len(old) : Match(new, k) <=> Match(old, k)
  BY <1>1
<1> HIDE DEF Match
<1>4. CASE deed.what = what /\ deed.id = id
  <2>1. Len(old) + 1 \in LastOf(new, what, id)
    <3>1. /\ Len(old) + 1 \in DOMAIN new
          /\ \A k \in (Len(old) + 1) + 1 .. Len(new) : FALSE
      BY <1>1
    <3>2. Match(new, Len(old) + 1)
      BY <1>3, <1>4
    <3>3. \A k \in (Len(old) + 1) + 1 .. Len(new) : ~Match(new, k)
      BY <3>1
    <3> QED
      BY <1>2, <3>1, <3>2, <3>3
  <2>2. ASSUME NEW m \in 1 .. Len(old)
        PROVE  m \notin LastOf(new, what, id)
    <3>1. Len(old) + 1 \in m + 1 .. Len(new)
      BY <1>1
    <3> QED
      BY <1>2, <1>3, <1>4, <3>1
  <2>3. LastOf(new, what, id) \subseteq 1 .. Len(old) + 1
    BY <1>1, <1>2
  <2>4. LastOf(new, what, id) = {Len(old) + 1}
    BY <1>1, <2>1, <2>2, <2>3
  <2> QED
    BY <1>1, <1>4, <2>4
<1>5. CASE ~(deed.what = what /\ deed.id = id)
  <2>1. Len(old) + 1 \notin LastOf(new, what, id)
    BY <1>2, <1>3, <1>5
  <2>2. ASSUME NEW m \in 1 .. Len(old)
        PROVE  m \in LastOf(new, what, id) <=> m \in LastOf(old, what, id)
    <3>1. \A k \in m + 1 .. Len(new) : k \in m + 1 .. Len(old) \/ k = Len(old) + 1
      BY <1>1
    <3>2. \A k \in m + 1 .. Len(old) : k \in m + 1 .. Len(new) /\ k \in 1 .. Len(old)
      BY <1>1
    <3>3. Match(new, m) <=> Match(old, m)
      BY <1>3
    <3>4. (\A k \in m + 1 .. Len(new) : ~Match(new, k))
            <=> \A k \in m + 1 .. Len(old) : ~Match(old, k)
      BY <1>3, <1>5, <3>1, <3>2
    <3>5. m \in DOMAIN old /\ m \in DOMAIN new
      BY <1>1
    <3> QED
      BY <1>2, <3>3, <3>4, <3>5
  <2>3. /\ LastOf(new, what, id) \subseteq 1 .. Len(old) + 1
        /\ LastOf(old, what, id) \subseteq 1 .. Len(old)
    BY <1>1, <1>2
  <2>4. PICK A, B : A = LastOf(new, what, id) /\ B = LastOf(old, what, id)
    OBVIOUS
  <2>5. /\ A \subseteq 1 .. Len(old) + 1 /\ B \subseteq 1 .. Len(old) /\ Len(old) + 1 \notin A
        /\ \A m \in 1 .. Len(old) : m \in A <=> m \in B
    BY <2>1, <2>2, <2>3, <2>4
  <2>6. A = B
    <3>1. \A x \in A : x \in 1 .. Len(old)
      BY <1>1, <2>5
    <3>2. \A x : x \in A <=> x \in B
      BY <2>5, <3>1
    <3> QED
      BY <3>2
  <2> QED
    BY <1>1, <1>5, <2>4, <2>6
<1> QED
  BY <1>4, <1>5

LEMMA ToldMore ==
  ASSUME NEW s, reply[s].done \in Seq(Deed), NEW deed \in Deed,
         reply'[s].done = Append(reply[s].done, deed)
  PROVE  /\ \A what, id : deed.what = what /\ deed.id = id => LastWord(s, what, id)' = {deed}
         /\ \A what, id : ~(deed.what = what /\ deed.id = id) =>
              LastWord(s, what, id)' = LastWord(s, what, id)
         /\ Commented(s)' = IF deed.what = "comment" THEN 1 ELSE Commented(s)
<1>1. PICK old, new : old = reply[s].done /\ new = reply'[s].done
  OBVIOUS
<1>2. old \in Seq(Deed) /\ new = Append(old, deed)
  BY <1>1
<1>3. /\ \A what, id : LastWord(s, what, id) = {old[n] : n \in LastOf(old, what, id)}
      /\ \A what, id : LastWord(s, what, id)' = {new[n] : n \in LastOf(new, what, id)}
  BY <1>1 DEF LastWord, LastOf
<1>4. /\ new[Len(old) + 1] = deed
      /\ DOMAIN old = 1 .. Len(old) /\ DOMAIN new = 1 .. Len(old) + 1 /\ Len(old) \in Nat
      /\ \A k \in DOMAIN old : new[k] = old[k]
  BY <1>2, LastOfAppend
<1>5. ASSUME NEW what, NEW id, deed.what = what, deed.id = id
      PROVE  LastWord(s, what, id)' = {deed}
  <2>1. LastOf(new, what, id) = {Len(old) + 1}
    BY <1>2, <1>5, LastOfAppend
  <2> QED
    BY <1>3, <1>4, <2>1
<1>6. ASSUME NEW what, NEW id, ~(deed.what = what /\ deed.id = id)
      PROVE  LastWord(s, what, id)' = LastWord(s, what, id)
  <2>1. LastOf(new, what, id) = LastOf(old, what, id)
    BY <1>2, <1>6, LastOfAppend
  <2>2. \A n \in LastOf(old, what, id) : new[n] = old[n]
    BY <1>4 DEF LastOf
  <2>3. {new[n] : n \in LastOf(old, what, id)} = {old[n] : n \in LastOf(old, what, id)}
    BY <2>2
  <2> QED
    BY <1>3, <2>1, <2>3
<1>7. Commented(s)' = IF deed.what = "comment" THEN 1 ELSE Commented(s)
  BY <1>1, <1>4 DEF Commented
<1> QED
  BY <1>5, <1>6, <1>7

(* Nothing reported yet of a thing. *)
LEMMA NothingSaid ==
  ASSUME NEW s, NEW what, NEW id, LastWord(s, what, id) = {}
  PROVE  \A ids : Expected(s, what, id, ids) = (id \in ids)
BY DEF Expected

LEMMA ToldStays ==
  ASSUME NEW s, NEW before, AllTold(s, before), UNCHANGED <<label, task>>,
         reply'[s].done = reply[s].done, reply'[s].text = reply[s].text,
         reply'[s].todo = reply[s].todo
  PROVE  AllTold(s, before)'
<1>1. \A kind : Handled(reply[s], kind)' = Handled(reply[s], kind)
  BY DEF Handled
<1>2. \A t, i : Only(t, i)' = Only(t, i)
  BY DEF Only, LabelsOf
<1>3. LabelsTold(s, before)' /\ UsersTold(s, before)' /\ CommentTold(s, before)'
  BY ToldSame DEF AllTold, LabelsTold, UsersTold, CommentTold
<1>4. LabelsToggled(s, before)' /\ UsersToggled(s, before)'
  BY <1>1, <1>2 DEF AllTold, LabelsToggled, UsersToggled
<1> QED
  BY <1>3, <1>4 DEF AllTold

(* Before its first call a handler has changed and reported nothing. *)
LEMMA ToldAtFirst ==
  ASSUME ReplyInv, NEW s \in Sessions, NEW before, task = before,
         pc[s] \in {"whoami", "labels"}
  PROVE  AllTold(s, before)
<1>1. /\ reply[s].done = << >> /\ Fits(pc[s], reply[s])
      /\ pc[s] = "whoami" => reply[s].todo = FirstWords(reply[s].text)
      /\ pc[s] = "labels" => reply[s].todo = FirstWords(reply[s].text)
  BY TextTyped DEF Fits, Early
<1>2. \A kind : Handled(reply[s], kind) = {}
  BY <1>1 DEF Handled, Firsts
<1>3. \A what, id : LastWord(s, what, id) = {}
  BY <1>1 DEF LastWord
<1>4. Commented(s) = 0 /\ before.comments \in Nat
  BY <1>1 DEF Commented, ReplyInv, ReplyTyped, Task
<1>5. LabelsTold(s, before) /\ UsersTold(s, before)
  BY <1>3, NothingSaid DEF LabelsTold, UsersTold
<1>6. CommentTold(s, before)
  BY <1>4 DEF CommentTold
<1>7. LabelsToggled(s, before) /\ UsersToggled(s, before)
  BY <1>2 DEF LabelsToggled, UsersToggled
<1> QED
  BY <1>5, <1>6, <1>7 DEF AllTold

LEMMA NothingUnreported ==
  ASSUME NEW s, NEW before, LabelsTold(s, before), UsersTold(s, before), CommentTold(s, before)
  PROVE  Unreported(s, before) = {}
BY DEF LabelsTold, UsersTold, CommentTold, Unreported

(* The reply's own choice of a label of some title. *)
LEMMA NotHandledTwice ==
  ASSUME ReplyInv, NEW s \in Sessions, NEW kind \in {"label", "user"}, Due(reply[s], kind) # {},
         NEW k \in Handled(reply[s], kind), reply[s].text[k] = Current(s, kind)
  PROVE  FALSE
<1> DEFINE c == Least(Pending(s, kind))
<1>1. c \in Firsts(reply[s].text, kind) /\ c \in reply[s].todo
      /\ Current(s, kind) = reply[s].text[c]
  BY AtHand
<1>2. k \in FirstWords(reply[s].text) /\ c \in FirstWords(reply[s].text) /\ k \notin reply[s].todo
  BY <1>1 DEF Handled, Firsts
<1>3. k = c
  BY <1>1, <1>2, TextTyped, FirstWordsDiffer
<1> QED
  BY <1>1, <1>2, <1>3

LEMMA LabelNotTwice ==
  ASSUME ReplyInv, NEW s \in Sessions, Due(reply[s], "label") # {},
         OneSpelling(reply[s].text, Current(s, "label").title),
         NEW k \in Handled(reply[s], "label")
  PROVE  reply[s].text[k].title # Current(s, "label").title
<1>1. /\ Least(Pending(s, "label")) \in Positions(reply[s].text, "label")
      /\ k \in Positions(reply[s].text, "label")
      /\ Current(s, "label") = reply[s].text[Least(Pending(s, "label"))]
  BY AtHand DEF Handled, Firsts
<1> QED
  BY <1>1, NotHandledTwice DEF OneSpelling

LEMMA UserNotTwice ==
  ASSUME ReplyInv, NEW s \in Sessions, Due(reply[s], "user") # {},
         NEW k \in Handled(reply[s], "user")
  PROVE  reply[s].text[k].name # Current(s, "user").name
<1>1. Current(s, "user") \in UserWord
  BY AtHand
<1>2. reply[s].text[k] \in UserWord
  BY TextTyped, Words DEF Handled, Firsts
<1>3. \A v, w \in UserWord : v.name = w.name => v = w
  BY DEF UserWord
<1> QED
  BY <1>1, <1>2, <1>3, NotHandledTwice

-----------------------------------------------------------------------------
(* The course of a reply without company, call by call. *)
LEMMA ToldOnCall ==
  ASSUME ReplyInv, NEW s \in Sessions, pc[s] \in CallPlaces, NEW before, Course(s, before)
  PROVE  AllTold(s, before)
<1>1. pc[s] = "labels" \/ pc[s] \in Toggling
  BY DEF CallPlaces, ReplyPlaces, Toggling, Labelling, Assigning
<1> QED
  BY <1>1, ToldAtFirst DEF Course, Early

LEMMA MemoryAfter ==
  ASSUME ReplyInv, NEW s \in Sessions, NEW place, NEW memory, Then(s, place, memory)
  PROVE  pc'[s] = place /\ reply'[s] = memory
BY DEF Then, Go, Remember, ReplyInv, IdentitiesTyped, ReplyTyped

LEMMA ReadLabelsCourse ==
  ASSUME ReplyInv, NEW s \in Sessions, ReadLabels(s), NEW before, Course(s, before)
  PROVE  Course(s, before)'
<1>1. /\ UNCHANGED <<label, task>> /\ pc[s] = "labels" /\ reply[s] \in Reply
      /\ task.labels \in SUBSET DOMAIN label /\ label \in Seq(Label)
  BY TextTyped DEF ReadLabels, At, vikVars, ReplyInv, ReplyTyped
<1>2. pc'[s] = "search" /\ reply'[s] = [reply[s] EXCEPT !.known = Known(task.labels)]
  BY MemoryAfter DEF ReadLabels
<1>3. AllTold(s, before)'
  <2>1. AllTold(s, before)
    BY <1>1, ToldOnCall DEF CallPlaces, ReplyPlaces
  <2> QED
    BY <1>1, <1>2, <2>1, ToldStays DEF Reply
<1>4. ASSUME NEW t \in Titles, NEW i \in DOMAIN label, Only(t, i)
      PROVE  (i \in task.labels) <=> Known(task.labels)[t] = i
  <2>1. i # 0 /\ \A j \in task.labels : label[j].title = t => j = i
    BY <1>1, <1>4 DEF Only, LabelsOf
  <2> QED
    BY <1>1, <1>4, <2>1, KnownIsLabel DEF Only
<1>5. reply'[s].known = Known(task.labels)
  BY <1>1, <1>2 DEF Reply
<1>6. ASSUME NEW t \in Titles, NEW i \in DOMAIN label, Only(t, i)'
      PROVE  (i \in task.labels)' <=> reply'[s].known[t] = i
  BY <1>1, <1>4, <1>5, <1>6 DEF Only, LabelsOf
<1> QED
  BY <1>1, <1>2, <1>3, <1>6 DEF Course, Early, Labelling, Assigning

(* A call that only looks, or only finds. *)
LEMMA LookingCourse ==
  ASSUME ReplyInv, NEW s \in Sessions, NEW before, Course(s, before), UNCHANGED <<label, task>>,
         reply'[s].done = reply[s].done, reply'[s].text = reply[s].text,
         reply'[s].todo = reply[s].todo, reply'[s].known = reply[s].known,
         \/ pc[s] \in Labelling /\ pc'[s] \in Labelling
         \/ /\ pc[s] \in Assigning \cup {"assignees"} /\ pc'[s] \in Assigning
            /\ reply'[s].users = task.users
  PROVE  Course(s, before)'
<1>1. AllTold(s, before)'
  BY ToldStays DEF Course, Toggling, Labelling, Assigning
<1>2. \A t, i : Only(t, i)' = Only(t, i)
  BY DEF Only, LabelsOf
<1>3. before.labels \subseteq DOMAIN label'
  BY DEF Course
<1>4. pc'[s] \notin Early /\ pc'[s] # "failed"
      /\ (pc'[s] \notin Labelling \/ pc'[s] \notin Assigning)
  BY DEF Early, Labelling, Assigning
<1>5. CASE pc[s] \in Labelling /\ pc'[s] \in Labelling
  <2>1. \A t \in Titles, i \in DOMAIN label' :
          Only(t, i)' => ((i \in task'.labels) <=> reply'[s].known[t] = i)
    BY <1>2, <1>5 DEF Course
  <2>2. pc'[s] \notin Assigning
    BY <1>5 DEF Labelling, Assigning
  <2> QED
    BY <1>1, <1>3, <1>4, <2>1, <2>2 DEF Course
<1>6. CASE pc'[s] \in Assigning /\ reply'[s].users = task.users
  <2>1. pc'[s] \notin Labelling
    BY <1>6 DEF Labelling, Assigning
  <2> QED
    BY <1>1, <1>3, <1>4, <1>6, <2>1 DEF Course
<1> QED
  BY <1>5, <1>6

LEMMA FailingCourse ==
  ASSUME ReplyInv, NEW s \in Sessions, NEW before, Course(s, before), UNCHANGED <<label, task>>,
         reply'[s] = reply[s], pc[s] \in CallPlaces, pc'[s] = "failed"
  PROVE  Course(s, before)'
<1>1. AllTold(s, before)'
  BY ToldOnCall, ToldStays
<1>2. Unreported(s, before)' = {}
  BY <1>1 DEF AllTold, LabelsTold, UsersTold, CommentTold, Unreported
<1>3. before.labels \subseteq DOMAIN label' /\ Cardinality({}) = 0
  BY FS_EmptySet DEF Course
<1> QED
  BY <1>2, <1>3 DEF Course, Early, Labelling, Assigning, Toggling

LEMMA SearchCourse ==
  ASSUME ReplyInv, NEW s \in Sessions, SearchLabel(s), NEW before, Course(s, before)
  PROVE  Course(s, before)'
<1>1. /\ UNCHANGED <<label, task>> /\ pc[s] \in Labelling /\ reply[s] \in Reply
      /\ pc \in [Sessions -> TokenPlaces \cup ReplyPlaces]
  BY TextTyped DEF SearchLabel, At, vikVars, Labelling, ReplyInv, IdentitiesTyped
<1>2. pc'[s] \in Labelling
  BY <1>1 DEF SearchLabel, Then, Go, Labelling
<1>3. \/ reply'[s] = reply[s]
      \/ \E x : reply'[s] = [reply[s] EXCEPT !.target = x]
  BY MemoryAfter DEF SearchLabel
<1> QED
  BY <1>1, <1>2, <1>3, LookingCourse DEF Reply

LEMMA ReadAssigneesCourse ==
  ASSUME ReplyInv, NEW s \in Sessions, ReadAssignees(s), NEW before, Course(s, before)
  PROVE  Course(s, before)'
<1>1. UNCHANGED <<label, task>> /\ pc[s] = "assignees" /\ reply[s] \in Reply
  BY TextTyped DEF ReadAssignees, At, vikVars
<1>2. pc'[s] = "finduser" /\ reply'[s] = [reply[s] EXCEPT !.users = task.users]
  BY MemoryAfter DEF ReadAssignees
<1> QED
  BY <1>1, <1>2, LookingCourse DEF Reply, Assigning

LEMMA FindUserCourse ==
  ASSUME ReplyInv, NEW s \in Sessions, FindUser(s), NEW before, Course(s, before)
  PROVE  Course(s, before)'
<1>1. /\ UNCHANGED <<label, task>> /\ pc[s] = "finduser" /\ reply[s] \in Reply
      /\ pc[s] \in Assigning /\ pc[s] \in CallPlaces
      /\ pc \in [Sessions -> TokenPlaces \cup ReplyPlaces]
  BY TextTyped DEF FindUser, At, vikVars, Assigning, CallPlaces, ReplyPlaces, ReplyInv,
     IdentitiesTyped
<1>2. reply[s].users = task.users
  BY <1>1 DEF Course
<1>3. CASE Current(s, "user").name \in Accounts
  <2>1. pc'[s] = "user"
    BY <1>3, MemoryAfter DEF FindUser
  <2>2. reply'[s] = [reply[s] EXCEPT !.target = {Current(s, "user").name}]
    BY <1>3, MemoryAfter DEF FindUser
  <2> QED
    BY <1>1, <1>2, <2>1, <2>2, LookingCourse DEF Reply, Assigning
<1>4. CASE Current(s, "user").name \notin Accounts
  BY <1>1, <1>4, FailingCourse DEF FindUser, Go
<1> QED
  BY <1>3, <1>4

(* A new label is nobody's. *)
LEMMA CreatedTold ==
  ASSUME ReplyInv, NEW s \in Sessions, pc[s] = "create", NEW before, Course(s, before),
         label' = Created(Current(s, "label")), task' = task,
         reply'[s].done = reply[s].done, reply'[s].text = reply[s].text,
         reply'[s].todo = reply[s].todo
  PROVE  AllTold(s, before)' /\ before.labels \subseteq DOMAIN label'
<1>1. /\ Grown /\ AllTold(s, before) /\ before.labels \subseteq DOMAIN label
      /\ Due(reply[s], "label") # {} /\ Fits(pc[s], reply[s])
      /\ task.labels \subseteq DOMAIN label
  BY CreatedGrows, TextTyped
  DEF Course, At, Toggling, Labelling, Fits, ReplyInv, ReplyTyped
<1>2. PICK n : n = Len(label')
  OBVIOUS
<1>3. /\ DOMAIN label' = DOMAIN label \cup {n} /\ n \notin DOMAIN label
      /\ label'[n].title = Current(s, "label").title
  BY <1>2, CreatedGrows DEF At
<1>4. LabelsTold(s, before)'
  <2>1. ASSUME NEW i \in DOMAIN label
        PROVE  (i \in task'.labels) = Expected(s, "label", i, before.labels)'
    BY <1>1, ToldSame DEF AllTold, LabelsTold
  <2>2. LastWord(s, "label", n)' = {}
    <3>1. \A k \in DOMAIN reply[s].done : reply[s].done[k].what = "label" =>
            reply[s].done[k].id \in DOMAIN label
      BY <1>1 DEF Fits, DeedFits
    <3>2. LastWord(s, "label", n) = {}
      BY <1>3, <3>1 DEF LastWord
    <3> QED
      BY <3>2, ToldSame
  <2>3. (n \in task'.labels) = Expected(s, "label", n, before.labels)'
    BY <1>1, <1>3, <2>2 DEF Expected
  <2> QED
    BY <1>3, <2>1, <2>3 DEF LabelsTold
<1>5. UsersTold(s, before)' /\ CommentTold(s, before)'
  BY <1>1, ToldSame DEF AllTold, UsersTold, CommentTold
<1>6. \A kind : Handled(reply[s], kind)' = Handled(reply[s], kind)
  BY DEF Handled
<1>7. UsersToggled(s, before)'
  BY <1>1, <1>6 DEF AllTold, UsersToggled
<1>8. ASSUME NEW t \in Titles, OneSpelling(reply[s].text, t), NEW i \in DOMAIN label',
             Only(t, i)'
      PROVE  ((i \in task.labels) # (i \in before.labels))
               <=> \E k \in Handled(reply[s], "label") : reply[s].text[k].title = t
  <2>1. CASE i \in DOMAIN label
    <3>1. Only(t, i)
      BY <1>1, <1>8, <2>1 DEF Only, LabelsOf, Grown
    <3> QED
      BY <1>1, <1>8, <2>1, <3>1 DEF AllTold, LabelsToggled
  <2>2. CASE i = n
    <3>1. t = Current(s, "label").title
      BY <1>3, <1>8, <2>2 DEF Only
    <3>2. ~\E k \in Handled(reply[s], "label") : reply[s].text[k].title = t
      BY <1>1, <1>8, <3>1, LabelNotTwice
    <3> QED
      BY <1>1, <1>3, <2>2, <3>2
  <2> QED
    BY <1>3, <2>1, <2>2
<1>9. LabelsToggled(s, before)'
  BY <1>6, <1>8 DEF LabelsToggled
<1> QED
  BY <1>1, <1>4, <1>5, <1>7, <1>9 DEF AllTold, Grown

LEMMA CreateCourse ==
  ASSUME ReplyInv, NEW s \in Sessions, CreateLabel(s), NEW before, Course(s, before)
  PROVE  Course(s, before)'
<1>1. /\ pc[s] = "create" /\ label' = Created(Current(s, "label")) /\ task' = task
      /\ reply[s] \in Reply
  BY TextTyped DEF CreateLabel, At
<1>2. pc'[s] = "label" /\ reply'[s] = [reply[s] EXCEPT !.target = {Len(label')}]
  BY MemoryAfter DEF CreateLabel
<1>3. /\ reply'[s].done = reply[s].done /\ reply'[s].text = reply[s].text
      /\ reply'[s].todo = reply[s].todo /\ reply'[s].known = reply[s].known
  BY <1>1, <1>2 DEF Reply
<1>4. AllTold(s, before)' /\ before.labels \subseteq DOMAIN label'
  BY <1>1, <1>3, CreatedTold
<1>5. /\ Grown /\ DOMAIN label' = DOMAIN label \cup {Len(label')} /\ Len(label') \notin DOMAIN label
      /\ Len(label') # 0 /\ task.labels \subseteq DOMAIN label /\ Fits(pc[s], reply[s])
      /\ \A t \in Titles : reply[s].known[t] = 0 \/ reply[s].known[t] \in DOMAIN label
  <2>1. /\ Fits(pc[s], reply[s]) /\ task.labels \subseteq DOMAIN label
        /\ \A t \in Titles : reply[s].known[t] = 0 \/ reply[s].known[t] \in DOMAIN label
    BY TextTyped DEF ReplyInv, ReplyTyped, Fits, LabelsOf
  <2>2. /\ Grown /\ DOMAIN label' = DOMAIN label \cup {Len(label')}
        /\ Len(label') \notin DOMAIN label /\ Len(label') # 0
    BY <1>1, CreatedGrows DEF At
  <2> QED
    BY <2>1, <2>2
<1>6. ASSUME NEW t \in Titles, NEW i \in DOMAIN label', Only(t, i)'
      PROVE  (i \in task'.labels) <=> reply'[s].known[t] = i
  <2>1. CASE i \in DOMAIN label
    <3>1. Only(t, i)
      BY <1>5, <1>6, <2>1 DEF Only, LabelsOf, Grown
    <3> QED
      BY <1>1, <1>3, <2>1, <3>1 DEF Course, Labelling
  <2>2. CASE i = Len(label')
    BY <1>1, <1>3, <1>5, <2>2
  <2> QED
    BY <1>5, <2>1, <2>2
<1> QED
  BY <1>2, <1>4, <1>6 DEF Course, Early, Labelling, Assigning

(* A toggled label. *)
LEMMA ToggledLabel ==
  ASSUME ReplyInv, NEW s \in Sessions, At(s, "label"), NEW before, Course(s, before)
  PROVE  \E x \in DOMAIN label :
           /\ reply[s].target = {x} /\ x \in Nat \ {0}
           /\ label[x].title = Current(s, "label").title
           /\ (CHOOSE id \in reply[s].target : TRUE) = x
           /\ Only(label[x].title, x) => (Attached(s) <=> x \in task.labels)
           /\ task.labels \subseteq DOMAIN label
           /\ LET then == TaskWithLabel(s)
              IN  /\ \A i : i # x => ((i \in then.labels) <=> (i \in task.labels))
                  /\ (x \in then.labels) <=> ~Attached(s)
                  /\ then.users = task.users /\ then.comments = task.comments
<1> DEFINE c == Least(Pending(s, "label"))
<1>1. Due(reply[s], "label") # {}
  BY TextTyped DEF At, Fits, Labelling
<1>2. Current(s, "label") = reply[s].text[c] /\ reply[s].text[c].title \in Titles
  BY <1>1, AtHand DEF LabelWord
<1>3. PICK x \in DOMAIN label :
        /\ reply[s].target = {x} /\ x \in Nat \ {0}
        /\ label[x].title = reply[s].text[c].title
        /\ Attached(s) <=> reply[s].known[reply[s].text[c].title] = x
        /\ (CHOOSE id \in reply[s].target : TRUE) = x
  BY LabelAtHand
<1>4. Only(label[x].title, x) => (Attached(s) <=> x \in task.labels)
  BY <1>2, <1>3 DEF Course, Labelling, At
<1>5. task \in Task /\ task.labels \subseteq DOMAIN label
  BY DEF ReplyInv, ReplyTyped
<1>6. /\ TaskWithLabel(s).labels = Toggled(task.labels, {x}, Attached(s))
      /\ TaskWithLabel(s).users = task.users /\ TaskWithLabel(s).comments = task.comments
  BY <1>3, <1>5 DEF TaskWithLabel, Task
<1>7. /\ \A i : i # x => ((i \in Toggled(task.labels, {x}, Attached(s))) <=> (i \in task.labels))
      /\ (x \in Toggled(task.labels, {x}, Attached(s))) <=> ~Attached(s)
  BY DEF Toggled
<1>8. /\ \A i : i # x => ((i \in TaskWithLabel(s).labels) <=> (i \in task.labels))
      /\ (x \in TaskWithLabel(s).labels) <=> ~Attached(s)
  BY <1>6, <1>7
<1> WITNESS x \in DOMAIN label
<1> QED
  BY <1>2, <1>3, <1>4, <1>5, <1>6, <1>8

LEMMA ToggleLabelCourse ==
  ASSUME ReplyInv, NEW s \in Sessions, ToggleLabel(s), NEW before, Course(s, before)
  PROVE  Course(s, before)'
<1> DEFINE c == Least(Pending(s, "label"))
           title == Current(s, "label").title
<1>1. /\ At(s, "label") /\ pc[s] \in Labelling /\ pc[s] \in CallPlaces
      /\ label' = label /\ task' = TaskWithLabel(s)
      /\ reply[s] \in Reply /\ reply[s].text \in Seq(Word) /\ Due(reply[s], "label") # {}
  BY TextTyped DEF ToggleLabel, At, Labelling, CallPlaces, ReplyPlaces, Fits
<1>2. /\ c \in Firsts(reply[s].text, "label") /\ c \in reply[s].todo
      /\ Current(s, "label") = reply[s].text[c] /\ Left(s, "label") = reply[s].todo \ {c}
      /\ title \in Titles
  BY <1>1, AtHand DEF LabelWord
<1>3. PICK x \in DOMAIN label :
        /\ reply[s].target = {x} /\ x \in Nat \ {0} /\ label[x].title = title
        /\ (CHOOSE id \in reply[s].target : TRUE) = x
        /\ Only(title, x) => (Attached(s) <=> x \in task.labels)
        /\ \A i : i # x => ((i \in task'.labels) <=> (i \in task.labels))
        /\ (x \in task'.labels) <=> ~Attached(s)
        /\ task'.users = task.users /\ task'.comments = task.comments
  BY <1>1, ToggledLabel
<1>4. PICK deed : deed = [what |-> "label", id |-> x, added |-> ~Attached(s)]
  OBVIOUS
<1>5. deed \in Deed /\ deed.what = "label" /\ deed.id = x /\ deed.added = ~Attached(s)
  BY <1>3, <1>4 DEF Deed
<1>6. /\ pc'[s] = Following(reply[s].text, reply[s].todo \ {c}, "label")
      /\ reply'[s].text = reply[s].text /\ reply'[s].todo = reply[s].todo \ {c}
      /\ reply'[s].done = Append(reply[s].done, deed) /\ reply'[s].known = KnownThen(s)
  <2>1. Reported(s, "label", Attached(s)) = Append(reply[s].done, deed)
    BY <1>3, <1>4 DEF Reported
  <2>2. /\ pc'[s] = Following(reply[s].text, Left(s, "label"), "label")
        /\ reply'[s] = [reply[s] EXCEPT !.known = KnownThen(s), !.todo = Left(s, "label"),
                          !.target = {}, !.done = Reported(s, "label", Attached(s))]
    BY MemoryAfter DEF ToggleLabel
  <2> QED
    BY <1>1, <1>2, <2>1, <2>2 DEF Reply
<1>7. AllTold(s, before) /\ before.labels \subseteq DOMAIN label
  BY <1>1, ToldOnCall DEF Course
<1>8. /\ LastWord(s, "label", x)' = {deed} /\ Commented(s)' = Commented(s)
      /\ \A what, id : ~(what = "label" /\ id = x) =>
           LastWord(s, what, id)' = LastWord(s, what, id)
  <2>1. reply[s].done \in Seq(Deed)
    BY <1>1 DEF Reply
  <2>2. /\ \A what, id : deed.what = what /\ deed.id = id => LastWord(s, what, id)' = {deed}
        /\ \A what, id : ~(deed.what = what /\ deed.id = id) =>
             LastWord(s, what, id)' = LastWord(s, what, id)
        /\ Commented(s)' = IF deed.what = "comment" THEN 1 ELSE Commented(s)
    BY <1>5, <1>6, <2>1, ToldMore
  <2>3. Commented(s)' = Commented(s)
    BY <1>5, <2>2
  <2> QED
    BY <1>5, <2>2, <2>3
<1>9. LabelsTold(s, before)'
  <2>1. ASSUME NEW i \in DOMAIN label, i # x
        PROVE  (i \in task'.labels) = Expected(s, "label", i, before.labels)'
    <3>1. Expected(s, "label", i, before.labels)' = Expected(s, "label", i, before.labels)
      BY <1>8, <2>1 DEF Expected
    <3>2. (i \in task.labels) = Expected(s, "label", i, before.labels)
      BY <1>7 DEF AllTold, LabelsTold
    <3> QED
      BY <1>3, <2>1, <3>1, <3>2
  <2>2. Expected(s, "label", x, before.labels)' = ~Attached(s)
    BY <1>5, <1>8 DEF Expected
  <2> QED
    BY <1>1, <1>3, <2>1, <2>2 DEF LabelsTold
<1>10. UsersTold(s, before)' /\ CommentTold(s, before)'
  <2>1. \A u \in Accounts : Expected(s, "user", u, before.users)' = Expected(s, "user", u, before.users)
    BY <1>8 DEF Expected
  <2> QED
    BY <1>3, <1>7, <1>8, <2>1 DEF AllTold, UsersTold, CommentTold
<1>11. /\ Handled(reply[s], "label")' = Handled(reply[s], "label") \cup {c}
       /\ Handled(reply[s], "user")' = Handled(reply[s], "user")
  <2>1. c \notin Firsts(reply[s].text, "user")
    BY <1>1, <1>2, Words DEF Firsts
  <2> QED
    BY <1>2, <1>6, <2>1 DEF Handled
<1>12. UsersToggled(s, before)'
  BY <1>3, <1>6, <1>7, <1>11 DEF AllTold, UsersToggled
<1>13. \A t \in Titles, i \in DOMAIN label : Only(t, i) /\ t = title => i = x
  BY <1>3 DEF Only, LabelsOf
<1>14. LabelsToggled(s, before)'
  <2>1. ASSUME NEW t \in Titles, OneSpelling(reply[s].text, t), NEW i \in DOMAIN label, Only(t, i)
        PROVE  ((i \in task'.labels) # (i \in before.labels))
                 <=> \E k \in Handled(reply[s], "label") \cup {c} : reply[s].text[k].title = t
    <3>1. ((i \in task.labels) # (i \in before.labels))
            <=> \E k \in Handled(reply[s], "label") : reply[s].text[k].title = t
      BY <1>7, <2>1 DEF AllTold, LabelsToggled
    <3>2. CASE i = x
      <4>1. t = title
        BY <1>3, <2>1, <3>2 DEF Only
      <4>2. ~\E k \in Handled(reply[s], "label") : reply[s].text[k].title = t
        BY <1>1, <2>1, <4>1, LabelNotTwice
      <4>3. (x \in task'.labels) <=> ~(x \in task.labels)
        BY <1>3, <2>1, <3>2, <4>1
      <4> QED
        BY <1>2, <3>1, <3>2, <4>1, <4>2, <4>3
    <3>3. CASE i # x
      <4>1. t # title
        BY <1>13, <2>1, <3>3
      <4> QED
        BY <1>2, <1>3, <3>1, <3>3, <4>1
    <3> QED
      BY <3>2, <3>3
  <2>2. \A t, i : Only(t, i)' = Only(t, i)
    BY <1>1 DEF Only, LabelsOf
  <2> QED
    BY <1>1, <1>6, <1>11, <2>1, <2>2 DEF LabelsToggled
<1>15. ASSUME NEW t \in Titles, NEW i \in DOMAIN label, Only(t, i)
       PROVE  (i \in task'.labels) <=> KnownThen(s)[t] = i
  <2>1. (i \in task.labels) <=> reply[s].known[t] = i
    BY <1>1, <1>15 DEF Course
  <2>2. reply[s].known \in [Titles -> Nat] /\ i # 0
    BY <1>1 DEF Reply, ReplyInv, ReplyTyped
  <2>3. KnownThen(s)[t] = IF Attached(s) THEN IF reply[s].known[t] = x THEN 0 ELSE reply[s].known[t]
                          ELSE IF t = title THEN x ELSE reply[s].known[t]
    BY <1>2, <1>3, <2>2 DEF KnownThen
  <2>4. CASE i = x
    <3>1. t = title
      BY <1>3, <1>15, <2>4 DEF Only
    <3> QED
      BY <1>3, <2>2, <2>3, <2>4, <3>1
  <2>5. CASE i # x
    <3>1. t # title
      BY <1>13, <1>15, <2>5
    <3> QED
      BY <1>3, <2>1, <2>2, <2>3, <2>5, <3>1
  <2> QED
    BY <2>4, <2>5
<1>16. \A t \in Titles, i \in DOMAIN label' :
         Only(t, i)' => ((i \in task'.labels) <=> reply'[s].known[t] = i)
  <2>1. \A t, i : Only(t, i)' = Only(t, i)
    BY <1>1 DEF Only, LabelsOf
  <2> QED
    BY <1>1, <1>6, <1>15, <2>1
<1>17. pc'[s] \in {"search", "assignees", "comment", "done"}
  BY <1>1, <1>6, FollowingPlace
<1> QED
  BY <1>1, <1>7, <1>9, <1>10, <1>12, <1>14, <1>16, <1>17
  DEF Course, AllTold, Early, Labelling, Assigning

LEMMA ToggleUserCourse ==
  ASSUME ReplyInv, NEW s \in Sessions, ToggleUser(s), NEW before, Course(s, before)
  PROVE  Course(s, before)'
<1> DEFINE c == Least(Pending(s, "user"))
<1>1. /\ At(s, "user") /\ pc[s] \in Assigning /\ pc[s] \in CallPlaces
      /\ label' = label /\ task' = TaskWithUser(s) /\ task \in Task
      /\ reply[s] \in Reply /\ reply[s].text \in Seq(Word) /\ Due(reply[s], "user") # {}
  BY TextTyped DEF ToggleUser, At, Assigning, CallPlaces, ReplyPlaces, Fits, ReplyInv, ReplyTyped
<1>2. /\ c \in Firsts(reply[s].text, "user") /\ c \in reply[s].todo
      /\ Current(s, "user") = reply[s].text[c] /\ Left(s, "user") = reply[s].todo \ {c}
  BY <1>1, AtHand
<1>3. PICK u : u = Current(s, "user").name
  OBVIOUS
<1>4. /\ u \in Accounts /\ reply[s].target = {u} /\ (CHOOSE id \in reply[s].target : TRUE) = u
      /\ Assigned(s) <=> u \in task.users
  BY <1>1, <1>3, UserAtHand DEF Course
<1>5. /\ task'.users = Toggled(task.users, {u}, Assigned(s))
      /\ task'.labels = task.labels /\ task'.comments = task.comments
  BY <1>1, <1>4 DEF TaskWithUser, Task
<1>6. /\ \A v : v # u => ((v \in task'.users) <=> (v \in task.users))
      /\ (u \in task'.users) <=> ~Assigned(s)
  BY <1>5 DEF Toggled
<1>7. PICK deed : deed = [what |-> "user", id |-> u, added |-> ~Assigned(s)]
  OBVIOUS
<1>8. deed \in Deed /\ deed.what = "user" /\ deed.id = u /\ deed.added = ~Assigned(s)
  BY <1>4, <1>7 DEF Deed
<1>9. /\ pc'[s] = Following(reply[s].text, reply[s].todo \ {c}, "user")
      /\ reply'[s].text = reply[s].text /\ reply'[s].todo = reply[s].todo \ {c}
      /\ reply'[s].done = Append(reply[s].done, deed) /\ reply'[s].known = reply[s].known
      /\ reply'[s].users = task'.users
  <2>1. Reported(s, "user", Assigned(s)) = Append(reply[s].done, deed)
    BY <1>4, <1>7 DEF Reported
  <2>2. /\ pc'[s] = Following(reply[s].text, Left(s, "user"), "user")
        /\ reply'[s] = [reply[s] EXCEPT !.users = Toggled(@, reply[s].target, Assigned(s)),
                          !.todo = Left(s, "user"), !.target = {},
                          !.done = Reported(s, "user", Assigned(s))]
    BY MemoryAfter DEF ToggleUser
  <2>3. reply[s].users = task.users
    BY <1>1 DEF Course
  <2> QED
    BY <1>1, <1>2, <1>4, <1>5, <2>1, <2>2, <2>3 DEF Reply
<1>10. AllTold(s, before) /\ before.labels \subseteq DOMAIN label
  BY <1>1, ToldOnCall DEF Course
<1>11. /\ LastWord(s, "user", u)' = {deed} /\ Commented(s)' = Commented(s)
       /\ \A what, id : ~(what = "user" /\ id = u) =>
            LastWord(s, what, id)' = LastWord(s, what, id)
  <2>1. reply[s].done \in Seq(Deed)
    BY <1>1 DEF Reply
  <2>2. /\ \A what, id : deed.what = what /\ deed.id = id => LastWord(s, what, id)' = {deed}
        /\ \A what, id : ~(deed.what = what /\ deed.id = id) =>
             LastWord(s, what, id)' = LastWord(s, what, id)
        /\ Commented(s)' = IF deed.what = "comment" THEN 1 ELSE Commented(s)
    BY <1>8, <1>9, <2>1, ToldMore
  <2>3. Commented(s)' = Commented(s)
    BY <1>8, <2>2
  <2> QED
    BY <1>8, <2>2, <2>3
<1>12. UsersTold(s, before)'
  <2>1. ASSUME NEW v \in Accounts, v # u
        PROVE  (v \in task'.users) = Expected(s, "user", v, before.users)'
    <3>1. Expected(s, "user", v, before.users)' = Expected(s, "user", v, before.users)
      BY <1>11, <2>1 DEF Expected
    <3>2. (v \in task.users) = Expected(s, "user", v, before.users)
      BY <1>10 DEF AllTold, UsersTold
    <3> QED
      BY <1>6, <2>1, <3>1, <3>2
  <2>2. Expected(s, "user", u, before.users)' = ~Assigned(s)
    BY <1>8, <1>11 DEF Expected
  <2> QED
    BY <1>6, <2>1, <2>2 DEF UsersTold
<1>13. LabelsTold(s, before)' /\ CommentTold(s, before)'
  <2>1. \A i \in DOMAIN label :
          Expected(s, "label", i, before.labels)' = Expected(s, "label", i, before.labels)
    BY <1>11 DEF Expected
  <2> QED
    BY <1>1, <1>5, <1>10, <1>11, <2>1 DEF AllTold, LabelsTold, CommentTold
<1>14. /\ Handled(reply[s], "user")' = Handled(reply[s], "user") \cup {c}
       /\ Handled(reply[s], "label")' = Handled(reply[s], "label")
  <2>1. c \notin Firsts(reply[s].text, "label")
    BY <1>1, <1>2, Words DEF Firsts
  <2> QED
    BY <1>2, <1>9, <2>1 DEF Handled
<1>15. \A t, i : Only(t, i)' = Only(t, i)
  BY <1>1 DEF Only, LabelsOf
<1>16. LabelsToggled(s, before)'
  BY <1>1, <1>5, <1>9, <1>10, <1>14, <1>15 DEF AllTold, LabelsToggled
<1>17. UsersToggled(s, before)'
  <2>1. ASSUME NEW v \in Accounts
        PROVE  ((v \in task'.users) # (v \in before.users))
                 <=> \E k \in Handled(reply[s], "user") \cup {c} : reply[s].text[k].name = v
    <3>1. ((v \in task.users) # (v \in before.users))
            <=> \E k \in Handled(reply[s], "user") : reply[s].text[k].name = v
      BY <1>10 DEF AllTold, UsersToggled
    <3>2. CASE v = u
      <4>1. ~\E k \in Handled(reply[s], "user") : reply[s].text[k].name = v
        BY <1>1, <1>3, <3>2, UserNotTwice
      <4> QED
        BY <1>2, <1>3, <1>4, <1>6, <3>1, <3>2, <4>1
    <3>3. CASE v # u
      BY <1>2, <1>3, <1>6, <3>1, <3>3
    <3> QED
      BY <3>2, <3>3
  <2> QED
    BY <1>9, <1>14, <2>1 DEF UsersToggled
<1>18. pc'[s] \in {"finduser", "comment", "done"}
  BY <1>1, <1>9, FollowingPlace
<1> QED
  BY <1>1, <1>9, <1>10, <1>12, <1>13, <1>16, <1>17, <1>18
  DEF Course, AllTold, Early, Labelling, Assigning

LEMMA CommentCourse ==
  ASSUME ReplyInv, NEW s \in Sessions, AddComment(s), NEW before \in Task, Course(s, before)
  PROVE  Course(s, before)'
<1>1. /\ pc[s] = "comment" /\ pc[s] \in CallPlaces /\ task \in Task /\ reply[s] \in Reply
      /\ label' = label /\ task' = [task EXCEPT !.comments = task.comments + 1]
      /\ Fits(pc[s], reply[s])
  BY TextTyped DEF AddComment, At, CallPlaces, ReplyPlaces, TaskWithComment, ReplyInv, ReplyTyped
<1>2. PICK deed : deed = [what |-> "comment"]
  OBVIOUS
<1>3. deed \in Deed /\ deed.what = "comment"
  BY <1>2 DEF Deed
<1>4. /\ pc'[s] = "done" /\ reply'[s].done = Append(reply[s].done, deed)
      /\ reply'[s].text = reply[s].text /\ reply'[s].todo = reply[s].todo
      /\ reply[s].done \in Seq(Deed)
  BY <1>1, <1>2, MemoryAfter DEF AddComment, Reply
<1>5. AllTold(s, before) /\ before.labels \subseteq DOMAIN label
  BY <1>1, ToldOnCall DEF Course
<1>6. /\ \A what, id : what # "comment" => LastWord(s, what, id)' = LastWord(s, what, id)
      /\ Commented(s)' = 1
  BY <1>3, <1>4, ToldMore
<1>7. Commented(s) = 0
  BY <1>1 DEF Commented, Fits, DeedFits
<1>8. /\ task'.labels = task.labels /\ task'.users = task.users
      /\ task'.comments = task.comments + 1 /\ task.comments \in Nat
  BY <1>1 DEF Task
<1>9. CommentTold(s, before)'
  BY <1>5, <1>6, <1>7, <1>8 DEF AllTold, CommentTold, Task
<1>10. LabelsTold(s, before)' /\ UsersTold(s, before)'
  <2>1. \A i, ids : /\ Expected(s, "label", i, ids)' = Expected(s, "label", i, ids)
                    /\ Expected(s, "user", i, ids)' = Expected(s, "user", i, ids)
    BY <1>6 DEF Expected
  <2> QED
    BY <1>1, <1>5, <1>8, <2>1 DEF AllTold, LabelsTold, UsersTold
<1>11. LabelsToggled(s, before)' /\ UsersToggled(s, before)'
  <2>1. \A kind : Handled(reply[s], kind)' = Handled(reply[s], kind)
    BY <1>4 DEF Handled
  <2>2. \A t, i : Only(t, i)' = Only(t, i)
    BY <1>1 DEF Only, LabelsOf
  <2> QED
    BY <1>1, <1>4, <1>5, <1>8, <2>1, <2>2 DEF AllTold, LabelsToggled, UsersToggled
<1> QED
  BY <1>1, <1>4, <1>5, <1>9, <1>10, <1>11 DEF Course, AllTold, Early, Labelling, Assigning

(* A failure: at most one thing was done that is not reported, and none    *)
(* that is contradicted by the report, if each label has one spelling.     *)
LEMMA OneThing ==
  ASSUME NEW S, NEW thing, S \subseteq {thing}
  PROVE  Cardinality(S) <= 1
<1>1. IsFiniteSet({thing}) /\ Cardinality({thing}) = 1
  BY FS_Singleton
<1> QED
  BY <1>1, FS_Subset

LEMMA UnreportedLabel ==
  ASSUME ReplyInv, NEW s \in Sessions, At(s, "label"), NEW before, Course(s, before),
         task' = TaskWithLabel(s), label' = label, reply'[s] = reply[s]
  PROVE  \E x : /\ Unreported(s, before)' \subseteq {<<"label", x>>}
                /\ OneSpelling(reply[s].text, Current(s, "label").title) =>
                     LastWord(s, "label", x)' = {}
<1>1. /\ AllTold(s, before) /\ Fits(pc[s], reply[s]) /\ Due(reply[s], "label") # {}
      /\ pc[s] = "label"
  BY TextTyped, ToldOnCall DEF At, CallPlaces, ReplyPlaces, Fits, Labelling
<1>2. PICK x \in DOMAIN label :
        /\ label[x].title = Current(s, "label").title
        /\ \A i : i # x => ((i \in task'.labels) <=> (i \in task.labels))
        /\ task'.users = task.users /\ task'.comments = task.comments
  BY ToggledLabel
<1>3. /\ \A i \in DOMAIN label : i # x =>
           (i \in task'.labels) = Expected(s, "label", i, before.labels)'
      /\ \A u \in Accounts : (u \in task'.users) = Expected(s, "user", u, before.users)'
      /\ task'.comments = before.comments + Commented(s)'
  BY <1>1, <1>2, ToldSame DEF AllTold, LabelsTold, UsersTold, CommentTold
<1>4. Unreported(s, before)' \subseteq {<<"label", x>>}
  BY <1>3 DEF Unreported
<1>5. ASSUME OneSpelling(reply[s].text, Current(s, "label").title)
      PROVE  LastWord(s, "label", x)' = {}
  <2>1. \A k \in Handled(reply[s], "label") : reply[s].text[k].title # label[x].title
    BY <1>1, <1>2, <1>5, LabelNotTwice
  <2>2. \A n \in DOMAIN reply[s].done :
          ~(reply[s].done[n].what = "label" /\ reply[s].done[n].id = x)
    BY <1>1, <2>1 DEF Fits, DeedFits
  <2> QED
    BY <2>2 DEF LastWord
<1> QED
  BY <1>4, <1>5

LEMMA UnreportedUser ==
  ASSUME ReplyInv, NEW s \in Sessions, At(s, "user"), NEW before, Course(s, before),
         task' = TaskWithUser(s), label' = label, reply'[s] = reply[s]
  PROVE  \E u : /\ Unreported(s, before)' \subseteq {<<"user", u>>}
                /\ LastWord(s, "user", u)' = {}
<1>1. /\ AllTold(s, before) /\ Fits(pc[s], reply[s]) /\ Due(reply[s], "user") # {}
      /\ pc[s] = "user" /\ task \in Task
  BY TextTyped, ToldOnCall DEF At, CallPlaces, ReplyPlaces, Fits, Assigning, ReplyInv, ReplyTyped
<1>2. PICK u : u = Current(s, "user").name
  OBVIOUS
<1>3. /\ task'.users = Toggled(task.users, {u}, Assigned(s))
      /\ task'.labels = task.labels /\ task'.comments = task.comments
  BY <1>1, <1>2, UserAtHand DEF TaskWithUser, Task
<1>4. /\ \A i \in DOMAIN label : (i \in task'.labels) = Expected(s, "label", i, before.labels)'
      /\ \A v \in Accounts : v # u =>
           (v \in task'.users) = Expected(s, "user", v, before.users)'
      /\ task'.comments = before.comments + Commented(s)'
  <2>1. \A v : v # u => ((v \in task'.users) <=> (v \in task.users))
    BY <1>3 DEF Toggled
  <2>2. LabelsTold(s, before) /\ UsersTold(s, before) /\ CommentTold(s, before)
    BY <1>1 DEF AllTold
  <2>3. /\ \A what, id, ids : Expected(s, what, id, ids)' = Expected(s, what, id, ids)
        /\ Commented(s)' = Commented(s)
    BY ToldSame
  <2>4. \A i \in DOMAIN label : (i \in task'.labels) = Expected(s, "label", i, before.labels)'
    BY <1>3, <2>2, <2>3 DEF LabelsTold
  <2>5. \A v \in Accounts : v # u =>
          (v \in task'.users) = Expected(s, "user", v, before.users)'
    BY <2>1, <2>2, <2>3 DEF UsersTold
  <2>6. task'.comments = before.comments + Commented(s)'
    BY <1>3, <2>2, <2>3 DEF CommentTold
  <2> QED
    BY <2>4, <2>5, <2>6
<1>5. Unreported(s, before)' \subseteq {<<"user", u>>}
  BY <1>4 DEF Unreported
<1>6. \A k \in Handled(reply[s], "user") : reply[s].text[k].name # u
  BY <1>1, <1>2, UserNotTwice
<1>7. \A n \in DOMAIN reply[s].done :
        ~(reply[s].done[n].what = "user" /\ reply[s].done[n].id = u)
  BY <1>1, <1>6 DEF Fits, DeedFits
<1>8. LastWord(s, "user", u)' = {}
  BY <1>7 DEF LastWord
<1> QED
  BY <1>5, <1>8

LEMMA UnreportedComment ==
  ASSUME ReplyInv, NEW s \in Sessions, At(s, "comment"), NEW before, Course(s, before),
         task' = TaskWithComment, label' = label, reply'[s] = reply[s]
  PROVE  \E n : /\ Unreported(s, before)' \subseteq {<<"comment", n>>}
                /\ LastWord(s, "comment", n)' = {}
<1>1. /\ AllTold(s, before) /\ Fits(pc[s], reply[s]) /\ pc[s] = "comment" /\ task \in Task
  BY TextTyped, ToldOnCall DEF At, CallPlaces, ReplyPlaces, ReplyInv, ReplyTyped
<1>2. PICK n : n = task'.comments
  OBVIOUS
<1>3. task'.labels = task.labels /\ task'.users = task.users
  BY <1>1 DEF TaskWithComment, Task
<1>4. /\ \A i \in DOMAIN label : (i \in task'.labels) = Expected(s, "label", i, before.labels)'
      /\ \A v \in Accounts : (v \in task'.users) = Expected(s, "user", v, before.users)'
  BY <1>1, <1>3, ToldSame DEF AllTold, LabelsTold, UsersTold
<1>5. Unreported(s, before)' \subseteq {<<"comment", n>>}
  BY <1>2, <1>4 DEF Unreported
<1>6. \A k \in DOMAIN reply[s].done : reply[s].done[k].what # "comment"
  BY <1>1 DEF Fits, DeedFits
<1>7. LastWord(s, "comment", n)' = {}
  BY <1>6 DEF LastWord
<1> QED
  BY <1>5, <1>7

LEMMA FailCourse ==
  ASSUME ReplyInv, NEW s \in Sessions, Refused(s) \/ CallFails(s), NEW before, Course(s, before)
  PROVE  Course(s, before)'
<1>1. /\ pc[s] \in CallPlaces /\ pc'[s] = "failed" /\ reply' = reply
      /\ before.labels \subseteq DOMAIN label
  BY DEF Refused, CallFails, Go, ReplyInv, IdentitiesTyped, Course
<1>2. "failed" \notin Early \cup Labelling \cup Assigning \cup Toggling
  BY DEF Early, Labelling, Assigning, Toggling
<1>3. CASE UNCHANGED <<label, task>>
  BY <1>1, <1>3, FailingCourse
<1>4. CASE CarriedOut(s)
  <2>1. CASE At(s, "create") /\ label' = Created(Current(s, "label")) /\ task' = task
    <3>1. AllTold(s, before)' /\ before.labels \subseteq DOMAIN label'
      BY <1>1, <2>1, CreatedTold DEF At
    <3>2. Unreported(s, before)' = {} /\ Cardinality({}) = 0
      BY <3>1, FS_EmptySet DEF AllTold, LabelsTold, UsersTold, CommentTold, Unreported
    <3> QED
      BY <1>1, <1>2, <3>1, <3>2 DEF Course
  <2>2. CASE At(s, "label") /\ task' = TaskWithLabel(s) /\ label' = label
    <3>1. PICK x : /\ Unreported(s, before)' \subseteq {<<"label", x>>}
                   /\ OneSpelling(reply[s].text, Current(s, "label").title) =>
                        LastWord(s, "label", x)' = {}
      BY <1>1, <2>2, UnreportedLabel
    <3>2. Cardinality(Unreported(s, before)') <= 1
      BY <3>1, OneThing
    <3>3. Current(s, "label").title \in Titles
      <4>1. Due(reply[s], "label") # {}
        BY <2>2, TextTyped DEF At, Fits, Labelling
      <4> QED
        BY <4>1, AtHand DEF LabelWord
    <3>4. ASSUME \A t \in Titles : OneSpelling(reply[s].text, t), NEW thing \in Unreported(s, before)'
          PROVE  LastWord(s, thing[1], thing[2])' = {}
      <4>1. thing = <<"label", x>> /\ thing[1] = "label" /\ thing[2] = x
        BY <3>1, <3>4
      <4>2. LastWord(s, "label", x)' = {}
        BY <3>1, <3>3, <3>4
      <4> QED
        BY <4>1, <4>2
    <3> QED
      BY <1>1, <1>2, <2>2, <3>2, <3>4 DEF Course
  <2>3. CASE At(s, "user") /\ task' = TaskWithUser(s) /\ label' = label
    <3>1. PICK u : /\ Unreported(s, before)' \subseteq {<<"user", u>>}
                   /\ LastWord(s, "user", u)' = {}
      BY <1>1, <2>3, UnreportedUser
    <3>2. Cardinality(Unreported(s, before)') <= 1
      BY <3>1, OneThing
    <3>3. \A thing \in Unreported(s, before)' : LastWord(s, thing[1], thing[2])' = {}
      BY <3>1
    <3> QED
      BY <1>1, <1>2, <2>3, <3>2, <3>3 DEF Course
  <2>4. CASE At(s, "comment") /\ task' = TaskWithComment /\ label' = label
    <3>1. PICK n : /\ Unreported(s, before)' \subseteq {<<"comment", n>>}
                   /\ LastWord(s, "comment", n)' = {}
      BY <1>1, <2>4, UnreportedComment
    <3>2. Cardinality(Unreported(s, before)') <= 1
      BY <3>1, OneThing
    <3>3. \A thing \in Unreported(s, before)' : LastWord(s, thing[1], thing[2])' = {}
      BY <3>1
    <3> QED
      BY <1>1, <1>2, <2>4, <3>2, <3>3 DEF Course
  <2> QED
    BY <1>4, <2>1, <2>2, <2>3, <2>4 DEF CarriedOut
<1> QED
  BY <1>3, <1>4 DEF Refused, CallFails, vikVars

LEMMA CallCourse ==
  ASSUME ReplyInv, NEW s \in Sessions, Calls(s), NEW before \in Task, Course(s, before)
  PROVE  Course(s, before)'
BY ReadLabelsCourse, SearchCourse, CreateCourse, ToggleLabelCourse, ReadAssigneesCourse,
   FindUserCourse, ToggleUserCourse, CommentCourse, FailCourse DEF Calls

(* Before the calls nothing is done. *)
LEMMA EarlyCourse ==
  ASSUME NEW s \in Sessions, NEW before, Course(s, before), UNCHANGED <<label, task>>,
         pc[s] \in Early, pc'[s] \in Early
  PROVE  Course(s, before)'
BY DEF Course, Early, Labelling, Assigning, Toggling

LEMMA CheckTokenCourse ==
  ASSUME ReplyInv, NEW s \in Sessions, CheckToken(s), pc'[s] # "idle",
         NEW before, Course(s, before)
  PROVE  Course(s, before)'
<1>1. /\ pc[s] = "whoami" /\ UNCHANGED <<label, task, reply>> /\ task = before
      /\ pc'[s] = FirstCall(reply[s].text) /\ before.labels \subseteq DOMAIN label
  BY DEF CheckToken, Whoami, At, vikVars, Course, Early, Leave, Begin, Go, ReplyInv,
     IdentitiesTyped
<1>2. AllTold(s, before)'
  BY <1>1, ToldAtFirst, ToldStays
<1>3. pc'[s] \in {"labels", "assignees", "comment"}
  BY <1>1 DEF FirstCall
<1> QED
  BY <1>1, <1>2, <1>3 DEF Course, Early, Labelling, Assigning

-----------------------------------------------------------------------------
(* A reply that nobody joins keeps its course; all others are idle. *)
LEMMA TurnKeepsLone ==
  ASSUME ReplyInv, LoneInv, NEW s \in Sessions, FitTurn(s),
         \A before \in Task : /\ before \in reply[s].before /\ before \in reply'[s].before
                              /\ Course(s, before)
                              => Course(s, before)'
  PROVE  LoneInv'
<1>1. PICK place, memory : Turns(s, place, memory) /\ memory \in Reply
  BY DEF FitTurn
<1>2. /\ pc \in [Sessions -> TokenPlaces \cup ReplyPlaces] /\ reply \in [Sessions -> Reply]
      /\ pc[s] # "idle"
      /\ \A q \in Sessions \ {s} : pc'[q] = pc[q] /\ reply'[q] = reply[q]
      /\ reply'[s].before \subseteq reply[s].before
  BY <1>1 DEF Turns, ReplyInv, IdentitiesTyped, ReplyTyped
<1>3. ASSUME NEW q \in Sessions, NEW before \in reply'[q].before
      PROVE  (\A r \in Sessions \ {q} : pc'[r] = "idle") /\ Course(q, before)'
  <2>1. q = s
    BY <1>2, <1>3 DEF LoneInv
  <2>2. before \in reply[s].before /\ before \in Task
    BY <1>2, <1>3, <2>1 DEF Reply
  <2>3. (\A r \in Sessions \ {s} : pc[r] = "idle") /\ Course(s, before)
    BY <2>2 DEF LoneInv
  <2>4. Course(s, before)'
    BY <1>3, <2>1, <2>2, <2>3
  <2> QED
    BY <1>2, <2>1, <2>3, <2>4
<1> QED
  BY <1>3 DEF LoneInv

LEMMA JoinKeepsLone ==
  ASSUME ReplyInv, NEW s \in Sessions, At(s, "idle"), NEW place, pc' = [pc EXCEPT ![s] = place],
         NEW memory, Joined(s, memory),
         \A before \in memory.before : Quiet /\ Course(s, before)'
  PROVE  LoneInv'
<1>1. /\ pc \in [Sessions -> TokenPlaces \cup ReplyPlaces] /\ reply \in [Sessions -> Reply]
  BY DEF ReplyInv, IdentitiesTyped, ReplyTyped
<1>2. \A q \in Sessions \ {s} : reply'[q].before = {} /\ pc'[q] = pc[q]
  BY <1>1 DEF Joined, Reply
<1>3. reply'[s] = memory
  BY DEF Joined
<1>4. ASSUME NEW q \in Sessions, NEW before \in reply'[q].before
      PROVE  (\A r \in Sessions \ {q} : pc'[r] = "idle") /\ Course(q, before)'
  <2>1. q = s
    BY <1>2, <1>4
  <2>2. Quiet /\ Course(s, before)'
    BY <1>3, <1>4, <2>1
  <2> QED
    BY <1>2, <2>1, <2>2 DEF Quiet, At
<1> QED
  BY <1>4 DEF LoneInv

LEMMA CommandKeepsLone ==
  ASSUME ReplyInv, LoneInv, NEW s \in Sessions, Command(s)
  PROVE  LoneInv'
<1>1. CASE At(s, "idle") /\ Joined(s, NoReply) /\ \E place : pc' = [pc EXCEPT ![s] = place]
  <2>1. NoReply.before = {}
    BY DEF NoReply
  <2> QED
    BY <1>1, <2>1, JoinKeepsLone
<1>2. CASE FitTurn(s) /\ ~Arrives(s)
  <2>1. ASSUME NEW before \in Task, before \in reply[s].before, before \in reply'[s].before,
               Course(s, before)
        PROVE  Course(s, before)'
    <3>1. NoReply.before = {}
      BY DEF NoReply
    <3>2. /\ reply \in [Sessions -> Reply] /\ Fits(pc[s], reply[s])
          /\ pc \in [Sessions -> TokenPlaces \cup ReplyPlaces]
      BY TextTyped DEF ReplyInv, ReplyTyped, IdentitiesTyped
    <3>3. pc[s] \in ReplyPlaces \cup {"binding", "whoami"}
      BY <2>1, <3>2 DEF Fits
    <3>4. reply'[s] # NoReply
      BY <2>1, <3>1
    <3>5. pc'[s] # "idle"
      BY <3>2, <3>4 DEF Command, Remember
    <3>6. pc[s] = "binding" /\ pc'[s] = "whoami"
      BY <1>2, <3>2, <3>3, <3>5 DEF Command, TokenStep, Login, Logout, Identify, Bind, Unbind,
         ReadBinding, TokenCallFails, At, Leave, Begin, TokenPlaces, ReplyPlaces
    <3> QED
      BY <2>1, <3>6, EarlyCourse DEF Command, vikVars, Early
  <2> QED
    BY <1>2, <2>1, TurnKeepsLone
<1> QED
  BY <1>1, <1>2, CommandCases

LEMMA StartKeepsLone ==
  ASSUME ReplyInv, NEW s \in Sessions, NEW a, NEW spot, NEW text, StartReply(s, a, spot, text)
  PROVE  LoneInv'
<1>1. PICK m : m = [NoReply EXCEPT !.spot = spot, !.text = text,
                                   !.before = IF Quiet THEN {task} ELSE {}]
  OBVIOUS
<1>2. /\ Joined(s, m) /\ pc' = [pc EXCEPT ![s] = "card"] /\ At(s, "idle")
      /\ UNCHANGED <<label, task>> /\ pc \in [Sessions -> TokenPlaces \cup ReplyPlaces]
  BY <1>1 DEF StartReply, Arrives, Begin, vikVars, ReplyInv, IdentitiesTyped
<1>3. m.before = IF Quiet THEN {task} ELSE {}
  BY <1>1 DEF NoReply
<1>4. ASSUME NEW before \in m.before
      PROVE  Quiet /\ Course(s, before)'
  <2>1. Quiet /\ before = task /\ before.labels \subseteq DOMAIN label
    BY <1>3, <1>4 DEF ReplyInv, ReplyTyped
  <2> QED
    BY <1>2, <2>1 DEF Course, Early, Labelling, Assigning, Toggling
<1> QED
  BY <1>2, <1>4, JoinKeepsLone

LEMMA LookupKeepsLone ==
  ASSUME ReplyInv, LoneInv, NEW s \in Sessions,
         FindCard(s) \/ FindCardOfThread(s) \/ LookupFails(s) \/ Tell(s)
  PROVE  LoneInv'
<1>1. UNCHANGED <<label, task>> /\ NoReply.before = {}
  BY DEF FindCard, FindCardOfThread, LookupFails, Tell, vikVars, NoReply
<1>2. FitTurn(s)
  BY <1>1, LookupTurns, StillGrown
<1>3. ASSUME NEW before \in reply'[s].before, Course(s, before)
      PROVE  Course(s, before)'
  <2>1. ~Dismiss(s)
    BY <1>1, <1>3 DEF Dismiss, Remember, ReplyInv, ReplyTyped
  <2>2. pc[s] \in Early /\ pc'[s] \in Early
    BY <2>1 DEF FindCard, FindCardOfThread, LookupFails, Tell, Admit, At, Go, Early, ReplyInv,
       IdentitiesTyped
  <2> QED
    BY <1>1, <1>3, <2>2, EarlyCourse
<1> QED
  BY <1>2, <1>3, TurnKeepsLone

LEMMA LoneKept ==
  ASSUME ReplyInv, LoneInv, [Next]_vars
  PROVE  LoneInv'
<1>1. ASSUME UNCHANGED <<label, task, pc, reply>>
      PROVE  LoneInv'
  <2>1. ASSUME NEW s \in Sessions, NEW before, Course(s, before)
        PROVE  Course(s, before)'
    <3>1. AllTold(s, before) => AllTold(s, before)'
      BY <1>1, ToldStays
    <3>2. Unreported(s, before)' = Unreported(s, before)
      BY <1>1, ToldSame DEF Unreported
    <3>3. \A what, id : LastWord(s, what, id)' = LastWord(s, what, id)
      BY <1>1, ToldSame
    <3>4. \A t, i : Only(t, i)' = Only(t, i)
      BY <1>1 DEF Only, LabelsOf
    <3>5. PICK U : U = Unreported(s, before)
      OBVIOUS
    <3>6. pc[s] = "failed" =>
            /\ Cardinality(U) <= 1
            /\ (\A t \in Titles : OneSpelling(reply[s].text, t)) =>
                 \A thing \in U : LastWord(s, thing[1], thing[2])' = {}
      BY <2>1, <3>3, <3>5 DEF Course
    <3>7. Unreported(s, before)' = U
      BY <3>2, <3>5
    <3> QED
      BY <1>1, <2>1, <3>1, <3>4, <3>6, <3>7 DEF Course
  <2>2. ASSUME NEW s \in Sessions, NEW before \in reply[s].before
        PROVE  Course(s, before)'
    <3>1. PICK b : b = before
      OBVIOUS
    <3>2. Course(s, b)
      BY <3>1 DEF LoneInv
    <3> QED
      BY <2>1, <3>1, <3>2
  <2> QED
    BY <1>1, <2>2 DEF LoneInv
<1>2. ASSUME NEW s \in Sessions, CheckToken(s)
      PROVE  LoneInv'
  <2>1. FitTurn(s)
    BY <1>2, CheckTokenTurns, StillGrown DEF CheckToken, vikVars
  <2>2. ASSUME NEW before \in reply'[s].before, Course(s, before)
        PROVE  Course(s, before)'
    <3>1. NoReply.before = {}
      BY DEF NoReply
    <3>2. pc'[s] # "idle"
      BY <1>2, <2>2, <3>1 DEF CheckToken, Remember, ReplyInv, ReplyTyped
    <3> QED
      BY <1>2, <2>2, <3>2, CheckTokenCourse
  <2> QED
    BY <2>1, <2>2, TurnKeepsLone
<1>3. ASSUME NEW s \in Sessions, Calls(s)
      PROVE  LoneInv'
  BY <1>3, CallTurns, CallCourse, TurnKeepsLone
<1>4. UNCHANGED vars \/ TokenChanges => UNCHANGED <<label, task, pc, reply>>
  BY DEF vars, tokenVars, vikVars, TokenChanges, Revoke, Rehome, Changes
<1>5. ASSUME NEW s \in Sessions, Act(s)
      PROVE  LoneInv'
  BY <1>3, <1>5, StartKeepsLone, LookupKeepsLone DEF Act, Calls
<1> QED
  BY <1>1, <1>2, <1>4, <1>5, CommandKeepsLone DEF Next

-----------------------------------------------------------------------------
(* No label is made twice. *)
LEMMA LabelsFinite ==
  ASSUME label \in Seq(Label), NEW t
  PROVE  /\ IsFiniteSet(Covering(t)) /\ Cardinality(Covering(t)) \in Nat
         /\ IsFiniteSet(LabelsOf(t))
<1>1. DOMAIN label = 1 .. Len(label) /\ Len(label) \in Nat
  OBVIOUS
<1>2. IsFiniteSet(DOMAIN label)
  BY <1>1, FS_Interval
<1>3. Covering(t) \subseteq DOMAIN label /\ LabelsOf(t) \subseteq DOMAIN label
  BY DEF Covering, LabelsOf
<1> QED
  BY <1>2, <1>3, FS_Subset, FS_CardinalityType

(* A search that may return all that there is finds a label of the title.  *)
LEMMA AllAreHits ==
  ASSUME label \in Seq(Label), NEW t \in Titles, Cardinality(Covering(t)) < PageSize
  PROVE  Hits(t) = Covering(t)
<1>1. ASSUME NEW i \in Covering(t)
      PROVE  Cardinality({j \in Covering(t) : j < i}) < PageSize
  <2>1. {j \in Covering(t) : j < i} \in SUBSET Covering(t)
    OBVIOUS
  <2>2. /\ Cardinality({j \in Covering(t) : j < i}) <= Cardinality(Covering(t))
        /\ Cardinality({j \in Covering(t) : j < i}) \in Nat
    BY <2>1, LabelsFinite, FS_Subset, FS_CardinalityType
  <2> QED
    BY <2>2, LabelsFinite, ReplyConstants
<1> QED
  BY <1>1 DEF Hits, Covering

LEMMA CreatedUnique ==
  ASSUME ReplyInv, NEW s \in Sessions, At(s, "create"), Matches(Current(s, "label")) = {},
         label' = Created(Current(s, "label")), Unique
  PROVE  Unique'
<1>1. PICK n, title : n = Len(label') /\ title = Current(s, "label").title
  OBVIOUS
<1>2. /\ Grown /\ DOMAIN label' = DOMAIN label \cup {n} /\ n \notin DOMAIN label
      /\ label'[n].title = title /\ title \in Titles /\ label \in Seq(Label) /\ label' \in Seq(Label)
  BY <1>1, CreatedGrows DEF LabelWord, ReplyInv, ReplyTyped, Grown
<1>3. /\ \A i \in DOMAIN label : label[i].title \in Nat
      /\ title \in Nat
  <2>1. \A i \in DOMAIN label : label[i] \in Label
    BY <1>2
  <2> QED
    BY <1>2, <2>1, ReplyConstants DEF Label
<1> SUFFICES ASSUME NEW t \in Titles, Cardinality(Covering(t)') <= PageSize
             PROVE  Cardinality(LabelsOf(t)') <= 1
  BY DEF Unique
<1>4. PICK old, new : old = Covering(t) /\ new = Covering(t)'
  OBVIOUS
<1>5. IsFiniteSet(old) /\ IsFiniteSet(new) /\ Cardinality(old) \in Nat /\ Cardinality(new) \in Nat
  <2>1. IsFiniteSet(Covering(t))' /\ (Cardinality(Covering(t)) \in Nat)'
    <3>1. DOMAIN label' = 1 .. Len(label') /\ Len(label') \in Nat
      BY <1>2
    <3>2. IsFiniteSet(DOMAIN label')
      BY <3>1, FS_Interval
    <3>3. Covering(t)' \subseteq DOMAIN label'
      BY DEF Covering
    <3> QED
      BY <3>2, <3>3, FS_Subset, FS_CardinalityType
  <2> QED
    BY <1>2, <1>4, <2>1, LabelsFinite
<1>6. old \subseteq new
  BY <1>2, <1>4 DEF Covering, Grown
<1>7. CASE t # title
  <2>1. LabelsOf(t)' = LabelsOf(t)
    BY <1>2, <1>7 DEF LabelsOf, Grown
  <2>2. Cardinality(old) <= Cardinality(new)
    BY <1>5, <1>6, FS_Subset
  <2>3. Cardinality(old) <= PageSize
    BY <1>4, <1>5, <2>2, ReplyConstants
  <2> QED
    BY <1>4, <2>1, <2>3 DEF Unique
<1>8. CASE t = title
  <2>1. n \in new /\ n \notin old
    BY <1>2, <1>3, <1>4, <1>8 DEF Covering
  <2>2. old \subseteq new \ {n}
    BY <1>6, <2>1
  <2>3. /\ IsFiniteSet(new \ {n}) /\ Cardinality(new \ {n}) = Cardinality(new) - 1
    BY <1>5, <2>1, FS_RemoveElement
  <2>4. Cardinality(old) <= Cardinality(new \ {n})
    BY <2>2, <2>3, FS_Subset
  <2>5. Cardinality(Covering(t)) < PageSize
    BY <1>4, <1>5, <2>3, <2>4, ReplyConstants
  <2>6. Hits(t) = Covering(t)
    BY <1>2, <2>5, AllAreHits
  <2>7. LabelsOf(t) \subseteq Covering(t)
    BY <1>2, <1>3, <1>8 DEF LabelsOf, Covering
  <2>8. LabelsOf(t) = {}
    BY <1>1, <1>8, <2>6, <2>7 DEF Matches, LabelsOf
  <2>9. LabelsOf(t)' \subseteq {n}
    BY <1>2, <2>8 DEF LabelsOf, Grown
  <2> QED
    BY <2>9, OneThing
<1> QED
  BY <1>7, <1>8

(* A handler that is under way goes on, and made a label only if none was  *)
(* found.                                                                  *)
LEMMA TurnKeepsUnique ==
  ASSUME ReplyInv, NEW s \in Sessions, FitTurn(s), OneAtATime, NotFound, Unique,
         pc'[s] = "create" => SearchLabel(s),
         \/ label' = label
         \/ At(s, "create") /\ label' = Created(Current(s, "label"))
  PROVE  OneAtATime' /\ NotFound' /\ Unique'
<1>1. /\ pc[s] # "idle" /\ pc \in [Sessions -> TokenPlaces \cup ReplyPlaces]
      /\ \A q \in Sessions \ {s} : pc'[q] = pc[q]
  BY DEF FitTurn, Turns, ReplyInv, IdentitiesTyped
<1>2. \A q \in Sessions \ {s} : pc[q] = "idle" /\ pc'[q] = "idle"
  BY <1>1 DEF OneAtATime
<1>3. OneAtATime'
  BY <1>2 DEF OneAtATime
<1>4. NotFound'
  <2>1. ASSUME pc'[s] = "create"
        PROVE  Matches(Current(s, "label"))' = {}
    <3>1. /\ SearchLabel(s) /\ label' = label
      BY <2>1 DEF SearchLabel, vikVars
    <3>2. Matches(Current(s, "label")) = {} /\ reply' = reply
      <4>1. CASE Matches(Current(s, "label")) = {}
        BY <3>1, <4>1 DEF SearchLabel
      <4>2. CASE Matches(Current(s, "label")) # {}
        BY <1>1, <2>1, <3>1, <4>2 DEF SearchLabel, Then, Go
      <4> QED
        BY <4>1, <4>2
    <3> QED
      BY <3>1, <3>2 DEF Matches, Hits, Current, Pending
  <2> QED
    BY <1>2, <2>1 DEF NotFound, At
<1>5. Unique'
  <2>1. CASE label' = label
    BY <2>1 DEF Unique, Covering, LabelsOf
  <2>2. CASE At(s, "create") /\ label' = Created(Current(s, "label"))
    BY <2>2, CreatedUnique DEF NotFound
  <2> QED
    BY <2>1, <2>2
<1> QED
  BY <1>3, <1>4, <1>5

LEMMA ArrivalKeepsUnique ==
  ASSUME ReplyInv, NEW s \in Sessions, Quiet, Unique, UNCHANGED label,
         NEW place, pc' = [pc EXCEPT ![s] = place], place # "create"
  PROVE  OneAtATime' /\ NotFound' /\ Unique'
<1>1. \A q \in Sessions : pc'[q] = IF q = s THEN place ELSE "idle"
  BY DEF Quiet, At, ReplyInv, IdentitiesTyped
<1>2. Unique'
  BY DEF Unique, Covering, LabelsOf
<1> QED
  BY <1>1, <1>2 DEF OneAtATime, NotFound, At

LEMMA UniqueKept ==
  ASSUME ReplyInv, UniqueInv, [Next]_vars
  PROVE  UniqueInv'
<1> SUFFICES ASSUME Sequential'
             PROVE  OneAtATime' /\ NotFound' /\ Unique'
  BY DEF UniqueInv
<1>1. ASSUME UNCHANGED <<label, pc, reply>>, Sequential
      PROVE  OneAtATime' /\ NotFound' /\ Unique'
  BY <1>1 DEF UniqueInv, OneAtATime, NotFound, Unique, Covering, LabelsOf, At, Matches, Hits,
     Current, Pending
<1>2. UNCHANGED vars \/ TokenChanges => UNCHANGED <<label, pc, reply>> /\ Sequential
  BY DEF vars, tokenVars, tokenBudgets, vikVars, TokenChanges, Revoke, Rehome, Changes, Fault,
     Sequential
<1>3. pc \in [Sessions -> TokenPlaces \cup ReplyPlaces]
  BY DEF ReplyInv, IdentitiesTyped
<1>4. ASSUME NEW s \in Sessions, Command(s)
      PROVE  OneAtATime' /\ NotFound' /\ Unique'
  <2>1. UNCHANGED label /\ (UNCHANGED tokenBudgets \/ Fault \/ Arrives(s))
    BY <1>4 DEF Command, TokenStep, Login, Logout, Identify, Bind, Unbind, ReadBinding,
       TokenCallFails, vikVars
  <2>2. Sequential /\ (Arrives(s) => Quiet)
    BY <2>1, BudgetsKept DEF ReplyInv
  <2>3. CASE Arrives(s) /\ \E place \in {"identify", "unbind"} : pc' = [pc EXCEPT ![s] = place]
    BY <2>1, <2>2, <2>3, ArrivalKeepsUnique DEF UniqueInv
  <2>4. CASE FitTurn(s) /\ ~Arrives(s)
    <3>1. pc'[s] \in {"idle", "bind", "whoami"}
      BY <1>3, <1>4, <2>4 DEF Command, TokenStep, Login, Logout, Identify, Bind, Unbind, ReadBinding,
         TokenCallFails, Leave, Begin
    <3> QED
      BY <2>1, <2>2, <2>4, <3>1, TurnKeepsUnique DEF UniqueInv
  <2> QED
    BY <1>4, <2>3, <2>4, CommandCases
<1>5. ASSUME NEW s \in Sessions, CheckToken(s)
      PROVE  OneAtATime' /\ NotFound' /\ Unique'
  <2>1. UNCHANGED label /\ UNCHANGED tokenBudgets
    BY <1>5 DEF CheckToken, Whoami, vikVars
  <2>2. FitTurn(s) /\ Sequential
    BY <1>5, <2>1, CheckTokenTurns, StillGrown, BudgetsKept DEF ReplyInv
  <2>3. pc'[s] # "create"
    BY <1>3, <1>5 DEF CheckToken, Whoami, Leave, Begin, Go, FirstCall
  <2> QED
    BY <2>1, <2>2, <2>3, TurnKeepsUnique DEF UniqueInv
<1>6. ASSUME NEW s \in Sessions, Act(s)
      PROVE  OneAtATime' /\ NotFound' /\ Unique'
  <2>1. UNCHANGED tokenBudgets \/ Fault \/ Arrives(s)
    BY <1>6 DEF Act, StartReply, FindCard, FindCardOfThread, LookupFails, ReadLabels, SearchLabel,
       CreateLabel, ToggleLabel, ReadAssignees, FindUser, ToggleUser, AddComment, Refused,
       CallFails, Tell
  <2>2. Sequential /\ (Arrives(s) => Quiet)
    BY <2>1, BudgetsKept DEF ReplyInv
  <2>3. CASE Calls(s)
    <3>1. FitTurn(s)
      BY <2>3, CallTurns
    <3>2. \/ label' = label
          \/ At(s, "create") /\ label' = Created(Current(s, "label"))
      <4>1. CASE CallFails(s)
        BY <4>1 DEF CallFails, CarriedOut, vikVars
      <4>2. CASE CreateLabel(s)
        BY <4>2 DEF CreateLabel
      <4>3. CASE ~CallFails(s) /\ ~CreateLabel(s)
        BY <2>3, <4>3 DEF Calls, ReadLabels, SearchLabel, ToggleLabel, ReadAssignees, FindUser,
           ToggleUser, AddComment, Refused, vikVars
      <4> QED
        BY <4>1, <4>2, <4>3
    <3>3. CASE SearchLabel(s)
      BY <2>2, <3>1, <3>2, <3>3, TurnKeepsUnique DEF UniqueInv
    <3>4. CASE ~SearchLabel(s)
      <4>1. \A text, todo, kind : Following(text, todo, kind) # "create"
        BY DEF Following
      <4>2. pc'[s] # "create"
        BY <1>3, <2>3, <3>4, <4>1 DEF Calls, ReadLabels, CreateLabel, ToggleLabel, ReadAssignees,
           FindUser, ToggleUser, AddComment, Refused, CallFails, Then, Go
      <4> QED
        BY <2>2, <3>1, <3>2, <4>2, TurnKeepsUnique DEF UniqueInv
    <3> QED
      BY <3>3, <3>4
  <2>4. CASE FindCard(s) \/ FindCardOfThread(s) \/ LookupFails(s) \/ Tell(s)
    <3>1. label' = label
      BY <2>4 DEF FindCard, FindCardOfThread, LookupFails, Tell, vikVars
    <3>2. FitTurn(s)
      BY <2>4, <3>1, LookupTurns, StillGrown
    <3>3. pc'[s] # "create"
      BY <1>3, <2>4 DEF FindCard, FindCardOfThread, LookupFails, Tell, Admit, Dismiss, Leave, Begin, Go
    <3> QED
      BY <2>2, <3>1, <3>2, <3>3, TurnKeepsUnique DEF UniqueInv
  <2>5. ASSUME NEW a \in Actors, NEW spot \in Spots, NEW text \in Texts,
               StartReply(s, a, spot, text)
        PROVE  OneAtATime' /\ NotFound' /\ Unique'
    BY <2>2, <2>5, ArrivalKeepsUnique DEF StartReply, Begin, vikVars, UniqueInv
  <2> QED
    BY <1>6, <2>3, <2>4, <2>5 DEF Act, Calls
<1> QED
  BY <1>1, <1>2, <1>4, <1>5, <1>6 DEF Next

-----------------------------------------------------------------------------
(* The invariant, and what follows from it.                                *)
RepliesInv == IdentityInv /\ ReplyInv /\ LoneInv /\ UniqueInv

LEMMA InitEstablishesReplies ==
  ASSUME Init
  PROVE  RepliesInv
<1>1. IdentityInv
  BY InitEstablishesInv
<1>2. PICK n \in Nat : label \in [1 .. n -> Label]
  BY ReplyConstants DEF Init
<1>3. label \in Seq(Label)
  BY <1>2
<1>4. ReplyTyped
  <2>1. card \in Card
    BY DEF Init, Card
  <2>2. DOMAIN label \subseteq Nat \ {0}
    BY <1>2
  <2>3. task \in Task /\ task.labels \subseteq DOMAIN label
    BY <2>2 DEF Init, Task
  <2>4. reply \in [Sessions -> Reply]
    BY NoReplyFits DEF Init
  <2> QED
    BY <1>3, <2>1, <2>3, <2>4, TokenConstants DEF Init, TokenInit, ReplyTyped
<1>5. \A s \in Sessions : pc[s] = "idle" /\ reply[s] = NoReply
  BY DEF Init, TokenInit
<1>6. ReplyInv
  <2>1. "idle" \in TokenPlaces \ {"binding", "whoami"}
    BY DEF TokenPlaces
  <2>2. Fits("idle", NoReply)
    BY <2>1, NoReplyFits
  <2> QED
    BY <1>1, <1>4, <1>5, <2>2 DEF ReplyInv, FitsInv, IdentityInv
<1>7. LoneInv
  BY <1>5 DEF LoneInv, NoReply
<1>8. UniqueInv
  <2>1. ASSUME NEW t \in Titles
        PROVE  Cardinality(LabelsOf(t)) <= 1
    <3>1. \A i, j \in LabelsOf(t) : i = j
      BY DEF Init, LabelsOf
    <3>2. PICK i : LabelsOf(t) \subseteq {i}
      BY <3>1
    <3> QED
      BY <3>2, OneThing
  <2> QED
    BY <1>5, <2>1 DEF UniqueInv, OneAtATime, NotFound, Unique, At
<1> QED
  BY <1>1, <1>6, <1>7, <1>8 DEF RepliesInv

LEMMA RepliesInvKept ==
  ASSUME RepliesInv, [Next]_vars
  PROVE  RepliesInv'
<1>1. IdentityInv'
  BY NextKeepsInv DEF RepliesInv
<1>2. ReplyInv'
  BY <1>1, ReplyInvKept DEF RepliesInv
<1>3. LoneInv'
  BY LoneKept DEF RepliesInv
<1>4. UniqueInv'
  BY UniqueKept DEF RepliesInv
<1> QED
  BY <1>1, <1>2, <1>3, <1>4 DEF RepliesInv

LEMMA RepliesInvariant == Spec => []RepliesInv
<1>1. Init => RepliesInv
  BY InitEstablishesReplies
<1>2. RepliesInv /\ [Next]_vars => RepliesInv'
  BY RepliesInvKept
<1> QED
  BY <1>1, <1>2, PTL DEF Spec

(* One spelling at most, as the properties count them. *)
LEMMA SpellingsOne ==
  ASSUME NEW text \in Seq(Word), NEW t, Cardinality(Spellings(text, t)) <= 1
  PROVE  OneSpelling(text, t)
<1> DEFINE P == {m \in Positions(text, "label") : text[m].title = t}
           f == [m \in P |-> text[m]]
<1>1. IsFiniteSet(P)
  <2>1. DOMAIN text = 1 .. Len(text) /\ Len(text) \in Nat
    OBVIOUS
  <2>2. IsFiniteSet(DOMAIN text)
    BY <2>1, FS_Interval
  <2>3. P \in SUBSET DOMAIN text
    BY DEF Positions
  <2> QED
    BY <2>2, <2>3, FS_Subset
<1>2. IsFiniteSet(Spellings(text, t))
  <2>1. f \in Surjection(P, Spellings(text, t))
    BY DEF Surjection, Spellings
  <2> QED
    BY <1>1, <2>1, FS_Surjection
<1> SUFFICES ASSUME NEW m \in P, NEW n \in P, text[m] # text[n]
             PROVE  FALSE
  BY DEF OneSpelling
<1>3. PICK one, two : one = {text[m]} /\ two = one \cup {text[n]}
  OBVIOUS
<1>4. two \in SUBSET Spellings(text, t)
  BY <1>3 DEF Spellings
<1>5. Cardinality(two) <= Cardinality(Spellings(text, t))
  BY <1>2, <1>4, FS_Subset
<1>6. IsFiniteSet(one) /\ Cardinality(one) = 1 /\ text[n] \notin one
  BY <1>3, FS_Singleton
<1>7. Cardinality(two) = 2
  <2>1. Cardinality(one \cup {text[n]}) =
          IF text[n] \in one THEN Cardinality(one) ELSE Cardinality(one) + 1
    BY <1>6, FS_AddElement
  <2>2. Cardinality(two) = Cardinality(one) + 1
    BY <1>3, <1>6, <2>1
  <2> QED
    BY <1>6, <2>2
<1>8. Cardinality(Spellings(text, t)) \in Nat
  BY <1>2, FS_CardinalityType
<1> QED
  BY <1>5, <1>7, <1>8

(* When a handler is through, it has handled all that the reply names.     *)
LEMMA ThroughWithAll ==
  ASSUME ReplyInv, NEW s \in Sessions, At(s, "done"), NEW kind \in {"label", "user"}
  PROVE  /\ Handled(reply[s], kind) \subseteq Positions(reply[s].text, kind)
         /\ \A n \in Positions(reply[s].text, kind) :
              \E k \in Handled(reply[s], kind) : reply[s].text[k] = reply[s].text[n]
<1>1. reply[s].text \in Seq(Word) /\ Due(reply[s], kind) = {}
  BY TextTyped DEF At, Fits
<1>2. Handled(reply[s], kind) = Firsts(reply[s].text, kind)
  BY <1>1 DEF Handled, Firsts, Due
<1>3. Firsts(reply[s].text, kind) \subseteq Positions(reply[s].text, kind)
  BY DEF Firsts
<1> QED
  BY <1>1, <1>2, <1>3, FirstWordExists

LEMMA OneOfItsTitle ==
  ASSUME label \in Seq(Label), NEW t, Cardinality(LabelsOf(t)) = 1, NEW i \in LabelsOf(t)
  PROVE  i \in DOMAIN label /\ Only(t, i)
<1>1. PICK x : LabelsOf(t) = {x}
  BY LabelsFinite, FS_Singleton
<1> QED
  BY <1>1 DEF LabelsOf, Only

LEMMA ToggledOnce ==
  ASSUME ReplyInv, LoneInv
  PROVE  LoneReplyToggles
<1> SUFFICES ASSUME NEW s \in Sessions, NEW before \in reply[s].before, At(s, "done")
             PROVE  LET text == reply[s].text
                    IN  /\ \A t \in Titles :
                             Cardinality(Spellings(text, t)) <= 1 /\ Cardinality(LabelsOf(t)) = 1 =>
                               \A i \in LabelsOf(t) :
                                 ((i \in task.labels) # (i \in before.labels))
                                   <=> Spellings(text, t) # {}
                        /\ \A u \in Accounts :
                             ((u \in task.users) # (u \in before.users))
                               <=> \E n \in Positions(text, "user") : text[n].name = u
  BY DEF LoneReplyToggles
<1>1. LabelsToggled(s, before) /\ UsersToggled(s, before)
  BY DEF LoneInv, Course, Toggling, At, AllTold
<1>2. ASSUME NEW t \in Titles, Cardinality(Spellings(reply[s].text, t)) <= 1,
             Cardinality(LabelsOf(t)) = 1, NEW i \in LabelsOf(t)
      PROVE  ((i \in task.labels) # (i \in before.labels))
               <=> Spellings(reply[s].text, t) # {}
  <2>1. OneSpelling(reply[s].text, t)
    BY <1>2, TextTyped, SpellingsOne
  <2>2. i \in DOMAIN label /\ Only(t, i)
    BY <1>2, OneOfItsTitle DEF ReplyInv, ReplyTyped
  <2>3. ((i \in task.labels) # (i \in before.labels))
          <=> \E k \in Handled(reply[s], "label") : reply[s].text[k].title = t
    BY <1>1, <2>1, <2>2 DEF LabelsToggled
  <2>4. (\E k \in Handled(reply[s], "label") : reply[s].text[k].title = t)
          <=> Spellings(reply[s].text, t) # {}
    <3>1. /\ Handled(reply[s], "label") \subseteq Positions(reply[s].text, "label")
          /\ \A n \in Positions(reply[s].text, "label") :
               \E k \in Handled(reply[s], "label") : reply[s].text[k] = reply[s].text[n]
      BY ThroughWithAll
    <3>2. Spellings(reply[s].text, t) # {}
            <=> \E n \in Positions(reply[s].text, "label") : reply[s].text[n].title = t
      BY DEF Spellings
    <3> QED
      BY <3>1, <3>2
  <2> QED
    BY <2>3, <2>4
<1>3. ASSUME NEW u \in Accounts
      PROVE  ((u \in task.users) # (u \in before.users))
               <=> \E n \in Positions(reply[s].text, "user") : reply[s].text[n].name = u
  <2>1. ((u \in task.users) # (u \in before.users))
          <=> \E k \in Handled(reply[s], "user") : reply[s].text[k].name = u
    BY <1>1 DEF UsersToggled
  <2>2. /\ Handled(reply[s], "user") \subseteq Positions(reply[s].text, "user")
        /\ \A n \in Positions(reply[s].text, "user") :
             \E k \in Handled(reply[s], "user") : reply[s].text[k] = reply[s].text[n]
    BY ThroughWithAll
  <2>3. (\E k \in Handled(reply[s], "user") : reply[s].text[k].name = u)
          <=> \E n \in Positions(reply[s].text, "user") : reply[s].text[n].name = u
    BY <2>2
  <2> QED
    BY <2>1, <2>3
<1> QED
  BY <1>2, <1>3

LEMMA ReportTrue ==
  ASSUME ReplyInv, LoneInv
  PROVE  ReportIsHonest
<1> SUFFICES ASSUME NEW s \in Sessions, NEW before \in reply[s].before
             PROVE  /\ At(s, "done") => Unreported(s, before) = {}
                    /\ At(s, "failed") =>
                         /\ Cardinality(Unreported(s, before)) <= 1
                         /\ (\A t \in Titles : Cardinality(Spellings(reply[s].text, t)) <= 1) =>
                              \A thing \in Unreported(s, before) :
                                LastWord(s, thing[1], thing[2]) = {}
  BY DEF ReportIsHonest
<1>1. Course(s, before)
  BY DEF LoneInv
<1>2. ASSUME At(s, "done")
      PROVE  Unreported(s, before) = {}
  BY <1>1, <1>2, NothingUnreported DEF Course, Toggling, At, AllTold
<1>3. ASSUME \A t \in Titles : Cardinality(Spellings(reply[s].text, t)) <= 1
      PROVE  \A t \in Titles : OneSpelling(reply[s].text, t)
  BY <1>3, TextTyped, SpellingsOne
<1>4. ASSUME At(s, "failed")
      PROVE  /\ Cardinality(Unreported(s, before)) <= 1
             /\ (\A t \in Titles : Cardinality(Spellings(reply[s].text, t)) <= 1) =>
                  \A thing \in Unreported(s, before) : LastWord(s, thing[1], thing[2]) = {}
  BY <1>1, <1>3, <1>4 DEF Course, At
<1> QED
  BY <1>2, <1>4

-----------------------------------------------------------------------------
(* The theorems.                                                           *)

(* Whatever replies, commands and failures run beside each other: every    *)
(* handler's memory stays of its type, and the task carries only labels    *)
(* that Vikunja has (bot.py:474-523, task_actions.py:42-98).               *)
THEOREM RepliesTypeCorrect == Spec => []TypeOK
<1>1. RepliesInv => TypeOK
  BY DEF RepliesInv, IdentityInv, IdentitiesTyped, ReplyInv, ReplyTyped, TypeOK
<1> QED
  BY <1>1, RepliesInvariant, PTL

(* While handlers do not overlap, no label is made whose title there is,   *)
(* as long as one page of a search holds all that contain the title        *)
(* (task_actions.py:84-98, vikunja.py:82-84).                              *)
THEOREM LabelsUnique == Spec => []LabelsStayUnique
<1>1. RepliesInv => LabelsStayUnique
  BY DEF RepliesInv, UniqueInv, Unique, Covering, LabelsStayUnique
<1> QED
  BY <1>1, RepliesInvariant, PTL

(* A reply that ran alone and is through has toggled each label and each   *)
(* user it names exactly once and no other, however long it is and however *)
(* often it names them (task_actions.py:42-73, README.md:279-280).         *)
THEOREM LoneRepliesToggle == Spec => []LoneReplyToggles
<1>1. RepliesInv => LoneReplyToggles
  BY ToggledOnce DEF RepliesInv
<1> QED
  BY <1>1, RepliesInvariant, PTL

(* What a reply that ran alone reports is what became of the task; when a  *)
(* call failed, at most one thing more was done, and that one is not       *)
(* spoken of (task_actions.py:77-80, bot.py:513-518).                      *)
THEOREM ReportsAreHonest == Spec => []ReportIsHonest
<1>1. RepliesInv => ReportIsHonest
  BY ReportTrue DEF RepliesInv
<1> QED
  BY <1>1, RepliesInvariant, PTL
=============================================================================
