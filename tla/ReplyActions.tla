---------------------------- MODULE ReplyActions ----------------------------
(***************************************************************************)
(* A reply to a task's card acts on the task in Vikunja: *label and @user  *)
(* toggle, what remains becomes a comment (task_message_reply in bot.py,   *)
(* task_actions.py).  The handler finds the card, checks the grant, checks *)
(* the actor's token, reads the labels and assignees once and then goes    *)
(* through what the reply names, call by call; any call may fail, and      *)
(* other replies and commands run in between.                              *)
(*                                                                         *)
(* A title is a number: a label's title contains, in the sense of Vikunja's*)
(* search, every title that is not greater ("bug", "bugs", "bugs-ui").     *)
(***************************************************************************)
EXTENDS TokenBindings

CONSTANTS
  Titles,     \* label titles without regard to case, a set of numbers
  Cases,      \* the spellings of a title
  Strangers,  \* user names Vikunja does not know
  Texts,      \* the texts of replies, as sequences of words
  InChannel,  \* whether the card is a post of a channel with a discussion
  PageSize,   \* how many labels a search returns
  MaxLabels   \* bound: labels in Vikunja at the start

ASSUME ReplyConstants ==
  /\ Titles \subseteq Nat
  /\ InChannel \in BOOLEAN
  /\ PageSize \in Nat \ {0} /\ MaxLabels \in Nat

VARIABLES
  card,      \* what task_messages and hooks say of the card
  label,     \* Vikunja's labels, by id
  task,      \* the task: its labels, its assignees, how many comments
  acted,     \* who changed the task, and under which account
  reply      \* what each handler of a reply remembers

vikVars == <<label, task, acted>>
vars == <<tokenVars, card, vikVars, reply>>

-----------------------------------------------------------------------------
(* A word of a reply: a label in some spelling, a user, or plain text.     *)
LabelWord == [kind : {"label"}, title : Titles, case : Cases]
UserWord == [kind : {"user"}, name : Accounts \cup Strangers]
PlainWord == [kind : {"plain"}]
Word == LabelWord \cup UserWord \cup PlainWord

ASSUME ReplyTexts == Texts \subseteq Seq(Word)

Label == [title : Titles, case : Cases]
Task == [labels : SUBSET (Nat \ {0}), users : SUBSET Accounts, comments : Nat]

(* live: the hook is active and the task neither deleted nor filtered out; *)
(* open: the permission window has not ended (neither changes in a run:    *)
(* a handler looks at them once, and what is done after that stays done);  *)
(* granted: allowed_telegram_user_ids.                                     *)
Card == [live : BOOLEAN, open : BOOLEAN, granted : SUBSET Actors]

(* What a reply can hang on: the card, or Telegram's own forward of a      *)
(* channel post in the linked discussion.  A reply to any other message is *)
(* like one to a card that is not live.                                    *)
Spots == {"card", "thread"}

(* One thing done to the task, as it is reported.                          *)
Deed == [what : {"label"}, id : Nat \ {0}, added : BOOLEAN]
        \cup [what : {"user"}, id : Accounts, added : BOOLEAN]
        \cup [what : {"comment"}]

(* spot, text: the message; todo: the words still to be acted on, by their *)
(* place; known: the task's labels by title as the handler believes;       *)
(* users: its assignees likewise; target: the label or user at hand;       *)
(* done: what it will report; before: the task as it was when the reply    *)
(* came in, unless another handler has run beside it.                      *)
Reply == [spot : Spots, text : Seq(Word), todo : SUBSET (Nat \ {0}),
          known : [Titles -> Nat], users : SUBSET Accounts,
          target : SUBSET (Nat \cup Accounts), done : Seq(Deed), before : SUBSET Task]

NoReply == [spot |-> "card", text |-> << >>, todo |-> {},
            known |-> [t \in Titles |-> 0], users |-> {}, target |-> {},
            done |-> << >>, before |-> {}]

ReplyPlaces == {"card", "thread", "labels", "search", "create", "label",
                "assignees", "finduser", "user", "comment", "done", "failed"}

TypeOK ==
  /\ binding \in [Actors -> SUBSET Row]
  /\ owner \in [Tokens -> Accounts \cup {Nobody}]
  /\ proven \in [Actors -> SUBSET Accounts]
  /\ pc \in [Sessions -> TokenPlaces \cup ReplyPlaces]
  /\ client \in [Sessions -> Client]
  /\ faults \in 0 .. MaxFaults
  /\ overlaps \in 0 .. MaxOverlaps /\ commands \in 0 .. MaxCommands
  /\ card \in Card
  /\ label \in Seq(Label)
  /\ task \in Task /\ task.labels \subseteq DOMAIN label
  /\ acted \subseteq Actors \X Accounts
  /\ reply \in [Sessions -> Reply]

-----------------------------------------------------------------------------
(* Reading a reply: parse_task_actions, and the order of the calls.        *)
Positions(text, kind) == {n \in DOMAIN text : text[n].kind = kind}

EveryWord(text) == Positions(text, "label") \cup Positions(text, "user")  \* mutant: no dict.fromkeys

(* dict.fromkeys: the first of equal words stands for all. *)
FirstWords(text) ==
  {n \in Positions(text, "label") \cup Positions(text, "user") :
     \A m \in 1 .. n - 1 : text[m] # text[n]}

HasComment(text) == Positions(text, "plain") # {}
Least(S) == CHOOSE n \in S : \A m \in S : n <= m

Pending(s, kind) == reply[s].todo \cap Positions(reply[s].text, kind)
Current(s, kind) == reply[s].text[Least(Pending(s, kind))]

(* Where the handler goes next: labels come first, then assignees, whose   *)
(* state is read when the first of them is due, then the comment.          *)
FirstCall(text) ==
  IF Positions(text, "label") # {} THEN "labels"
  ELSE IF Positions(text, "user") # {} THEN "assignees"
  ELSE "comment"

Following(text, todo, kind) ==
  IF todo \cap Positions(text, kind) # {} THEN (IF kind = "label" THEN "search" ELSE "finduser")
  ELSE IF kind = "label" /\ Positions(text, "user") # {} THEN "assignees"
  ELSE IF HasComment(text) THEN "comment"
  ELSE "done"

-----------------------------------------------------------------------------
(* The card. *)
Remember(s, memory) == reply' = [reply EXCEPT ![s] = memory]

(* Every other reply under way has company from now on. *)
Joined(s, memory) ==
  reply' = [r \in Sessions |-> IF r = s THEN memory ELSE [reply[r] EXCEPT !.before = {}]]

StartReply(s, a, spot, text) ==
  /\ Arrives(s)
  /\ Begin(s, "card", ClientOf(a, {}, {}))
  /\ Joined(s, [NoReply EXCEPT !.spot = spot, !.text = text,
                               !.before = IF Quiet THEN {task} ELSE {}])
  /\ UNCHANGED <<binding, owner, proven, card, vikVars>>

Dismiss(s) == Leave(s) /\ Remember(s, NoReply)

(* authorize, with the grants of the card: one for each granted actor, all *)
(* ending with the window.  Then the text must name something to do.       *)
Allowed(s) == client[s].actor \in card.granted /\ card.open

Admit(s) ==
  IF Allowed(s) /\ reply[s].text # << >>
  THEN /\ Go(s, "binding")
       /\ Remember(s, [reply[s] EXCEPT !.spot = "card", !.todo = FirstWords(reply[s].text)])
  ELSE Dismiss(s)

(* find_task_message_in_delivery_destination *)
FindCard(s) ==
  /\ At(s, "card")
  /\ IF card.live /\ reply[s].spot = "card"
     THEN Admit(s)
     ELSE IF reply[s].spot = "thread" THEN Go(s, "thread") /\ UNCHANGED reply ELSE Dismiss(s)
  /\ UNCHANGED <<binding, owner, proven, tokenBudgets, card, vikVars>>

(* find_task_message_from_delivery_discussion *)
FindCardOfThread(s) ==
  /\ At(s, "thread")
  /\ IF card.live /\ InChannel THEN Admit(s) ELSE Dismiss(s)
  /\ UNCHANGED <<binding, owner, proven, tokenBudgets, card, vikVars>>

-----------------------------------------------------------------------------
(* The calls.  A client whose token was revoked meanwhile gets nothing     *)
(* done; a call that fails may have had its effect.                        *)
Accepted(s) == Identity(s) # {}

Signed(s) == acted' = acted \cup ({client[s].actor} \X Identity(s))

(* The handler goes on, or is through. *)
Then(s, place, memory) == Go(s, place) /\ Remember(s, memory)

taskFrame == <<binding, owner, proven, card>>

(* The title the handler attaches to a label is case-folded; of labels     *)
(* that share one, the last read is the one it knows.                      *)
Largest(S) == CHOOSE n \in S : \A m \in S : m <= n
Known(ids) ==
  [t \in Titles |->
     LET same == {i \in ids : label[i].title = t}
     IN  IF same = {} THEN 0 ELSE Largest(same)]

ReadLabels(s) ==
  /\ At(s, "labels") /\ Accepted(s)
  /\ Then(s, "search", [reply[s] EXCEPT !.known = Known(task.labels)])
  /\ UNCHANGED <<taskFrame, vikVars, tokenBudgets>>

(* What a search returns: the first labels that contain the title. *)
Hits(t) ==
  LET all == {i \in DOMAIN label : label[i].title >= t}
  IN  {i \in all : Cardinality({j \in all : j < i}) < PageSize}

SameSpelling(word) ==  \* mutant: titles are compared without casefold
  {i \in Hits(word.title) : label[i].title = word.title /\ label[i].case = word.case}

Matches(word) == {i \in Hits(word.title) : label[i].title = word.title}

SearchLabel(s) ==
  LET found == Matches(Current(s, "label"))
  IN  /\ At(s, "search") /\ Accepted(s)
      /\ IF found = {}
         THEN Go(s, "create") /\ UNCHANGED reply
         ELSE Then(s, "label", [reply[s] EXCEPT !.target = {Least(found)}])
      /\ UNCHANGED <<taskFrame, vikVars, tokenBudgets>>

Created(word) == Append(label, [title |-> word.title, case |-> word.case])

CreateLabel(s) ==
  /\ At(s, "create") /\ Accepted(s)
  /\ label' = Created(Current(s, "label"))
  /\ Then(s, "label", [reply[s] EXCEPT !.target = {Len(label')}])
  /\ UNCHANGED <<taskFrame, task, acted, tokenBudgets>>

(* The direction is decided by what the handler read, not by what is.      *)
Attached(s) == \E t \in Titles : reply[s].known[t] \in reply[s].target
Assigned(s) == reply[s].target \subseteq reply[s].users

Toggled(set, ids, off) == IF off THEN set \ ids ELSE set \cup ids

TaskWithLabel(s) == [task EXCEPT !.labels = Toggled(@, reply[s].target, Attached(s))]
TaskWithUser(s) == [task EXCEPT !.users = Toggled(@, reply[s].target, Assigned(s))]
TaskWithComment == [task EXCEPT !.comments = @ + 1]

(* Afterwards the handler knows the label it added under the title of the  *)
(* word, and none under that of the one it removed.                        *)
KnownThen(s) ==
  LET old == reply[s].known
      word == Current(s, "label")
  IN  IF Attached(s)
      THEN [t \in Titles |-> IF old[t] \in reply[s].target THEN 0 ELSE old[t]]
      ELSE [old EXCEPT ![word.title] = CHOOSE id \in reply[s].target : TRUE]

Reported(s, what, off) ==
  Append(reply[s].done, [what |-> what, id |-> CHOOSE id \in reply[s].target : TRUE,
                         added |-> ~off])

Left(s, kind) == reply[s].todo \ {Least(Pending(s, kind))}

ToggleLabel(s) ==
  /\ At(s, "label") /\ Accepted(s)
  /\ task' = TaskWithLabel(s)
  /\ Signed(s)
  /\ Then(s, Following(reply[s].text, Left(s, "label"), "label"),
          [reply[s] EXCEPT !.known = KnownThen(s), !.todo = Left(s, "label"), !.target = {},
                           !.done = Reported(s, "label", Attached(s))])
  /\ UNCHANGED <<taskFrame, label, tokenBudgets>>

ReadAssignees(s) ==
  /\ At(s, "assignees") /\ Accepted(s)
  /\ Then(s, "finduser", [reply[s] EXCEPT !.users = task.users])
  /\ UNCHANGED <<taskFrame, vikVars, tokenBudgets>>

FindAnyone(s) ==  \* mutant: the name is used without a match
  /\ At(s, "finduser") /\ Accepted(s)
  /\ Then(s, "user", [reply[s] EXCEPT !.target = {Current(s, "user").name}])
  /\ UNCHANGED <<taskFrame, vikVars, tokenBudgets>>

(* A user nobody has heard of is an error, and ends the reply. *)
FindUser(s) ==
  LET name == Current(s, "user").name
  IN  /\ At(s, "finduser") /\ Accepted(s)
      /\ IF name \in Accounts
         THEN Then(s, "user", [reply[s] EXCEPT !.target = {name}])
         ELSE Go(s, "failed") /\ UNCHANGED reply
      /\ UNCHANGED <<taskFrame, vikVars, tokenBudgets>>

ToggleUser(s) ==
  /\ At(s, "user") /\ Accepted(s)
  /\ task' = TaskWithUser(s)
  /\ Signed(s)
  /\ Then(s, Following(reply[s].text, Left(s, "user"), "user"),
          [reply[s] EXCEPT !.users = Toggled(@, reply[s].target, Assigned(s)),
                           !.todo = Left(s, "user"), !.target = {},
                           !.done = Reported(s, "user", Assigned(s))])
  /\ UNCHANGED <<taskFrame, label, tokenBudgets>>

AddComment(s) ==
  /\ At(s, "comment") /\ Accepted(s)
  /\ task' = TaskWithComment
  /\ Signed(s)
  /\ Then(s, "done", [reply[s] EXCEPT !.done = Append(@, [what |-> "comment"])])
  /\ UNCHANGED <<taskFrame, label, tokenBudgets>>

CallPlaces == ReplyPlaces \ {"card", "thread", "done", "failed"}

(* Vikunja refuses: the token, or what is there already or not there.      *)
Refused(s) ==
  /\ pc[s] \in CallPlaces
  /\ \/ ~Accepted(s)
     \/ At(s, "label") /\ TaskWithLabel(s) = task
     \/ At(s, "user") /\ TaskWithUser(s) = task
  /\ Go(s, "failed")
  /\ UNCHANGED <<taskFrame, vikVars, reply, tokenBudgets>>

CarriedOut(s) ==
  \/ At(s, "create") /\ label' = Created(Current(s, "label")) /\ UNCHANGED <<task, acted>>
  \/ At(s, "label") /\ task' = TaskWithLabel(s) /\ Signed(s) /\ UNCHANGED label
  \/ At(s, "user") /\ task' = TaskWithUser(s) /\ Signed(s) /\ UNCHANGED label
  \/ At(s, "comment") /\ task' = TaskWithComment /\ Signed(s) /\ UNCHANGED label

FailsWithCredit(s) ==  \* mutant: a label is reported before the call returns
  /\ pc[s] \in CallPlaces
  /\ Fault
  /\ \/ UNCHANGED vikVars
     \/ Accepted(s) /\ CarriedOut(s)
  /\ Go(s, "failed")
  /\ Remember(s, IF At(s, "label")
                 THEN [reply[s] EXCEPT !.done = Reported(s, "label", Attached(s))]
                 ELSE reply[s])
  /\ UNCHANGED taskFrame

(* The call raises.  What was completed before is reported as such. *)
CallFails(s) ==
  /\ pc[s] \in CallPlaces
  /\ Fault
  /\ \/ UNCHANGED vikVars
     \/ Accepted(s) /\ CarriedOut(s)
  /\ Go(s, "failed")
  /\ UNCHANGED <<taskFrame, reply>>

(* The lookup of the card raises; the reply goes without an answer.        *)
LookupFails(s) ==
  /\ pc[s] \in {"card", "thread"}
  /\ Fault
  /\ Dismiss(s)
  /\ UNCHANGED <<taskFrame, vikVars>>

(* The actor is told, and the handler is gone. *)
Tell(s) ==
  /\ pc[s] \in {"done", "failed"}
  /\ Dismiss(s)
  /\ UNCHANGED <<taskFrame, vikVars, tokenBudgets>>

-----------------------------------------------------------------------------
(* The commands that are not replies give every reply under way company.   *)
Command(s) ==
  /\ TokenStep(s)
  /\ UNCHANGED <<card, vikVars>>
  /\ IF pc'[s] = "idle" THEN Remember(s, NoReply)
     ELSE IF At(s, "idle") THEN Joined(s, NoReply)
     ELSE UNCHANGED reply

CheckToken(s) ==
  /\ Whoami(s, FirstCall(reply[s].text))
  /\ IF pc'[s] = "idle" THEN Remember(s, NoReply) ELSE UNCHANGED reply
  /\ UNCHANGED <<card, vikVars>>

TokenChanges ==
  /\ \E t \in Tokens : Revoke(t) \/ Rehome(t)
  /\ UNCHANGED <<card, vikVars, reply>>

Act(s) ==
  \/ \E a \in Actors, spot \in Spots, text \in Texts : StartReply(s, a, spot, text)
  \/ FindCard(s) \/ FindCardOfThread(s) \/ LookupFails(s)
  \/ ReadLabels(s) \/ SearchLabel(s) \/ CreateLabel(s) \/ ToggleLabel(s)
  \/ ReadAssignees(s) \/ FindUser(s) \/ ToggleUser(s) \/ AddComment(s)
  \/ Refused(s) \/ CallFails(s) \/ Tell(s)

Init ==
  /\ TokenInit
  /\ card \in [live : BOOLEAN, open : BOOLEAN, granted : {{a} : a \in Actors}]
  /\ label \in UNION {[1 .. n -> Label] : n \in 0 .. MaxLabels}
  /\ \A i, j \in DOMAIN label : label[i].title = label[j].title => i = j
  /\ task \in [labels : SUBSET DOMAIN label, users : {{}}, comments : {0}]
  /\ acted = {}
  /\ reply = [s \in Sessions |-> NoReply]

Next ==
  \/ \E s \in Sessions : Command(s) \/ CheckToken(s) \/ Act(s)
  \/ TokenChanges

Spec == Init /\ [][Next]_vars

-----------------------------------------------------------------------------
(* The task is changed only for an actor the card grants it to, and under  *)
(* an account that actor has supplied a token of: not under another whose  *)
(* token the bound one has become, and not under one bound meanwhile by    *)
(* somebody else (tokens.py:97-107, README.md:264-268).                    *)
ActsAsOwnAccount ==
  \A deed \in acted : deed[1] \in card.granted /\ deed[2] \in proven[deed[1]]

(* A reply names a label unambiguously if it uses one spelling of it and   *)
(* Vikunja has one label of that title.                                    *)
Spellings(text, t) == {text[n] : n \in {m \in Positions(text, "label") : text[m].title = t}}
LabelsOf(t) == {i \in DOMAIN label : label[i].title = t}

(* A reply that had no company and is through has toggled each label and   *)
(* each user it names exactly once, and no other (task_actions.py:42-73,   *)
(* README.md:279-280).  Two spellings of a label toggle it twice, and of   *)
(* two labels with one title the handler may pick either.                  *)
LoneReplyToggles ==
  \A s \in Sessions : \A before \in reply[s].before : At(s, "done") =>
    LET text == reply[s].text
    IN  /\ \A t \in Titles :
             Cardinality(Spellings(text, t)) <= 1 /\ Cardinality(LabelsOf(t)) = 1 =>
               \A i \in LabelsOf(t) :
                 ((i \in task.labels) # (i \in before.labels)) <=> Spellings(text, t) # {}
        /\ \A u \in Accounts :
             ((u \in task.users) # (u \in before.users))
               <=> \E n \in Positions(text, "user") : text[n].name = u

(* What the task would be like if what is reported were all that happened. *)
LastWord(s, what, id) ==
  {reply[s].done[n] : n \in {m \in DOMAIN reply[s].done :
     /\ reply[s].done[m].what = what /\ reply[s].done[m].id = id
     /\ \A k \in m + 1 .. Len(reply[s].done) :
          ~(reply[s].done[k].what = what /\ reply[s].done[k].id = id)}}

Expected(s, what, id, before) ==
  IF LastWord(s, what, id) = {} THEN id \in before
  ELSE \E deed \in LastWord(s, what, id) : deed.added

Commented(s) == IF \E n \in DOMAIN reply[s].done : reply[s].done[n].what = "comment"
                THEN 1 ELSE 0

Unreported(s, before) ==
  {<<"label", i>> : i \in {i \in DOMAIN label :
     (i \in task.labels) # Expected(s, "label", i, before.labels)}}
  \cup {<<"user", u>> : u \in {u \in Accounts :
     (u \in task.users) # Expected(s, "user", u, before.users)}}
  \cup {<<"comment", n>> : n \in {n \in {task.comments} :
     n # before.comments + Commented(s)}}

(* What a reply without company reports is what became of the task.  After *)
(* a failure one more thing may have been done, which is then not reported *)
(* at all, unless the reply named a label in two spellings                 *)
(* (task_actions.py:77-80, bot.py:513-518).                                *)
ReportIsHonest ==
  \A s \in Sessions : \A before \in reply[s].before :
    /\ At(s, "done") => Unreported(s, before) = {}
    /\ At(s, "failed") =>
         /\ Cardinality(Unreported(s, before)) <= 1
         /\ (\A t \in Titles : Cardinality(Spellings(reply[s].text, t)) <= 1) =>
              \A thing \in Unreported(s, before) : LastWord(s, thing[1], thing[2]) = {}

(* A label is not created while there is one of its title, unless replies  *)
(* overlap or the search finds more labels than it returns                 *)
(* (task_actions.py:84-98, vikunja.py:82-84).                              *)
LabelsStayUnique ==
  Sequential =>
    \A t \in Titles :
      Cardinality({i \in DOMAIN label : label[i].title >= t}) <= PageSize
        => Cardinality(LabelsOf(t)) <= 1
=============================================================================
