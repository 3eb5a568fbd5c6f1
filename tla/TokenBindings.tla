--------------------------- MODULE TokenBindings ---------------------------
(***************************************************************************)
(* Which Vikunja account a Telegram user acts as: /login and /logout       *)
(* (bot.py, tokens.py), the token_bindings table (database.py), and the    *)
(* check that every interaction makes before it uses a stored token.       *)
(*                                                                         *)
(* An interaction reads the binding, asks Vikunja once who the token       *)
(* belongs to, and goes on with that client: the binding may be replaced   *)
(* or removed, and the token revoked, while it does.  Encryption is left   *)
(* out; a token that can no longer be decrypted is like no binding.        *)
(***************************************************************************)
EXTENDS Naturals, Sequences, FiniteSets

CONSTANTS
  Actors,      \* Telegram users
  Accounts,    \* Vikunja users
  Tokens,      \* API tokens
  Nobody,      \* no actor; the owner of a revoked token
  Sessions,    \* handlers that can run at once
  MaxFaults,   \* bound: calls that fail, tokens revoked or passed to another
  MaxOverlaps, \* bound: handlers that begin while another one runs
  MaxCommands  \* bound: commands and replies

ASSUME TokenConstants ==
  /\ Nobody \notin Accounts \cup Actors
  /\ MaxFaults \in Nat /\ MaxOverlaps \in Nat /\ MaxCommands \in Nat

VARIABLES
  binding,   \* the token_bindings table: at most one row for each actor
  owner,     \* whose token it is in Vikunja's eyes
  proven,    \* the accounts each actor has ever supplied a token of
  pc,        \* the await each handler is at
  client,    \* the actor it serves, the token it uses and the account
             \* it takes it for
  faults, overlaps, commands   \* budgets left

tokenBudgets == <<faults, overlaps, commands>>
tokenVars == <<binding, owner, proven, pc, client, tokenBudgets>>

-----------------------------------------------------------------------------
(* A row of the table, or none. *)
Row == [token : Tokens, account : Accounts]
Rows == {bound \in SUBSET Row : Cardinality(bound) <= 1}

TokenPlaces == {"idle", "identify", "bind", "unbind", "binding", "whoami"}

Client == [actor : Actors \cup {Nobody}, token : SUBSET Tokens, account : SUBSET Accounts]
ClientOf(a, token, account) == [actor |-> a, token |-> token, account |-> account]

At(s, place) == pc[s] = place
Begin(s, place, memory) == /\ pc' = [pc EXCEPT ![s] = place]
                           /\ client' = [client EXCEPT ![s] = memory]
Go(s, place) == pc' = [pc EXCEPT ![s] = place] /\ UNCHANGED client
NoClient == ClientOf(Nobody, {}, {})
Leave(s) == Begin(s, "idle", NoClient)

Quiet == \A s \in Sessions : At(s, "idle")
Alone(s) == \A r \in Sessions \ {s} : At(r, "idle")

(* Another update is taken up; the handlers that run are not waited for.   *)
Arrives(s) == /\ At(s, "idle")
              /\ commands > 0 /\ commands' = commands - 1
              /\ \/ Quiet /\ UNCHANGED overlaps
                 \/ ~Quiet /\ overlaps > 0 /\ overlaps' = overlaps - 1
              /\ UNCHANGED faults

Sequential == overlaps = MaxOverlaps

Fault == /\ faults > 0 /\ faults' = faults - 1
         /\ UNCHANGED <<overlaps, commands>>

(* The owner of the token a client sends, if Vikunja accepts it. *)
Identity(s) == {owner[t] : t \in client[s].token} \ {Nobody}

-----------------------------------------------------------------------------
(* /login: the token is tried once, and kept with the account it is of.    *)
Login(s, a, t) ==
  /\ Arrives(s)
  /\ Begin(s, "identify", ClientOf(a, {t}, {}))
  /\ UNCHANGED <<binding, owner, proven>>

Identify(s) ==
  /\ At(s, "identify")
  /\ IF Identity(s) = {}
     THEN Leave(s)
     ELSE Begin(s, "bind", [client[s] EXCEPT !.account = Identity(s)])
  /\ UNCHANGED <<binding, owner, proven, tokenBudgets>>

(* Inserts the row or replaces it. *)
Stored(s) ==
  LET a == client[s].actor
  IN  /\ binding' = [binding EXCEPT ![a] =
           {row \in Row : row.token \in client[s].token /\ row.account \in client[s].account}]
      /\ proven' = [proven EXCEPT ![a] = @ \cup client[s].account]

Bind(s) ==
  /\ At(s, "bind")
  /\ Stored(s)
  /\ Leave(s)
  /\ UNCHANGED <<owner, tokenBudgets>>

Logout(s, a) ==
  /\ Arrives(s)
  /\ Begin(s, "unbind", ClientOf(a, {}, {}))
  /\ UNCHANGED <<binding, owner, proven>>

Removed(s) == binding' = [binding EXCEPT ![client[s].actor] = {}] /\ UNCHANGED proven

Unbind(s) ==
  /\ At(s, "unbind")
  /\ Removed(s)
  /\ Leave(s)
  /\ UNCHANGED <<owner, tokenBudgets>>

-----------------------------------------------------------------------------
(* client_for_telegram_action: no binding, a token Vikunja refuses and one *)
(* that belongs to somebody else all end the interaction.                  *)
ReadBinding(s) ==
  LET bound == binding[client[s].actor]
  IN  /\ At(s, "binding")
      /\ IF bound = {}
         THEN Leave(s)
         ELSE Begin(s, "whoami", ClientOf(client[s].actor, {row.token : row \in bound},
                                          {row.account : row \in bound}))
      /\ UNCHANGED <<binding, owner, proven, tokenBudgets>>

SomeIdentity(s) == Identity(s) # {}  \* mutant: whoever answers will do

SameIdentity(s) == Identity(s) # {} /\ Identity(s) = client[s].account

Whoami(s, next) ==
  /\ At(s, "whoami")
  /\ IF SameIdentity(s) THEN Go(s, next) ELSE Leave(s)
  /\ UNCHANGED <<binding, owner, proven, tokenBudgets>>

(* A call fails, before or after its effect, or the process dies. *)
TokenCallFails(s) ==
  /\ pc[s] \in TokenPlaces \ {"idle"}
  /\ Fault
  /\ \/ UNCHANGED <<binding, proven>>
     \/ At(s, "bind") /\ Stored(s)
     \/ At(s, "unbind") /\ Removed(s)
  /\ Leave(s)
  /\ UNCHANGED owner

-----------------------------------------------------------------------------
(* Vikunja.  A token is revoked or expires at any time.  It comes to be    *)
(* somebody else's only when Vikunja's users are restored or replaced,     *)
(* with nothing under way.                                                 *)
Changes(t, who) == /\ Fault
                   /\ owner' = [owner EXCEPT ![t] = who]
                   /\ UNCHANGED <<binding, proven, pc, client>>

Revoke(t) == Changes(t, Nobody)
Rehome(t) == \E who \in Accounts : Quiet /\ Changes(t, who)

TokenStep(s) ==
  \/ \E a \in Actors : Logout(s, a) \/ \E t \in Tokens : Login(s, a, t)
  \/ Identify(s) \/ Bind(s) \/ Unbind(s) \/ ReadBinding(s) \/ TokenCallFails(s)

TokenInit ==
  /\ owner \in [Tokens -> Accounts]
  /\ binding \in [Actors -> {bound \in Rows : \A row \in bound : row.account = owner[row.token]}]
  /\ proven = [a \in Actors |-> {row.account : row \in binding[a]}]
  /\ pc = [s \in Sessions |-> "idle"]
  /\ client = [s \in Sessions |-> NoClient]
  /\ faults = MaxFaults
  /\ overlaps = MaxOverlaps /\ commands = MaxCommands
=============================================================================
