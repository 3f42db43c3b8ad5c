----------------------------- MODULE Callbacks -----------------------------
(***************************************************************************)
(* Callback cards, and what a call's record says became of the call.       *)
(*                                                                         *)
(* Four writers meet on one call: the agent notes a callback or hands the  *)
(* call to the team, the phone line writes the log when the leg ends, the  *)
(* telephone system reports that nobody answered the team leg, and the     *)
(* team taps cards done or open again.  A new card is written under an     *)
(* advisory lock of its call (`turn`); everything about the call's own row *)
(* under FOR UPDATE (`row`), which an INSERT that refers to the row (its   *)
(* foreign key, `key`) shuts out and waits for.                            *)
(***************************************************************************)
EXTENDS Naturals, FiniteSets

CONSTANTS
    Calls,       \* the calls of the line
    Txns,        \* requests under way at once, each a transaction
    Nobody,      \* no transaction
    MaxCards,    \* bound: callback cards
    MaxReopens   \* bound: cards brought back from the history

ASSUME CardsAreNat == MaxCards \in Nat /\ MaxReopens \in Nat
ASSUME NobodyIsNoTxn == Nobody \notin Txns

VARIABLES
    outcome,    \* call -> calls.outcome
    ended,      \* call -> its log is written (calls.ended_at)
    reason,     \* call -> it was handed to the team (calls.transfer_reason)
    handovers,  \* call -> audit entries call.transferred
    missed,     \* call -> a missed team leg was answered with "noted"
    card,       \* 1..MaxCards -> callback card, or NoCard
    reopens,    \* cards reopened so far
    row,        \* call -> transaction that holds its row FOR UPDATE
    key,        \* call -> transactions that hold its row FOR KEY SHARE
    turn,       \* call -> transaction that holds its advisory lock
    tx          \* transaction -> what it does

callVars == <<outcome, ended, reason, handovers, missed>>
lockVars == <<row, key, turn>>
vars == <<callVars, card, reopens, lockVars, tx>>

Cards    == 1..MaxCards
NoCard   == [status |-> "none"]
Card     == [call : Calls, status : {"open", "done"}]
\* "completed" stands for the outcomes nothing here asks for.
Outcomes == {"completed", "callback", "error"}

\* create_callback: take the turn, look for an open card, insert, commit; a missed
\* leg holds the call's row meanwhile.  transfer_to_team: write and commit.
Kinds == {"create", "missed", "transfer"}
Steps == {"turn", "look", "insert", "commit", "write"}
Idle  == [kind |-> "idle"]
Request == [kind : Kinds, call : Calls, at : Steps]

Init ==
    /\ outcome   = [c \in Calls |-> "none"]
    /\ ended     = [c \in Calls |-> FALSE]
    /\ reason    = [c \in Calls |-> FALSE]
    /\ handovers = [c \in Calls |-> 0]
    /\ missed    = [c \in Calls |-> FALSE]
    /\ card      = [k \in Cards |-> NoCard]
    /\ reopens   = 0
    /\ row       = [c \in Calls |-> Nobody]
    /\ key       = [c \in Calls |-> {}]
    /\ turn      = [c \in Calls |-> Nobody]
    /\ tx        = [t \in Txns |-> Idle]

----------------------------------------------------------------------------
CardsOf(c)   == {k \in Cards : card[k] # NoCard /\ card[k].call = c}
OpenCards(c) == {k \in CardsOf(c) : card[k].status = "open"}

At(t, kinds, step) == tx[t].kind \in kinds /\ tx[t].at = step
Goto(t, step)      == tx' = [tx EXCEPT ![t].at = step]

RowIsFree(c) == row[c] = Nobody /\ key[c] = {}

\* The end of t's transaction: its locks are free.
Release(t) ==
    /\ tx'   = [tx EXCEPT ![t] = Idle]
    /\ row'  = [c \in Calls |-> IF row[c] = t THEN Nobody ELSE row[c]]
    /\ turn' = [c \in Calls |-> IF turn[c] = t THEN Nobody ELSE turn[c]]
    /\ key'  = [c \in Calls |-> key[c] \ {t}]

\* Bound: each request that may write a card has room for it.
RoomForCard ==
    Cardinality({k \in Cards : card[k] # NoCard})
        + Cardinality({t \in Txns : tx[t] # Idle}) < MaxCards

\* The agent notes a callback.
CreateBegin(t, c) ==
    /\ tx[t] = Idle /\ RoomForCard
    /\ tx' = [tx EXCEPT ![t] = [kind |-> "create", call |-> c, at |-> "turn"]]
    /\ UNCHANGED <<callVars, card, reopens, lockVars>>

\* Nobody answered the team leg: the call's row, and a number to call back - one
\* the line or the call knows (hasNumber), or that of an open card.
MissedBegin(t, c, hasNumber) ==
    /\ tx[t] = Idle /\ RoomForCard
    /\ RowIsFree(c)
    /\ hasNumber \/ OpenCards(c) # {}
    /\ row' = [row EXCEPT ![c] = t]
    /\ tx' = [tx EXCEPT ![t] = [kind |-> "missed", call |-> c, at |-> "turn"]]
    /\ UNCHANGED <<callVars, card, reopens, key, turn>>

\* Mutant of TakeTurn: the call's row is there, no lock of its own is taken.
TakeNoTurn(t) ==
    /\ At(t, {"create", "missed"}, "turn")
    /\ Goto(t, "look")
    /\ UNCHANGED <<callVars, card, reopens, lockVars>>

\* _lock_call.
TakeTurn(t) ==
    /\ At(t, {"create", "missed"}, "turn")
    /\ turn[tx[t].call] = Nobody
    /\ turn' = [turn EXCEPT ![tx[t].call] = t]
    /\ Goto(t, "look")
    /\ UNCHANGED <<callVars, card, reopens, row, key>>

\* What a missed leg makes of the outcome: an error stays.
MissedOutcome(oc) == IF oc = "error" THEN oc ELSE "callback"

\* What the commit of a card, new or found, says of its call.
Noted(t, c) ==
    IF tx[t].kind = "missed"
    THEN /\ outcome' = [outcome EXCEPT ![c] = MissedOutcome(@)]
         /\ missed' = [missed EXCEPT ![c] = TRUE]
    ELSE UNCHANGED <<outcome, missed>>

\* The call has an open card: it is the answer.
Found(t) ==
    /\ At(t, {"create", "missed"}, "look")
    /\ OpenCards(tx[t].call) # {}
    /\ Noted(t, tx[t].call)
    /\ Release(t)
    /\ UNCHANGED <<ended, reason, handovers, card, reopens>>

NotFound(t) ==
    /\ At(t, {"create", "missed"}, "look")
    /\ OpenCards(tx[t].call) = {}
    /\ Goto(t, "insert")
    /\ UNCHANGED <<callVars, card, reopens, lockVars>>

\* The new card refers to the call's row.
Insert(t) ==
    /\ At(t, {"create", "missed"}, "insert")
    /\ row[tx[t].call] \in {Nobody, t}
    /\ key' = [key EXCEPT ![tx[t].call] = @ \cup {t}]
    /\ Goto(t, "commit")
    /\ UNCHANGED <<callVars, card, reopens, row, turn>>

Commit(t) ==
    /\ At(t, {"create", "missed"}, "commit")
    /\ \E k \in Cards :
          /\ card[k] = NoCard
          /\ \A j \in 1..(k - 1) : card[j] # NoCard
          /\ card' = [card EXCEPT ![k] = [call |-> tx[t].call, status |-> "open"]]
    /\ Noted(t, tx[t].call)
    /\ Release(t)
    /\ UNCHANGED <<ended, reason, handovers, reopens>>

\* Mutant of TransferBegin: the call is read without FOR UPDATE.
TransferBeginUnlocked(t, c) ==
    /\ tx[t] = Idle
    /\ RowIsFree(c) /\ ~reason[c]
    /\ tx' = [tx EXCEPT ![t] = [kind |-> "transfer", call |-> c, at |-> "write"]]
    /\ UNCHANGED <<callVars, card, reopens, lockVars>>

\* The agent hands the call to a team that is there; a second time changes nothing.
TransferBegin(t, c) ==
    /\ tx[t] = Idle
    /\ RowIsFree(c) /\ ~reason[c]
    /\ row' = [row EXCEPT ![c] = t]
    /\ tx' = [tx EXCEPT ![t] = [kind |-> "transfer", call |-> c, at |-> "write"]]
    /\ UNCHANGED <<callVars, card, reopens, key, turn>>

TransferCommit(t) ==
    /\ At(t, {"transfer"}, "write")
    /\ reason' = [reason EXCEPT ![tx[t].call] = TRUE]
    /\ handovers' = [handovers EXCEPT ![tx[t].call] = @ + 1]
    /\ Release(t)
    /\ UNCHANGED <<outcome, ended, missed, card, reopens>>

\* Mutant of LoggedOutcome: the log has the last word.
LoggedOutcomeLast(old, new) == new

\* end_call: an error wins, else what was set before the log.
LoggedOutcome(old, new) == IF new = "error" \/ old = "none" THEN new ELSE old

\* The log of the leg, once.
EndCall(c, oc) ==
    /\ RowIsFree(c)
    /\ ~ended[c]
    /\ ended' = [ended EXCEPT ![c] = TRUE]
    /\ outcome' = [outcome EXCEPT ![c] = LoggedOutcome(@, oc)]
    /\ UNCHANGED <<reason, handovers, missed, card, reopens, lockVars, tx>>

MarkDone(k) ==
    /\ card[k] # NoCard /\ card[k].status = "open"
    /\ card' = [card EXCEPT ![k].status = "done"]
    /\ UNCHANGED <<callVars, reopens, lockVars, tx>>

\* "Verlauf": a card marked done by mistake comes back.  It takes the card's row,
\* not the call's turn.
Reopen(k) ==
    /\ card[k] # NoCard /\ card[k].status = "done"
    /\ reopens < MaxReopens
    /\ reopens' = reopens + 1
    /\ card' = [card EXCEPT ![k].status = "open"]
    /\ UNCHANGED <<callVars, lockVars, tx>>

\* t waits for a lock another transaction holds.
Waits(t) ==
    \/ At(t, {"create", "missed"}, "turn") /\ turn[tx[t].call] # Nobody
    \/ At(t, {"create", "missed"}, "insert") /\ row[tx[t].call] \notin {Nobody, t}

\* Mutant of GiveUp: statements of the line are not bounded.
NeverGiveUp(t) == Waits(t) /\ tx[t] = Idle /\ UNCHANGED vars

\* The statement fails after its timeout, or as the victim of a deadlock.
GiveUp(t) ==
    /\ Waits(t)
    /\ Release(t)
    /\ UNCHANGED <<callVars, card, reopens>>

----------------------------------------------------------------------------
Proceed(t) == \/ TakeTurn(t) \/ Found(t) \/ NotFound(t) \/ Insert(t) \/ Commit(t)
              \/ TransferCommit(t) \/ GiveUp(t)

Next ==
    \/ \E t \in Txns : Proceed(t)
    \/ \E t \in Txns, c \in Calls :
          \/ CreateBegin(t, c) \/ TransferBegin(t, c)
          \/ \E hasNumber \in BOOLEAN : MissedBegin(t, c, hasNumber)
    \/ \E c \in Calls, oc \in Outcomes : EndCall(c, oc)
    \/ \E k \in Cards : MarkDone(k) \/ Reopen(k)

Spec == Init /\ [][Next]_vars

\* A transaction goes on, and one that waits fails after its timeout.
FairSpec == Spec /\ \A t \in Txns : WF_vars(Proceed(t))

----------------------------------------------------------------------------
(* Properties.                                                             *)

TypeOK ==
    /\ outcome   \in [Calls -> Outcomes \cup {"none"}]
    /\ ended     \in [Calls -> BOOLEAN]
    /\ reason    \in [Calls -> BOOLEAN]
    /\ handovers \in [Calls -> Nat]
    /\ missed    \in [Calls -> BOOLEAN]
    /\ card      \in [Cards -> Card \cup {NoCard}]
    /\ reopens   \in 0..MaxReopens
    /\ row       \in [Calls -> Txns \cup {Nobody}]
    /\ key       \in [Calls -> SUBSET Txns]
    /\ turn      \in [Calls -> Txns \cup {Nobody}]
    /\ tx        \in [Txns -> Request \cup {Idle}]

\* "Ein Anruf, ein offener Rueckruf" (create_callback): the agent's retry, a missed
\* team leg and the team's taps never put two open cards of one call on the board,
\* as long as none is reopened.
OneOpenCard ==
    reopens = 0 => \A c \in Calls : \A j, k \in OpenCards(c) : j = k

\* The same, whatever is reopened (docs/04: at most one open callback per call).
OneOpenCardEver == \A c \in Calls : \A j, k \in OpenCards(c) : j = k

\* A caller who heard that the restaurant calls back has a card, and the call counts
\* as a callback whatever its log said before or after, unless it was an outage
\* (team_missed, end_call).
NotedHasCard ==
    \A c \in Calls : missed[c] =>
        /\ CardsOf(c) # {}
        /\ outcome[c] \in {"callback", "error"}

\* A call that failed is counted as an outage for good, in whichever order the log
\* and the missed leg come (end_call, team_missed).
ErrorStays == [][\A c \in Calls : outcome[c] = "error" => outcome'[c] = "error"]_vars

\* A call is handed over at most once, and audited once when it is
\* (transfer_to_team, two tool calls at once).
HandedOverOnce == \A c \in Calls : handovers[c] = IF reason[c] THEN 1 ELSE 0

\* A missed leg takes the call's row and then its turn, a new callback the turn and
\* then the row: they can wait for each other, but not for ever.
RequestsEnd == \A t \in Txns : tx[t] # Idle ~> tx[t] = Idle

----------------------------------------------------------------------------
(* Why it holds: what a held lock guarantees (CallbacksProofs).            *)

Writers == {"create", "missed"}

\* Who writes a card for a call holds its turn, and found no open one under it.
TurnHeldBy(t) ==
    /\ tx[t].kind \in Writers /\ tx[t].at # "turn" => turn[tx[t].call] = t
    /\ \A c \in Calls : /\ tx[t].call = c /\ tx[t].at \in {"insert", "commit"}
                        /\ reopens = 0
                        => OpenCards(c) = {}

TurnHeld == \A t \in Txns : tx[t] # Idle => TurnHeldBy(t)

\* A missed leg and a handover hold the call's row; a handover found it unset.
RowHeldBy(t) ==
    /\ tx[t].kind \in {"missed", "transfer"} => row[tx[t].call] = t
    /\ tx[t].kind = "transfer" <=> tx[t].at = "write"
    /\ tx[t].kind = "transfer" => ~reason[tx[t].call]

RowHeld == \A t \in Txns : tx[t] # Idle => RowHeldBy(t)

Inv == /\ TypeOK /\ TurnHeld /\ RowHeld
       /\ OneOpenCard /\ NotedHasCard /\ HandedOverOnce
=============================================================================
