-------------------------- MODULE ReservationBook --------------------------
(***************************************************************************)
(* What the reservations promise: bookings are made one after the other,   *)
(* each against the book as it stands.  The agent books only while the     *)
(* team takes reservations and only into free seats; the team may book     *)
(* past the seats, but no one gets a table that is taken or is gone.       *)
(***************************************************************************)
EXTENDS Naturals, FiniteSets

CONSTANTS AgentIds, TabletIds, Slots, Tables, MaxParty,
          MaxGuests,     \* seats of each capacity window
          WindowOf,      \* slot -> its capacity window
          NoWindow       \* WindowOf of a slot outside every window

Ids == AgentIds \cup TabletIds

VARIABLES
    booked,   \* id -> [slot, size, tables] of a booking, or NoBooking
    open,     \* does the team take reservations?
    plan,     \* the tables of the floor plan
    pairs     \* the pairs of tables that may be put together

bookVars == <<booked, open, plan, pairs>>

Booking   == [slot : Slots, size : 1..MaxParty, tables : SUBSET Tables]
NoBooking == [slot |-> "none"]

SameTurn(s, u) == s = u \/ (WindowOf[s] # NoWindow /\ WindowOf[s] = WindowOf[u])

Taken(s)  == {id \in Ids : booked[id] # NoBooking /\ SameTurn(booked[id].slot, s)}
Guests(s) == {g \in Taken(s) \X (1..MaxParty) : g[2] <= booked[g[1]].size}

Init == /\ booked = [id \in Ids |-> NoBooking]
        /\ open \in BOOLEAN
        /\ plan \in SUBSET Tables
        /\ pairs \in SUBSET {p \in SUBSET plan : Cardinality(p) = 2}

HasRoom(b) == /\ WindowOf[b.slot] # NoWindow
              /\ Cardinality(Guests(b.slot)) + b.size <= MaxGuests

Book(id) ==
    /\ booked[id] = NoBooking
    /\ booked'[id] \in Booking
    /\ booked' = [booked EXCEPT ![id] = booked'[id]]
    /\ UNCHANGED <<open, plan, pairs>>

BookByAgent(id) ==
    /\ Book(id)
    /\ LET b == booked'[id] IN open /\ b.tables = {} /\ HasRoom(b)

\* Whether the window has room or not: "Trotzdem eintragen" is the team's to say.
BookByTeam(id) ==
    /\ Book(id)
    /\ LET b == booked'[id] IN
          /\ b.tables \subseteq plan
          /\ Cardinality(b.tables) = 2 => b.tables \in pairs
          /\ \A other \in Taken(b.slot) : booked[other].tables \cap b.tables = {}

Switch == open' \in BOOLEAN /\ UNCHANGED <<booked, plan, pairs>>

Replan == /\ plan' \in SUBSET Tables
          /\ pairs' \in SUBSET {p \in SUBSET plan' : Cardinality(p) = 2}
          /\ UNCHANGED <<booked, open>>

Next == \/ \E id \in AgentIds  : BookByAgent(id)
        \/ \E id \in TabletIds : BookByTeam(id)
        \/ Switch \/ Replan

Spec == Init /\ [][Next]_bookVars
=============================================================================
