---------------------------- MODULE Reservations ----------------------------
(***************************************************************************)
(* How a table is booked: the agent on a call (create_reservation, then    *)
(* confirm at the guest's yes) and the team on the tablet                  *)
(* (create_tablet_reservation, then confirm_tablet), while the floor plan  *)
(* is edited, calls end and the team switches reservations off.            *)
(*                                                                         *)
(* Each request is one READ COMMITTED transaction on a thread of the       *)
(* server.  Its locks are the reservation's row, the advisory locks of the *)
(* two days whose windows a time can fall into, a shared lock on           *)
(* service_config (the agent's yes) and on the tables (the team's tap).    *)
(* A transaction takes one lock per step, checks in one and writes in      *)
(* another; what it wrote is seen from its commit on.                      *)
(*                                                                         *)
(* There is no clock.  Times that pass, opening hours, lead times and the  *)
(* notice refuse a request at any moment (GiveUp); a draft outlives        *)
(* max_call_seconds at any moment (Outlived).                              *)
(***************************************************************************)
EXTENDS Naturals, FiniteSets

CONSTANTS
    AgentIds,     \* reservations made on calls, by idempotency key
    TabletIds,    \* reservations the team enters
    Calls, NoCall,
    Tables,
    Seatings,     \* what a sheet on the tablet may name: no table, one, two
    Slots,        \* the times guests ask for
    DayOf,        \* slot -> calendar day
    WindowOf,     \* slot -> capacity window, or NoWindow
    NoWindow,
    MaxGuests,    \* capacity.max_guests of each window
    MaxParty,     \* bound: the largest party
    Txns, Nobody  \* threads of the server, and no thread

Ids == AgentIds \cup TabletIds

SameTurn(s, u) == s = u \/ (WindowOf[s] # NoWindow /\ WindowOf[s] = WindowOf[u])

\* Mutant of LockDays: only the day of the wish.
LockDayOfWish(s) == {DayOf[s]}

\* lock_capacity_days: the day before and the day, what check_slot reads.
LockDays(s) == {DayOf[s] - 1, DayOf[s]}

Days == UNION {LockDays(s) : s \in Slots}

\* A window begins on one day and ends by the same hour of the next, so two times
\* of one turn lie at most one day apart.
ASSUME SlotsAndWindows ==
    /\ DayOf \in [Slots -> Nat \ {0}]
    /\ \A s \in Slots : WindowOf[s] \in STRING \cup {NoWindow}
    /\ \A s, u \in Slots : SameTurn(s, u) => DayOf[u] \in {DayOf[s] - 1, DayOf[s], DayOf[s] + 1}

ASSUME SizesAreNat == MaxGuests \in Nat /\ MaxParty \in Nat

ASSUME IdsAndNames ==
    /\ AgentIds \cap TabletIds = {}
    /\ NoCall \notin Calls
    /\ Nobody \notin Txns
    /\ Seatings \subseteq SUBSET Tables
    /\ IsFiniteSet(AgentIds) /\ IsFiniteSet(TabletIds)

VARIABLES
    rsv,       \* id -> row of `reservations`, or NoRow
    ended,     \* calls with ended_at set
    outlived,  \* drafts older than max_call_seconds
    enabled,   \* service_config.reservations_enabled
    plan,      \* tables of the floor plan that are not removed
    pairs,     \* table_combinations
    events,    \* id -> reservation.confirmed rows in the outbox
    tx,        \* thread -> its transaction, or Idle
    rowLock,   \* id -> the thread that holds the row
    dayLock    \* day -> the thread that holds its advisory lock

tableVars == <<rsv, events>>
lockVars  == <<rowLock, dayLock>>
callVars  == <<ended, outlived>>
planVars  == <<plan, pairs>>
vars == <<tableVars, callVars, enabled, planVars, tx, lockVars>>

Wish == [call : Calls \cup {NoCall}, slot : Slots, size : 1..MaxParty, tables : Seatings]

Row   == [status : {"draft", "confirmed"}, wish : Wish, forced : BOOLEAN]
NoRow == [status |-> "none"]

Txn == [op       : {"create", "confirm", "tap"},
        id       : Ids,
        wish     : Wish,
        days     : SUBSET Days,      \* advisory locks still to be taken
        checked  : BOOLEAN,
        override : BOOLEAN,          \* "Trotzdem eintragen"
        forced   : BOOLEAN]          \* the window was full
Idle == [op |-> "idle"]

Init ==
    /\ rsv      = [id \in Ids |-> NoRow]
    /\ ended    = {}
    /\ outlived = {}
    /\ enabled  = TRUE
    /\ plan     = Tables
    /\ pairs    = {p \in Seatings : Cardinality(p) = 2}
    /\ events   = [id \in Ids |-> 0]
    /\ tx       = [t \in Txns |-> Idle]
    /\ rowLock  = [id \in Ids |-> Nobody]
    /\ dayLock  = [d \in Days |-> Nobody]

----------------------------------------------------------------------------
(* Seats and tables.                                                       *)

Confirmed == {id \in Ids : rsv[id].status = "confirmed"}

\* A draft of the agent holds seats while its call can still confirm it.
LiveDrafts ==
    {id \in Ids : /\ rsv[id].status = "draft"
                  /\ rsv[id].wish.call \in Calls \ ended
                  /\ id \notin outlived}

InTurn(S, s) == {id \in S : SameTurn(rsv[id].wish.slot, s)}

\* One element for each guest of the reservations S.
Guests(S) == {g \in S \X (1..MaxParty) : g[2] <= rsv[g[1]].wish.size}

\* Mutant of Counted: a draft leaves out itself, and the one it corrects counts.
CountedWithCorrected(w) ==
    InTurn(Confirmed \cup {id \in LiveDrafts : rsv[id].wish # w}, w.slot)

\* booked_guests: the drafts of the asking call are left out.
Counted(w) ==
    InTurn(Confirmed \cup {id \in LiveDrafts : rsv[id].wish.call # w.call}, w.slot)

\* has_room, fits and seats_free of check_slot.
HasRoom(w) == /\ WindowOf[w.slot] # NoWindow
              /\ Cardinality(Guests(Counted(w))) + w.size <= MaxGuests

\* Mutant of TablesFree: only the same start time collides.
TablesFreeThen(w) ==
    \A id \in Confirmed : rsv[id].wish.slot = w.slot => rsv[id].wish.tables \cap w.tables = {}

\* taken_tables: no confirmed reservation of the turn sits on one of them.
TablesFree(w) == \A id \in InTurn(Confirmed, w.slot) : rsv[id].wish.tables \cap w.tables = {}

\* seating: live tables, and a pair of the plan.
InPlan(w) == w.tables \subseteq plan /\ (Cardinality(w.tables) = 2 => w.tables \in pairs)

----------------------------------------------------------------------------
(* Transactions.                                                           *)

Begin(op, id, w, override) ==
    [op |-> op, id |-> id, wish |-> w, days |-> LockDays(w.slot),
     checked |-> FALSE, override |-> override, forced |-> FALSE]

\* The end of t: everything it holds is released.
Release(t) ==
    /\ tx' = [tx EXCEPT ![t] = Idle]
    /\ rowLock' = [id \in Ids |-> IF rowLock[id] = t THEN Nobody ELSE rowLock[id]]
    /\ dayLock' = [d \in Days |-> IF dayLock[d] = t THEN Nobody ELSE dayLock[d]]

\* create_reservation; a key that has a row is answered without a transaction.
CreateBegin(t, id, w) ==
    /\ tx[t] = Idle
    /\ id \in AgentIds /\ rsv[id] = NoRow
    /\ w.call \in Calls /\ w.tables = {}
    /\ tx' = [tx EXCEPT ![t] = Begin("create", id, w, FALSE)]
    /\ UNCHANGED <<tableVars, callVars, enabled, planVars, lockVars>>

\* Mutant of ConfirmBegin: the draft is read without FOR UPDATE.
ConfirmBeginUnlocked(t, id) ==
    /\ tx[t] = Idle
    /\ id \in AgentIds /\ rsv[id].status = "draft"
    /\ enabled
    /\ tx' = [tx EXCEPT ![t] = Begin("confirm", id, rsv[id].wish, FALSE)]
    /\ UNCHANGED <<tableVars, callVars, enabled, planVars, lockVars>>

\* confirm on a call: the row, then service_config for share; only the call of the
\* draft comes this far, and a confirmed one is answered as it is.
ConfirmBegin(t, id) ==
    /\ tx[t] = Idle
    /\ id \in AgentIds /\ rsv[id].status = "draft"
    /\ rowLock[id] = Nobody
    /\ enabled
    /\ tx' = [tx EXCEPT ![t] = Begin("confirm", id, rsv[id].wish, FALSE)]
    /\ rowLock' = [rowLock EXCEPT ![id] = t]
    /\ UNCHANGED <<tableVars, callVars, enabled, planVars, dayLock>>

\* create_tablet_reservation: a draft of the team holds nothing and takes no lock.
TabletCreate(id, w) ==
    /\ id \in TabletIds /\ rsv[id] = NoRow
    /\ w.call = NoCall
    /\ InPlan(w) /\ TablesFree(w)
    /\ rsv' = [rsv EXCEPT ![id] = [status |-> "draft", wish |-> w, forced |-> FALSE]]
    /\ UNCHANGED <<events, callVars, enabled, planVars, tx, lockVars>>

\* confirm_tablet, only for the tablet's own drafts.
TapBegin(t, id, override) ==
    /\ tx[t] = Idle
    /\ id \in TabletIds /\ rsv[id].status = "draft"
    /\ rowLock[id] = Nobody
    /\ tx' = [tx EXCEPT ![t] = Begin("tap", id, rsv[id].wish, override)]
    /\ rowLock' = [rowLock EXCEPT ![id] = t]
    /\ UNCHANGED <<tableVars, callVars, enabled, planVars, dayLock>>

\* Mutant of LockDay: the two days in no order.
LockDayInNoOrder(t) ==
    /\ tx[t] # Idle
    /\ \E d \in tx[t].days :
          /\ dayLock[d] = Nobody
          /\ dayLock' = [dayLock EXCEPT ![d] = t]
          /\ tx' = [tx EXCEPT ![t].days = @ \ {d}]
    /\ UNCHANGED <<tableVars, callVars, enabled, planVars, rowLock>>

\* One advisory lock, the earlier day first.
LockDay(t) ==
    /\ tx[t] # Idle
    /\ \E d \in tx[t].days :
          /\ \A other \in tx[t].days : d <= other
          /\ dayLock[d] = Nobody
          /\ dayLock' = [dayLock EXCEPT ![d] = t]
          /\ tx' = [tx EXCEPT ![t].days = @ \ {d}]
    /\ UNCHANGED <<tableVars, callVars, enabled, planVars, rowLock>>

\* Mutants of Passes: the yes trusts the seats of its draft; the tap trusts what the
\* draft found in the plan.
PassesOnOldSeats(x) ==
    \/ x.op = "create"  /\ enabled /\ HasRoom(x.wish)
    \/ x.op = "confirm"
    \/ x.op = "tap"     /\ InPlan(x.wish) /\ TablesFree(x.wish)
                        /\ (HasRoom(x.wish) \/ x.override)

PassesOnOldPlan(x) ==
    \/ x.op = "create"  /\ enabled /\ HasRoom(x.wish)
    \/ x.op = "confirm" /\ HasRoom(x.wish)
    \/ x.op = "tap"     /\ TablesFree(x.wish) /\ (HasRoom(x.wish) \/ x.override)

\* What the transaction asks once it holds both days.
Passes(x) ==
    \/ x.op = "create"  /\ enabled /\ HasRoom(x.wish)
    \/ x.op = "confirm" /\ HasRoom(x.wish)
    \/ x.op = "tap"     /\ InPlan(x.wish) /\ TablesFree(x.wish)
                        /\ (HasRoom(x.wish) \/ x.override)

\* The check; whoever does not pass is answered "conflict" and rolled back.
Check(t) ==
    /\ tx[t] # Idle /\ tx[t].days = {} /\ ~tx[t].checked
    /\ \/ /\ Passes(tx[t])
          /\ tx' = [tx EXCEPT ![t].checked = TRUE, ![t].forced = ~HasRoom(tx[t].wish)]
          /\ UNCHANGED lockVars
       \/ ~Passes(tx[t]) /\ Release(t)
    /\ UNCHANGED <<tableVars, callVars, enabled, planVars>>

\* The draft is stored; a row with the same key came first: its answer (_replay).
CreateCommit(t) ==
    LET x == tx[t] IN
    /\ x.op = "create" /\ x.checked
    /\ \/ /\ rsv[x.id] = NoRow
          /\ rsv' = [rsv EXCEPT ![x.id] =
                       [status |-> "draft", wish |-> x.wish, forced |-> FALSE]]
       \/ rsv[x.id] # NoRow /\ UNCHANGED rsv
    /\ Release(t)
    /\ UNCHANGED <<events, callVars, enabled, planVars>>

\* _book and the commit: status, audit row and outbox event together.
BookCommit(t) ==
    LET x == tx[t] IN
    /\ x.op \in {"confirm", "tap"} /\ x.checked
    /\ rsv' = [rsv EXCEPT ![x.id] =
                 [status |-> "confirmed", wish |-> x.wish, forced |-> x.forced]]
    /\ events' = [events EXCEPT ![x.id] = @ + 1]
    /\ Release(t)
    /\ UNCHANGED <<callVars, enabled, planVars>>

\* Refused for a reason outside the model, or the connection is gone: rolled back.
GiveUp(t) ==
    /\ tx[t] # Idle
    /\ Release(t)
    /\ UNCHANGED <<tableVars, callVars, enabled, planVars>>

----------------------------------------------------------------------------
(* Around them.                                                            *)

EndCall(c) ==
    /\ ended' = ended \cup {c}
    /\ UNCHANGED <<tableVars, outlived, enabled, planVars, tx, lockVars>>

Outlive(id) ==
    /\ rsv[id].status = "draft" /\ id \in AgentIds
    /\ outlived' = outlived \cup {id}
    /\ UNCHANGED <<tableVars, ended, enabled, planVars, tx, lockVars>>

\* Mutant of SetReservations: no yes under way is waited for.
SetReservationsAtOnce(on) ==
    /\ enabled' = on
    /\ UNCHANGED <<tableVars, callVars, planVars, tx, lockVars>>

\* set_reservations: FOR UPDATE waits for every yes that read the row for share.
SetReservations(on) ==
    /\ \A t \in Txns : tx[t].op # "confirm"
    /\ enabled' = on
    /\ UNCHANGED <<tableVars, callVars, planVars, tx, lockVars>>

\* save_area: a table or pair a tap has locked for share is waited for.
SavePlan(P, Q) ==
    /\ \A q \in Q : q \subseteq P
    /\ \A t \in Txns : tx[t].op = "tap" /\ tx[t].checked =>
          LET T == tx[t].wish.tables IN T \subseteq P /\ (Cardinality(T) = 2 => T \in Q)
    /\ plan' = P /\ pairs' = Q
    /\ UNCHANGED <<tableVars, callVars, enabled, tx, lockVars>>

TxnNext(t) ==
    \/ \E id \in AgentIds, w \in Wish : CreateBegin(t, id, w)
    \/ \E id \in AgentIds : ConfirmBegin(t, id)
    \/ \E id \in TabletIds, override \in BOOLEAN : TapBegin(t, id, override)
    \/ LockDay(t) \/ Check(t) \/ CreateCommit(t) \/ BookCommit(t) \/ GiveUp(t)

Around ==
    \/ \E id \in TabletIds, w \in Wish : TabletCreate(id, w)
    \/ \E c \in Calls : EndCall(c)
    \/ \E id \in AgentIds : Outlive(id)
    \/ \E on \in BOOLEAN : SetReservations(on)
    \/ \E P \in SUBSET Tables, Q \in SUBSET {p \in Seatings : Cardinality(p) = 2} :
          SavePlan(P, Q)

Next == Around \/ \E t \in Txns : TxnNext(t)

Spec == Init /\ [][Next]_vars

\* The database goes on with every transaction and grants a lock in the order it was
\* asked for, so nobody waits for ever behind others; nobody has to give up.
FairSpec == Spec /\ \A t \in Txns : /\ SF_vars(LockDay(t)) /\ WF_vars(Check(t))
                                    /\ WF_vars(CreateCommit(t)) /\ WF_vars(BookCommit(t))

----------------------------------------------------------------------------
(* Properties.                                                             *)

TypeOK ==
    /\ rsv \in [Ids -> Row \cup {NoRow}]
    /\ ended \subseteq Calls /\ outlived \subseteq AgentIds
    /\ enabled \in BOOLEAN
    /\ plan \subseteq Tables /\ pairs \subseteq Seatings
    /\ events \in [Ids -> {0, 1}]
    /\ tx \in [Txns -> Txn \cup {Idle}]
    /\ rowLock \in [Ids -> Txns \cup {Nobody}]
    /\ dayLock \in [Days -> Txns \cup {Nobody}]

\* What was booked without "Trotzdem eintragen".
Unforced(s) == {id \in InTurn(Confirmed, s) : ~rsv[id].forced}

\* No window is overbooked, however many calls and tablets confirm at once, also
\* across midnight and also after a draft lost its seats: what was booked without
\* "Trotzdem eintragen" fits the window (lock_capacity_days, has_room).
SeatsHold ==
    \A s \in Slots : WindowOf[s] # NoWindow =>
        Cardinality(Guests(Unforced(s))) <= MaxGuests

\* No table is promised to two parties of the same turn, however many taps and
\* overrides there are (taken_tables in confirm_tablet).
TableOnce ==
    \A i, j \in Confirmed :
        i # j /\ SameTurn(rsv[i].wish.slot, rsv[j].wish.slot) =>
            rsv[i].wish.tables \cap rsv[j].wish.tables = {}

\* A confirmed table tells n8n once, whatever is tapped twice or retried, and a draft
\* never does (_confirm_reservation, confirm_tablet, _book).
OneEvent == \A id \in Ids : events[id] = IF rsv[id].status = "confirmed" THEN 1 ELSE 0

Books(id) == rsv[id].status # "confirmed" /\ rsv'[id].status = "confirmed"

\* Once the team switched reservations off, no yes on the phone books any more, also
\* none that was under way when it tapped (FOR SHARE in _confirm_reservation).
OffMeansOff == [][\A id \in AgentIds : Books(id) => enabled]_vars

\* A party is booked onto tables that are in the plan at that moment, although the
\* plan is edited on another tablet (seating's share lock).
BookedTablesExist == [][\A id \in TabletIds : Books(id) => InPlan(rsv[id].wish)]_vars

Holding == Confirmed \cup LiveDrafts

\* None of S was "Trotzdem eintragen", and no call has two of them.
Apart(S) ==
    /\ \A id \in S \cap Confirmed : ~rsv[id].forced
    /\ \A i, j \in S : rsv[i].wish.call = rsv[j].wish.call => i = j \/ rsv[i].wish.call = NoCall

\* What the wish of a call shares its window with: other guests, and booked tables.
Beside(w) == {id \in InTurn(Holding, w.slot) : id \in Confirmed \/ rsv[id].wish.call # w.call}

\* A guest on the line who was promised seats gets them, and may move them to another
\* time of the window: neither the yes nor a corrected wish is refused because of
\* others, nor because of the drafts the guest's own corrections left behind.  This is
\* while everybody has one wish in the window and the team overrode nothing
\* (booked_guests and its call_id).
HeldSeatsFit ==
    \A id \in LiveDrafts, w \in Wish :
        LET held == rsv[id].wish IN
        /\ w.call = held.call /\ SameTurn(w.slot, held.slot) /\ w.size <= held.size
        /\ Apart(Beside(held) \cup {id})
        => HasRoom(w)

\* docs/04 (seats checked again): within a live call the check passes, unless the call
\* itself confirmed another table of the window (or the team overrode).  Not true, see
\* README: corrected drafts of another call count beside the drafts that replaced them.
LiveYesPasses ==
    \A id \in LiveDrafts :
        LET w == rsv[id].wish
            others == InTurn(Confirmed, w.slot)
        IN  (\A i \in others : ~rsv[i].forced /\ rsv[i].wish.call # w.call) => HasRoom(w)

\* The booking of every reservation, as the team would read it off the book.
NoBooking   == [slot |-> "none"]
Booking(id) == [slot   |-> rsv[id].wish.slot,
                size   |-> rsv[id].wish.size,
                tables |-> rsv[id].wish.tables]
Booked      == [id \in Ids |-> IF id \in Confirmed THEN Booking(id) ELSE NoBooking]

\* The concurrent transactions book as if one ran after the other (ReservationBook).
Book == INSTANCE ReservationBook WITH booked <- Booked, open <- enabled

ImplementsBook == Book!Spec

\* Every request is answered: the days are locked in one order, so no two requests wait
\* for each other (lock_capacity_days).
RequestsEnd == \A t \in Txns : tx[t] # Idle ~> tx[t] = Idle

----------------------------------------------------------------------------
(* Why it holds: the inductive invariant, proved in ReservationsProofs.    *)

\* A transaction holds the days it has locked, all of them once it checks.
DaysHeld ==
    \A t \in Txns : tx[t] # Idle =>
        /\ \A d \in LockDays(tx[t].wish.slot) \ tx[t].days : dayLock[d] = t
        /\ tx[t].checked => tx[t].days = {}

\* A confirmation holds its draft's row, and the agent's one the switch as well.
RowHeld(t) ==
    /\ tx[t].op = "create" => tx[t].id \in AgentIds /\ tx[t].wish.tables = {}
    /\ tx[t].op \in {"confirm", "tap"} =>
          /\ rowLock[tx[t].id] = t
          /\ rsv[tx[t].id].status = "draft"
          /\ rsv[tx[t].id].wish = tx[t].wish
    /\ tx[t].op = "confirm" => tx[t].id \in AgentIds /\ enabled
    /\ tx[t].op = "tap" => tx[t].id \in TabletIds

RowsHeld ==
    /\ \A t \in Txns : RowHeld(t)
    /\ \A id \in AgentIds : rsv[id] # NoRow => rsv[id].wish.tables = {}

\* What the check found holds until the commit, because the days are held.
CheckHeld(t, w) ==
    tx[t].op \in {"confirm", "tap"} /\ tx[t].checked /\ tx[t].wish = w =>
        /\ tx[t].op = "tap" => InPlan(w)
        /\ TablesFree(w)
        /\ tx[t].op = "confirm" => ~tx[t].forced
        /\ ~tx[t].forced =>
              /\ WindowOf[w.slot] # NoWindow
              /\ Cardinality(Guests(InTurn(Confirmed, w.slot))) + w.size <= MaxGuests

CheckHolds == \A t \in Txns, w \in Wish : CheckHeld(t, w)

Inv == TypeOK /\ DaysHeld /\ RowsHeld /\ CheckHolds /\ SeatsHold /\ TableOnce /\ OneEvent

\* The room a check found for a draft or a booking is there until the commit.
RoomHeld(t) ==
    tx[t] # Idle /\ tx[t].checked /\ (tx[t].op = "tap" => ~tx[t].forced) => HasRoom(tx[t].wish)

\* Whichever one wish each call keeps, these and what is booked fit the window.  (A call
\* that ends takes its drafts along, so any choice may become all there is.)
HeldTogether ==
    \A s \in Slots : WindowOf[s] # NoWindow =>
        \A S \in SUBSET InTurn(Holding, s) : Apart(S) => Cardinality(Guests(S)) <= MaxGuests

\* The agent takes down no wish outside the windows.
InWindows ==
    \A id \in Ids : rsv[id] # NoRow /\ rsv[id].wish.call \in Calls =>
        WindowOf[rsv[id].wish.slot] # NoWindow

SeatsHeld == HeldTogether /\ InWindows /\ \A t \in Txns : RoomHeld(t)
=============================================================================
