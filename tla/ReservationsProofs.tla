------------------------- MODULE ReservationsProofs -------------------------
(***************************************************************************)
(* Proofs about Reservations, for any number of reservations, calls,       *)
(* tables, windows and threads.                                            *)
(***************************************************************************)
EXTENDS Reservations, FiniteSetTheorems, TLAPS

(* ----------------------------- Locked days ----------------------------- *)

\* Two times of one turn share a locked day.
LEMMA SharedDay ==
    ASSUME NEW s \in Slots, NEW u \in Slots, SameTurn(s, u)
    PROVE  \E d \in Days : d \in LockDays(s) /\ d \in LockDays(u)
  <1>1. /\ DayOf[s] \in Nat \ {0} /\ DayOf[u] \in Nat \ {0}
        /\ DayOf[u] \in {DayOf[s] - 1, DayOf[s], DayOf[s] + 1}
    BY SlotsAndWindows
  <1>2. \A v \in Slots : LockDays(v) \subseteq Days
    BY DEF Days
  <1>3. CASE DayOf[u] = DayOf[s] - 1
    BY <1>1, <1>2, <1>3 DEF LockDays
  <1>4. CASE DayOf[u] = DayOf[s]
    BY <1>1, <1>2, <1>4 DEF LockDays
  <1>5. CASE DayOf[u] = DayOf[s] + 1
    <2>1. DayOf[s] \in LockDays(u)
      BY <1>1, <1>5 DEF LockDays
    <2>2. DayOf[s] \in LockDays(s)
      BY DEF LockDays
    <2> QED  BY <1>2, <2>1, <2>2
  <1> QED  BY <1>1, <1>3, <1>4, <1>5

\* SameTurn is an equivalence.
LEMMA TurnsAreEqual ==
    /\ \A s, u : SameTurn(s, u) <=> SameTurn(u, s)
    /\ \A s, u, v : SameTurn(s, u) /\ SameTurn(u, v) => SameTurn(s, v)
    /\ \A s : SameTurn(s, s)
  BY DEF SameTurn

\* While t has checked, no other transaction of the turn has.
LEMMA OneChecked ==
    ASSUME TypeOK, DaysHeld,
           NEW t \in Txns, NEW v \in Txns, t # v,
           tx[t] # Idle, tx[t].checked, tx[v] # Idle, tx[v].checked,
           SameTurn(tx[t].wish.slot, tx[v].wish.slot)
    PROVE  FALSE
  <1>1. tx[t] \in Txn /\ tx[v] \in Txn
    BY DEF TypeOK
  <1>2. tx[t].wish.slot \in Slots /\ tx[v].wish.slot \in Slots
    BY <1>1 DEF Txn, Wish
  <1>3. PICK d \in Days : d \in LockDays(tx[t].wish.slot) /\ d \in LockDays(tx[v].wish.slot)
    BY <1>2, SharedDay
  <1>4. dayLock[d] = t /\ dayLock[d] = v
    BY <1>3 DEF DaysHeld
  <1> QED  BY <1>4

(* -------------------------------- Types -------------------------------- *)

\* Init establishes the invariant.
LEMMA InvInit == Init => Inv
  <1> SUFFICES ASSUME Init PROVE Inv
    OBVIOUS
  <1> USE DEF Init
  <1>1. TypeOK
    BY IdsAndNames DEF TypeOK, Idle, NoRow
  <1>2. \A t \in Txns : tx[t] = Idle /\ tx[t].op = "idle"
    BY DEF Idle
  <1>3. \A id \in Ids : rsv[id] = NoRow /\ rsv[id].status = "none"
    BY DEF NoRow
  <1>4. Confirmed = {}
    BY <1>3 DEF Confirmed
  <1>5. DaysHeld /\ RowsHeld /\ CheckHolds
    BY <1>2, <1>3 DEF DaysHeld, RowsHeld, RowHeld, CheckHolds, CheckHeld, Ids
  <1>6. TableOnce /\ OneEvent
    BY <1>3, <1>4 DEF TableOnce, OneEvent
  <1>7. ASSUME NEW s \in Slots PROVE Cardinality(Guests(Unforced(s))) <= MaxGuests
    <2>1. Guests(Unforced(s)) = {}
      BY <1>4 DEF Guests, Unforced, InTurn
    <2> QED  BY <2>1, FS_EmptySet, SizesAreNat
  <1> QED  BY <1>1, <1>5, <1>6, <1>7 DEF Inv, SeatsHold

\* A wish of a time asks for days there are.
LEMMA BeginType ==
    ASSUME NEW op \in {"create", "confirm", "tap"}, NEW id \in Ids, NEW w \in Wish,
           NEW override \in BOOLEAN
    PROVE  Begin(op, id, w, override) \in Txn
  <1>1. w.slot \in Slots
    BY DEF Wish
  <1>2. LockDays(w.slot) \in SUBSET Days
    BY <1>1 DEF Days
  <1> QED  BY <1>2 DEF Begin, Txn

\* A row that is a draft or confirmed is a row.
LEMMA RowType ==
    ASSUME TypeOK, NEW id \in Ids, rsv[id].status \in {"draft", "confirmed"}
    PROVE  rsv[id] \in Row /\ rsv[id].wish \in Wish
  BY DEF TypeOK, NoRow, Row

\* A thread that is not idle runs a transaction.
LEMMA TxnType ==
    ASSUME TypeOK, NEW t \in Txns
    PROVE  /\ tx[t] # Idle => tx[t] \in Txn /\ tx[t].wish \in Wish /\ tx[t].wish.slot \in Slots
                              /\ tx[t].id \in Ids
           /\ tx[t].op \in {"create", "confirm", "tap"} <=> tx[t] # Idle
  BY DEF TypeOK, Idle, Txn, Wish

\* The end of a transaction keeps the types of what it releases.
LEMMA ReleaseType ==
    ASSUME TypeOK, NEW t \in Txns, Release(t)
    PROVE  /\ tx' \in [Txns -> Txn \cup {Idle}]
           /\ rowLock' \in [Ids -> Txns \cup {Nobody}]
           /\ dayLock' \in [Days -> Txns \cup {Nobody}]
  BY DEF TypeOK, Release

\* What a transaction's step leaves of types.
LEMMA TypeStep == Inv /\ [Next]_vars => TypeOK'
  <1> SUFFICES ASSUME Inv, [Next]_vars PROVE TypeOK'
    OBVIOUS
  <1>0. TypeOK /\ RowsHeld /\ OneEvent
    BY DEF Inv
  <1> USE DEF Ids
  <1>1. ASSUME NEW t \in Txns, NEW id \in AgentIds, NEW w \in Wish, CreateBegin(t, id, w)
        PROVE  TypeOK'
    <2>1. Begin("create", id, w, FALSE) \in Txn
      BY BeginType
    <2> QED  BY <1>0, <1>1, <2>1
             DEF TypeOK, CreateBegin, tableVars, callVars, planVars, lockVars
  <1>2. ASSUME NEW t \in Txns, NEW id \in AgentIds, ConfirmBegin(t, id) PROVE TypeOK'
    <2>1. rsv[id].wish \in Wish
      BY <1>0, <1>2, RowType DEF ConfirmBegin
    <2>2. Begin("confirm", id, rsv[id].wish, FALSE) \in Txn
      BY <2>1, BeginType
    <2> QED  BY <1>0, <1>2, <2>2
             DEF TypeOK, ConfirmBegin, tableVars, callVars, planVars
  <1>3. ASSUME NEW t \in Txns, NEW id \in TabletIds, NEW override \in BOOLEAN,
               TapBegin(t, id, override)
        PROVE  TypeOK'
    <2>1. rsv[id].wish \in Wish
      BY <1>0, <1>3, RowType DEF TapBegin
    <2>2. Begin("tap", id, rsv[id].wish, override) \in Txn
      BY <2>1, BeginType
    <2> QED  BY <1>0, <1>3, <2>2
             DEF TypeOK, TapBegin, tableVars, callVars, planVars
  <1>4. ASSUME NEW t \in Txns, LockDay(t) PROVE TypeOK'
    <2>1. tx[t] \in Txn
      BY <1>0, <1>4, TxnType DEF LockDay
    <2>2. PICK d \in tx[t].days : /\ dayLock' = [dayLock EXCEPT ![d] = t]
                                  /\ tx' = [tx EXCEPT ![t].days = @ \ {d}]
      BY <1>4 DEF LockDay
    <2>3. tx'[t] \in Txn /\ d \in Days
      BY <1>0, <2>1, <2>2 DEF TypeOK, Txn
    <2>4. tx' = [tx EXCEPT ![t] = tx'[t]]
      BY <1>0, <2>2 DEF TypeOK
    <2>5. tx' \in [Txns -> Txn \cup {Idle}] /\ dayLock' \in [Days -> Txns \cup {Nobody}]
      BY <1>0, <2>2, <2>3, <2>4 DEF TypeOK
    <2> QED  BY <1>0, <1>4, <2>5
             DEF TypeOK, LockDay, tableVars, callVars, planVars
  <1>5. ASSUME NEW t \in Txns, Check(t) PROVE TypeOK'
    <2>1. CASE Release(t)
      BY <1>0, <1>5, <2>1, ReleaseType DEF TypeOK, Check, tableVars, callVars, planVars
    <2>2. ASSUME tx' = [tx EXCEPT ![t].checked = TRUE, ![t].forced = ~HasRoom(tx[t].wish)],
                 UNCHANGED lockVars
          PROVE  TypeOK'
      <3>1. tx[t] \in Txn
        BY <1>0, <1>5, TxnType DEF Check
      <3>2. tx'[t] \in Txn
        BY <1>0, <2>2, <3>1 DEF TypeOK, Txn
      <3>3. tx' = [tx EXCEPT ![t] = tx'[t]]
        BY <1>0, <2>2 DEF TypeOK
      <3>4. tx' \in [Txns -> Txn \cup {Idle}]
        BY <1>0, <3>2, <3>3 DEF TypeOK
      <3> QED  BY <1>0, <1>5, <2>2, <3>4
               DEF TypeOK, Check, tableVars, callVars, planVars, lockVars
    <2> QED  BY <1>5, <2>1, <2>2 DEF Check
  <1>6. ASSUME NEW t \in Txns, CreateCommit(t) PROVE TypeOK'
    <2>1. tx[t].wish \in Wish
      BY <1>0, <1>6, TxnType DEF CreateCommit
    <2>2. [status |-> "draft", wish |-> tx[t].wish, forced |-> FALSE] \in Row
      BY <2>1 DEF Row
    <2>3. rsv' \in [Ids -> Row \cup {NoRow}]
      BY <1>0, <1>6, <2>2 DEF TypeOK, CreateCommit
    <2> QED  BY <1>0, <1>6, <2>3, ReleaseType DEF TypeOK, CreateCommit, callVars, planVars
  <1>7. ASSUME NEW t \in Txns, BookCommit(t) PROVE TypeOK'
    <2>1. tx[t] \in Txn /\ tx[t].wish \in Wish /\ tx[t].id \in Ids
      BY <1>0, <1>7, TxnType DEF BookCommit
    <2>2. [status |-> "confirmed", wish |-> tx[t].wish, forced |-> tx[t].forced] \in Row
      BY <2>1 DEF Row, Txn
    <2>3. rsv' \in [Ids -> Row \cup {NoRow}]
      BY <1>0, <1>7, <2>2 DEF TypeOK, BookCommit
    <2>4. events[tx[t].id] = 0
      BY <1>0, <1>7, <2>1 DEF BookCommit, RowsHeld, RowHeld, OneEvent
    <2>5. events' \in [Ids -> {0, 1}]
      <3>1. events' = [events EXCEPT ![tx[t].id] = 1]
        BY <1>7, <2>4 DEF BookCommit
      <3> QED  BY <1>0, <3>1 DEF TypeOK
    <2> QED  BY <1>0, <1>7, <2>3, <2>5, ReleaseType DEF TypeOK, BookCommit, callVars, planVars
  <1>8. ASSUME NEW t \in Txns, GiveUp(t) PROVE TypeOK'
    BY <1>0, <1>8, ReleaseType DEF TypeOK, GiveUp, tableVars, callVars, planVars
  <1>9. ASSUME NEW id \in TabletIds, NEW w \in Wish, TabletCreate(id, w) PROVE TypeOK'
    <2>1. [status |-> "draft", wish |-> w, forced |-> FALSE] \in Row
      BY DEF Row
    <2> QED  BY <1>0, <1>9, <2>1 DEF TypeOK, TabletCreate, callVars, planVars, lockVars
  <1>10. ASSUME NEW c \in Calls, EndCall(c) PROVE TypeOK'
    BY <1>0, <1>10 DEF TypeOK, EndCall, tableVars, planVars, lockVars
  <1>11. ASSUME NEW id \in AgentIds, Outlive(id) PROVE TypeOK'
    BY <1>0, <1>11 DEF TypeOK, Outlive, tableVars, planVars, lockVars
  <1>12. ASSUME NEW on \in BOOLEAN, SetReservations(on) PROVE TypeOK'
    BY <1>0, <1>12 DEF TypeOK, SetReservations, tableVars, callVars, planVars, lockVars
  <1>13. ASSUME NEW P \in SUBSET Tables, NEW Q \in SUBSET {p \in Seatings : Cardinality(p) = 2},
                SavePlan(P, Q)
         PROVE  TypeOK'
    BY <1>0, <1>13 DEF TypeOK, SavePlan, tableVars, callVars, lockVars
  <1>14. CASE UNCHANGED vars
    BY <1>0, <1>14 DEF TypeOK, vars, tableVars, callVars, planVars, lockVars
  <1> QED  BY <1>1, <1>2, <1>3, <1>4, <1>5, <1>6, <1>7, <1>8, <1>9, <1>10, <1>11, <1>12,
              <1>13, <1>14 DEF Next, Around, TxnNext

(* ------------------------- What a step leaves -------------------------- *)

\* What t does leaves the other transactions and their locks.
Leaves(t) ==
    \A v \in Txns \ {t} : /\ tx'[v] = tx[v]
                          /\ \A d \in Days : dayLock[d] = v => dayLock'[d] = v
                          /\ \A id \in Ids : rowLock[id] = v => rowLock'[id] = v

\* Whatever a thread does leaves the transactions of the others alone.
LEMMA OthersStay ==
    ASSUME TypeOK, NEW t \in Txns, TxnNext(t)
    PROVE  Leaves(t)
  <1>0. Nobody \notin Txns
    BY IdsAndNames
  <1>1. ASSUME Release(t) PROVE Leaves(t)
    BY <1>0, <1>1 DEF Release, Leaves, TypeOK
  <1>2. ASSUME NEW id \in AgentIds, NEW w \in Wish, CreateBegin(t, id, w) PROVE Leaves(t)
    BY <1>2 DEF CreateBegin, Leaves, TypeOK, lockVars
  <1>3. ASSUME NEW id \in AgentIds, ConfirmBegin(t, id) PROVE Leaves(t)
    BY <1>0, <1>3 DEF ConfirmBegin, Leaves, TypeOK, lockVars
  <1>4. ASSUME NEW id \in TabletIds, NEW override \in BOOLEAN, TapBegin(t, id, override)
        PROVE  Leaves(t)
    BY <1>0, <1>4 DEF TapBegin, Leaves, TypeOK, lockVars
  <1>5. ASSUME LockDay(t) PROVE Leaves(t)
    <2>1. PICK d \in tx[t].days : /\ dayLock[d] = Nobody
                                  /\ dayLock' = [dayLock EXCEPT ![d] = t]
                                  /\ tx' = [tx EXCEPT ![t].days = @ \ {d}]
      BY <1>5 DEF LockDay
    <2>2. \A v \in Txns \ {t} : tx'[v] = tx[v]
      BY <2>1 DEF TypeOK
    <2> QED  BY <1>0, <1>5, <2>1, <2>2 DEF LockDay, Leaves, TypeOK
  <1>6. ASSUME Check(t), ~Release(t) PROVE Leaves(t)
    <2>1. /\ tx' = [tx EXCEPT ![t].checked = TRUE, ![t].forced = ~HasRoom(tx[t].wish)]
          /\ UNCHANGED lockVars
      BY <1>6 DEF Check
    <2>2. \A v \in Txns \ {t} : tx'[v] = tx[v]
      BY <2>1 DEF TypeOK
    <2> QED  BY <2>1, <2>2 DEF Leaves, lockVars
  <1> QED  BY <1>1, <1>2, <1>3, <1>4, <1>5, <1>6
           DEF TxnNext, CreateCommit, BookCommit, GiveUp

\* What everybody else does leaves all transactions alone.
LEMMA AroundStays == Around => UNCHANGED <<tx, rowLock, dayLock, events>>
  BY DEF Around, TabletCreate, EndCall, Outlive, SetReservations, SavePlan, tableVars, lockVars

\* The transaction of t after a step of t.
LEMMA OwnStep ==
    ASSUME TypeOK, NEW t \in Txns, TxnNext(t)
    PROVE  \/ tx'[t] = Idle
           \/ \E id \in AgentIds, w \in Wish :
                 w.tables = {} /\ tx'[t] = Begin("create", id, w, FALSE)
           \/ \E id \in AgentIds : ConfirmBegin(t, id) /\ tx'[t] = Begin("confirm", id, rsv[id].wish, FALSE)
           \/ \E id \in TabletIds, override \in BOOLEAN :
                 TapBegin(t, id, override) /\ tx'[t] = Begin("tap", id, rsv[id].wish, override)
           \/ LockDay(t)
           \/ /\ Check(t) /\ Passes(tx[t]) /\ UNCHANGED lockVars
              /\ tx' = [tx EXCEPT ![t].checked = TRUE, ![t].forced = ~HasRoom(tx[t].wish)]
  <1>1. Release(t) => tx'[t] = Idle
    BY DEF Release, TypeOK
  <1>2. ASSUME NEW id \in AgentIds, NEW w \in Wish, CreateBegin(t, id, w)
        PROVE  w.tables = {} /\ tx'[t] = Begin("create", id, w, FALSE)
    BY <1>2 DEF CreateBegin, TypeOK
  <1>3. ASSUME NEW id \in AgentIds, ConfirmBegin(t, id)
        PROVE  tx'[t] = Begin("confirm", id, rsv[id].wish, FALSE)
    BY <1>3 DEF ConfirmBegin, TypeOK
  <1>4. ASSUME NEW id \in TabletIds, NEW override \in BOOLEAN, TapBegin(t, id, override)
        PROVE  tx'[t] = Begin("tap", id, rsv[id].wish, override)
    BY <1>4 DEF TapBegin, TypeOK
  <1>5. Check(t) => \/ Release(t)
                    \/ /\ Passes(tx[t]) /\ UNCHANGED lockVars
                       /\ tx' = [tx EXCEPT ![t].checked = TRUE, ![t].forced = ~HasRoom(tx[t].wish)]
    BY DEF Check
  <1> QED  BY <1>1, <1>2, <1>3, <1>4, <1>5
           DEF TxnNext, CreateCommit, BookCommit, GiveUp, Ids

\* The locks of the days stay with the transaction that took them.
LEMMA DaysHeldStep == Inv /\ [Next]_vars => DaysHeld'
  <1> SUFFICES ASSUME Inv, [Next]_vars PROVE DaysHeld'
    OBVIOUS
  <1>0. TypeOK /\ DaysHeld
    BY DEF Inv
  <1> DEFINE Held(v) == tx[v] # Idle =>
                 /\ \A d \in LockDays(tx[v].wish.slot) \ tx[v].days : dayLock[d] = v
                 /\ tx[v].checked => tx[v].days = {}
  <1>1. ASSUME UNCHANGED <<tx, dayLock>> PROVE DaysHeld'
    BY <1>0, <1>1 DEF DaysHeld
  <1>2. ASSUME NEW t \in Txns, TxnNext(t) PROVE DaysHeld'
    <2>1. ASSUME NEW v \in Txns, v # t, tx'[v] # Idle
          PROVE  /\ \A d \in LockDays(tx'[v].wish.slot) \ tx'[v].days : dayLock'[d] = v
                 /\ tx'[v].checked => tx'[v].days = {}
      <3>1. tx'[v] = tx[v] /\ tx[v] # Idle
        BY <1>0, <1>2, <2>1, OthersStay DEF Leaves
      <3>2. tx[v].wish.slot \in Slots
        BY <1>0, <3>1, TxnType
      <3>3. LockDays(tx[v].wish.slot) \subseteq Days
        BY <3>2 DEF Days
      <3> QED  BY <1>0, <1>2, <2>1, <3>1, <3>3, OthersStay DEF Leaves, DaysHeld
    <2>2. ASSUME tx'[t] # Idle
          PROVE  /\ \A d \in LockDays(tx'[t].wish.slot) \ tx'[t].days : dayLock'[d] = t
                 /\ tx'[t].checked => tx'[t].days = {}
      <3>1. ASSUME NEW op, NEW id, NEW w, NEW override, tx'[t] = Begin(op, id, w, override)
            PROVE  /\ \A d \in LockDays(tx'[t].wish.slot) \ tx'[t].days : dayLock'[d] = t
                   /\ tx'[t].checked => tx'[t].days = {}
        BY <3>1 DEF Begin
      <3>2. ASSUME LockDay(t)
            PROVE  /\ \A d \in LockDays(tx'[t].wish.slot) \ tx'[t].days : dayLock'[d] = t
                   /\ tx'[t].checked => tx'[t].days = {}
        <4>1. PICK d \in tx[t].days : /\ dayLock' = [dayLock EXCEPT ![d] = t]
                                      /\ tx' = [tx EXCEPT ![t].days = @ \ {d}]
          BY <3>2 DEF LockDay
        <4>2. tx[t] \in Txn /\ tx[t] # Idle /\ tx[t].wish.slot \in Slots
          BY <1>0, <3>2, TxnType DEF LockDay
        <4>3. /\ tx'[t].days = tx[t].days \ {d} /\ tx'[t].wish = tx[t].wish
              /\ tx'[t].checked = tx[t].checked
          BY <1>0, <4>1, <4>2 DEF TypeOK, Txn
        <4>4. LockDays(tx[t].wish.slot) \subseteq Days
          BY <4>2 DEF Days
        <4> QED  BY <1>0, <4>1, <4>2, <4>3, <4>4 DEF DaysHeld, TypeOK
      <3>3. ASSUME Check(t), UNCHANGED lockVars,
                   tx' = [tx EXCEPT ![t].checked = TRUE, ![t].forced = ~HasRoom(tx[t].wish)]
            PROVE  /\ \A d \in LockDays(tx'[t].wish.slot) \ tx'[t].days : dayLock'[d] = t
                   /\ tx'[t].checked => tx'[t].days = {}
        <4>1. tx[t] \in Txn /\ tx[t] # Idle /\ tx[t].days = {}
          BY <1>0, <3>3, TxnType DEF Check
        <4>2. tx'[t].days = {} /\ tx'[t].wish = tx[t].wish
          BY <1>0, <3>3, <4>1 DEF TypeOK, Txn
        <4> QED  BY <1>0, <3>3, <4>1, <4>2 DEF DaysHeld, lockVars
      <3> QED  BY <1>0, <1>2, <2>2, <3>1, <3>2, <3>3, OwnStep
    <2> QED  BY <2>1, <2>2 DEF DaysHeld
  <1> QED  BY <1>1, <1>2, AroundStays DEF Next, vars, lockVars

\* A reservation that a confirmation has locked changes under nobody else's hands.
LEMMA LockedRowStays ==
    ASSUME Inv, Next, NEW v \in Txns, tx[v].op \in {"confirm", "tap"}, ~BookCommit(v)
    PROVE  rsv'[tx[v].id] = rsv[tx[v].id]
  <1> DEFINE id == tx[v].id
  <1>1. /\ TypeOK /\ RowsHeld
        /\ rowLock[id] = v /\ rsv[id].status = "draft" /\ rsv[id] # NoRow
    BY DEF Inv, RowsHeld, RowHeld, NoRow
  <1>a. id \in Ids
    BY <1>1, TxnType
  <1> HIDE DEF id
  <1>2. ASSUME NEW t \in Txns, BookCommit(t) PROVE rsv'[id] = rsv[id]
    <2>1. rowLock[tx[t].id] = t
      BY <1>1, <1>2 DEF BookCommit, RowsHeld, RowHeld
    <2>2. t # v
      BY <1>2
    <2>3. tx[t].id # id
      BY <1>1, <2>1, <2>2
    <2>4. PICK r : rsv' = [rsv EXCEPT ![tx[t].id] = r]
      BY <1>2 DEF BookCommit
    <2> QED  BY <1>1, <1>a, <2>3, <2>4 DEF TypeOK
  <1>3. ASSUME NEW t \in Txns, CreateCommit(t) PROVE rsv'[id] = rsv[id]
    <2>1. CASE UNCHANGED rsv
      BY <2>1
    <2>2. CASE ~UNCHANGED rsv
      <3>1. rsv[tx[t].id] = NoRow /\ \E r : rsv' = [rsv EXCEPT ![tx[t].id] = r]
        BY <1>3, <2>2 DEF CreateCommit
      <3> QED  BY <1>1, <1>a, <3>1 DEF TypeOK
    <2> QED  BY <2>1, <2>2
  <1>4. ASSUME NEW i \in TabletIds, NEW w \in Wish, TabletCreate(i, w) PROVE rsv'[id] = rsv[id]
    BY <1>1, <1>a, <1>4 DEF TabletCreate, TypeOK
  <1>5. ASSUME NEW t \in Txns, TxnNext(t), ~BookCommit(t), ~CreateCommit(t) PROVE rsv' = rsv
    BY <1>5 DEF TxnNext, CreateBegin, ConfirmBegin, TapBegin, LockDay, Check, GiveUp, tableVars
  <1>6. Around /\ ~(\E i \in TabletIds, w \in Wish : TabletCreate(i, w)) => rsv' = rsv
    BY DEF Around, EndCall, Outlive, SetReservations, SavePlan, tableVars
  <1> QED  BY <1>2, <1>3, <1>4, <1>5, <1>6 DEF Next, id

\* Rows, the switch and their transactions stay together.
LEMMA RowsHeldStep == Inv /\ [Next]_vars => RowsHeld'
  <1> SUFFICES ASSUME Inv, [Next]_vars PROVE RowsHeld'
    OBVIOUS
  <1>0. TypeOK /\ RowsHeld /\ TypeOK'
    BY TypeStep DEF Inv
  <1>1. CASE UNCHANGED vars
    BY <1>0, <1>1 DEF RowsHeld, RowHeld, vars, tableVars, lockVars
  <1>2. CASE Next
    <2>1. ASSUME NEW v \in Txns, tx'[v] = tx[v], ~BookCommit(v), tx[v] # Idle,
                 rowLock[tx[v].id] = v => rowLock'[tx[v].id] = v,
                 enabled' = enabled \/ tx[v].op # "confirm"
          PROVE  RowHeld(v)'
      <3>1. tx[v].op \in {"confirm", "tap"} => rsv'[tx[v].id] = rsv[tx[v].id]
        BY <1>2, <2>1, LockedRowStays
      <3> QED  BY <1>0, <2>1, <3>1 DEF RowsHeld, RowHeld
    <2>2. ASSUME NEW v \in Txns, tx'[v] = Idle PROVE RowHeld(v)'
      BY <2>2 DEF RowHeld, Idle
    <2>3. CASE Around
      <3>1. ASSUME NEW v \in Txns PROVE RowHeld(v)'
        <4>1. enabled' = enabled \/ tx[v].op # "confirm"
          BY <2>3 DEF Around, TabletCreate, EndCall, Outlive, SetReservations, SavePlan
        <4>2. tx'[v] = tx[v] /\ rowLock' = rowLock
          BY <2>3, AroundStays
        <4>3. CASE tx[v] = Idle
          BY <2>2, <4>2, <4>3
        <4>4. CASE tx[v] # Idle
          <5>1. CASE ~BookCommit(v)
            BY <2>1, <4>1, <4>2, <4>4, <5>1
          <5>2. CASE BookCommit(v)
            <6>1. tx'[v] = Idle
              BY <1>0, <5>2 DEF BookCommit, Release, TypeOK
            <6> QED  BY <2>2, <6>1
          <5> QED  BY <5>1, <5>2
        <4> QED  BY <4>3, <4>4
      <3>2. \A id \in AgentIds : rsv'[id] = rsv[id]
        <4>1. ASSUME NEW i \in TabletIds, NEW w \in Wish, TabletCreate(i, w),
                     NEW id \in AgentIds
              PROVE  rsv'[id] = rsv[id]
          <5>1. i # id /\ \E r : rsv' = [rsv EXCEPT ![i] = r]
            BY <4>1, IdsAndNames DEF TabletCreate
          <5> QED  BY <1>0, <5>1 DEF TypeOK, Ids
        <4> QED  BY <2>3, <4>1 DEF Around, EndCall, Outlive, SetReservations, SavePlan, tableVars
      <3> QED  BY <1>0, <3>1, <3>2 DEF RowsHeld
    <2>4. ASSUME NEW t \in Txns, TxnNext(t) PROVE RowsHeld'
      <3>1. ASSUME NEW v \in Txns, v # t, tx[v] # Idle PROVE RowHeld(v)'
        <4>1. /\ tx'[v] = tx[v]
              /\ tx[v].id \in Ids
              /\ rowLock[tx[v].id] = v => rowLock'[tx[v].id] = v
          BY <1>0, <2>4, <3>1, OthersStay, TxnType DEF Leaves
        <4>2. enabled' = enabled
          BY <2>4 DEF TxnNext, CreateBegin, ConfirmBegin, TapBegin, LockDay, Check, CreateCommit,
                      BookCommit, GiveUp
        <4>3. ~BookCommit(v)
          <5>1. BookCommit(v) => tx'[v] = Idle
            BY <1>0 DEF BookCommit, Release, TypeOK
          <5> QED  BY <3>1, <4>1, <5>1
        <4> QED  BY <2>1, <3>1, <4>1, <4>2, <4>3
      <3>2. ASSUME NEW v \in Txns, v # t, tx[v] = Idle PROVE RowHeld(v)'
        BY <1>0, <2>2, <2>4, <3>2, OthersStay DEF Leaves
      <3>3. RowHeld(t)'
        <4>1. ASSUME NEW id \in AgentIds, NEW w \in Wish, w.tables = {},
                     tx'[t] = Begin("create", id, w, FALSE)
              PROVE  RowHeld(t)'
          BY <4>1 DEF RowHeld, Begin
        <4>2. ASSUME NEW id \in AgentIds, ConfirmBegin(t, id),
                     tx'[t] = Begin("confirm", id, rsv[id].wish, FALSE)
              PROVE  RowHeld(t)'
          BY <1>0, <4>2 DEF RowHeld, Begin, ConfirmBegin, TypeOK, Ids, tableVars
        <4>3. ASSUME NEW id \in TabletIds, NEW override \in BOOLEAN, TapBegin(t, id, override),
                     tx'[t] = Begin("tap", id, rsv[id].wish, override)
              PROVE  RowHeld(t)'
          BY <1>0, <4>3 DEF RowHeld, Begin, TapBegin, TypeOK, Ids, tableVars
        <4>4. ASSUME LockDay(t) PROVE RowHeld(t)'
          <5>1. tx[t] \in Txn /\ \E d : tx' = [tx EXCEPT ![t].days = @ \ {d}]
            BY <1>0, <4>4, TxnType DEF LockDay
          <5>2. tx'[t].op = tx[t].op /\ tx'[t].id = tx[t].id /\ tx'[t].wish = tx[t].wish
            BY <1>0, <5>1 DEF TypeOK, Txn
          <5> QED  BY <1>0, <4>4, <5>2 DEF RowsHeld, RowHeld, LockDay, tableVars
        <4>5. ASSUME Check(t), UNCHANGED lockVars,
                     tx' = [tx EXCEPT ![t].checked = TRUE, ![t].forced = ~HasRoom(tx[t].wish)]
              PROVE  RowHeld(t)'
          <5>1. tx[t] \in Txn
            BY <1>0, <4>5, TxnType DEF Check
          <5>2. tx'[t].op = tx[t].op /\ tx'[t].id = tx[t].id /\ tx'[t].wish = tx[t].wish
            BY <1>0, <4>5, <5>1 DEF TypeOK, Txn
          <5>3. UNCHANGED <<rsv, enabled, rowLock>>
            BY <4>5 DEF Check, tableVars, lockVars
          <5> QED  BY <1>0, <5>2, <5>3 DEF RowsHeld, RowHeld
        <4> QED  BY <1>0, <2>2, <2>4, <4>1, <4>2, <4>3, <4>4, <4>5, OwnStep
      <3>4. ASSUME NEW id \in AgentIds, rsv'[id] # NoRow PROVE rsv'[id].wish.tables = {}
        <4>1. CASE rsv'[id] = rsv[id]
          BY <1>0, <3>4, <4>1 DEF RowsHeld
        <4>2. CASE rsv'[id] # rsv[id]
          <5>1. CreateCommit(t) \/ BookCommit(t)
            BY <2>4, <4>2
               DEF TxnNext, CreateBegin, ConfirmBegin, TapBegin, LockDay, Check, GiveUp, tableVars
          <5>2. id = tx[t].id /\ rsv'[id].wish = tx[t].wish
            BY <1>0, <4>2, <5>1 DEF TypeOK, CreateCommit, BookCommit, Ids
          <5>3. tx[t].wish.tables = {}
            BY <1>0, <5>1, <5>2, IdsAndNames
               DEF RowsHeld, RowHeld, CreateCommit, BookCommit, NoRow
          <5> QED  BY <5>2, <5>3
        <4> QED  BY <4>1, <4>2
      <3> QED  BY <3>1, <3>2, <3>3, <3>4 DEF RowsHeld
    <2> QED  BY <1>2, <2>3, <2>4 DEF Next
  <1> QED  BY <1>1, <1>2

(* --------------------------- Who is booked ----------------------------- *)

\* Nobody is booked and nobody who is changes.
SameBooks == \A id \in Ids : \/ rsv'[id] = rsv[id]
                             \/ rsv[id].status # "confirmed" /\ rsv'[id].status # "confirmed"

\* Only a confirmation's commit books.
LEMMA QuietStep ==
    ASSUME TypeOK, Next, \A t \in Txns : ~BookCommit(t)
    PROVE  SameBooks /\ events' = events
  <1>1. ASSUME NEW t \in Txns, CreateCommit(t) PROVE SameBooks
    <2>1. CASE UNCHANGED rsv
      BY <2>1 DEF SameBooks
    <2>2. CASE ~UNCHANGED rsv
      <3>1. PICK r : /\ rsv[tx[t].id] = NoRow /\ r.status = "draft"
                     /\ rsv' = [rsv EXCEPT ![tx[t].id] = r]
        BY <1>1, <2>2 DEF CreateCommit
      <3> QED  BY <3>1 DEF SameBooks, TypeOK, NoRow
    <2> QED  BY <2>1, <2>2
  <1>2. ASSUME NEW i \in TabletIds, NEW w \in Wish, TabletCreate(i, w) PROVE SameBooks
    <2>1. PICK r : /\ rsv[i] = NoRow /\ r.status = "draft" /\ rsv' = [rsv EXCEPT ![i] = r]
      BY <1>2 DEF TabletCreate
    <2> QED  BY <2>1 DEF SameBooks, TypeOK, NoRow
  <1>3. ASSUME NEW t \in Txns, TxnNext(t), ~CreateCommit(t) PROVE rsv' = rsv
    BY <1>3 DEF TxnNext, CreateBegin, ConfirmBegin, TapBegin, LockDay, Check, GiveUp, tableVars
  <1>4. Around /\ ~(\E i \in TabletIds, w \in Wish : TabletCreate(i, w)) => rsv' = rsv
    BY DEF Around, EndCall, Outlive, SetReservations, SavePlan, tableVars
  <1>5. SameBooks
    BY <1>1, <1>2, <1>3, <1>4 DEF Next, SameBooks
  <1>6. ASSUME NEW t \in Txns, TxnNext(t) PROVE events' = events
    BY <1>6 DEF TxnNext, CreateBegin, ConfirmBegin, TapBegin, LockDay, Check, CreateCommit,
                GiveUp, tableVars
  <1> QED  BY <1>5, <1>6, AroundStays DEF Next

\* Then every window and every table is as full as before.
LEMMA SameSeats ==
    ASSUME SameBooks
    PROVE  /\ Confirmed' = Confirmed
           /\ \A id \in Confirmed : rsv'[id] = rsv[id]
           /\ \A s : InTurn(Confirmed, s)' = InTurn(Confirmed, s)
           /\ \A s : Guests(InTurn(Confirmed, s))' = Guests(InTurn(Confirmed, s))
           /\ \A s : Guests(Unforced(s))' = Guests(Unforced(s))
  <1>1. Confirmed' = Confirmed /\ \A id \in Confirmed : rsv'[id] = rsv[id]
    BY DEF SameBooks, Confirmed
  <1>2. ASSUME NEW s PROVE InTurn(Confirmed, s)' = InTurn(Confirmed, s)
    BY <1>1 DEF InTurn
  <1>3. ASSUME NEW s PROVE Guests(Unforced(s))' = Guests(Unforced(s))
    <2>1. Unforced(s)' = Unforced(s) /\ \A id \in Unforced(s) : rsv'[id] = rsv[id]
      BY <1>1, <1>2 DEF Unforced, InTurn
    <2> QED  BY <2>1 DEF Guests
  <1>4. ASSUME NEW s PROVE Guests(InTurn(Confirmed, s))' = Guests(InTurn(Confirmed, s))
    <2>1. \A id \in InTurn(Confirmed, s) : rsv'[id] = rsv[id]
      BY <1>1 DEF InTurn
    <2> QED  BY <1>2, <2>1 DEF Guests
  <1> QED  BY <1>1, <1>2, <1>3, <1>4

\* What a commit books: one reservation, as its transaction wished it.
LEMMA BookEffect ==
    ASSUME Inv, NEW t \in Txns, BookCommit(t)
    PROVE  /\ tx[t] \in Txn /\ tx[t].id \in Ids \ Confirmed
           /\ tx[t].wish \in Wish /\ tx[t].wish.slot \in Slots
           /\ rsv' = [rsv EXCEPT ![tx[t].id] = [status |-> "confirmed", wish |-> tx[t].wish,
                                                forced |-> tx[t].forced]]
           /\ rsv'[tx[t].id] = [status |-> "confirmed", wish |-> tx[t].wish,
                                forced |-> tx[t].forced]
           /\ \A id \in Ids \ {tx[t].id} : rsv'[id] = rsv[id]
           /\ Confirmed' = Confirmed \cup {tx[t].id}
  <1>1. TypeOK /\ RowsHeld
    BY DEF Inv
  <1>2. /\ tx[t] \in Txn /\ tx[t].id \in Ids
        /\ tx[t].wish \in Wish /\ tx[t].wish.slot \in Slots
    BY <1>1, TxnType DEF BookCommit
  <1>3. tx[t].id \notin Confirmed
    BY <1>1 DEF BookCommit, RowsHeld, RowHeld, Confirmed
  <1>4. rsv' = [rsv EXCEPT ![tx[t].id] = [status |-> "confirmed", wish |-> tx[t].wish,
                                          forced |-> tx[t].forced]]
    BY DEF BookCommit
  <1>5. /\ rsv'[tx[t].id] = [status |-> "confirmed", wish |-> tx[t].wish,
                             forced |-> tx[t].forced]
        /\ \A id \in Ids \ {tx[t].id} : rsv'[id] = rsv[id]
    BY <1>1, <1>2, <1>4 DEF TypeOK
  <1>6. Confirmed' = Confirmed \cup {tx[t].id}
    BY <1>2, <1>5 DEF Confirmed
  <1> QED  BY <1>2, <1>3, <1>4, <1>5, <1>6

\* A commit fills no other turn than its own.
LEMMA OtherTurns ==
    ASSUME Inv, NEW t \in Txns, BookCommit(t), NEW s, ~SameTurn(tx[t].wish.slot, s)
    PROVE  /\ InTurn(Confirmed, s)' = InTurn(Confirmed, s)
           /\ Guests(InTurn(Confirmed, s))' = Guests(InTurn(Confirmed, s))
           /\ Guests(Unforced(s))' = Guests(Unforced(s))
           /\ \A id \in InTurn(Confirmed, s) : rsv'[id] = rsv[id]
  <1>1. InTurn(Confirmed, s)' = InTurn(Confirmed, s)
    <2>1. Confirmed' = Confirmed \cup {tx[t].id}
      BY BookEffect
    <2>2. rsv'[tx[t].id].wish = tx[t].wish
      <3>1. rsv'[tx[t].id] = [status |-> "confirmed", wish |-> tx[t].wish, forced |-> tx[t].forced]
        BY BookEffect
      <3> QED  BY ONLY <3>1
    <2>3. \A id \in Confirmed : rsv'[id] = rsv[id]
      BY BookEffect DEF Confirmed
    <2> QED  BY <2>1, <2>2, <2>3 DEF InTurn
  <1>2. \A id \in InTurn(Confirmed, s) : rsv'[id] = rsv[id]
    BY BookEffect DEF InTurn, Confirmed
  <1>3. Unforced(s)' = Unforced(s) /\ \A id \in Unforced(s) : rsv'[id] = rsv[id]
    BY <1>1, <1>2 DEF Unforced
  <1>4. Guests(Unforced(s))' = Guests(Unforced(s))
    BY <1>3 DEF Guests
  <1>5. Guests(InTurn(Confirmed, s))' = Guests(InTurn(Confirmed, s))
    BY <1>1, <1>2 DEF Guests
  <1> QED  BY <1>1, <1>2, <1>4, <1>5

(* ------------------------- Finite sets of guests ----------------------- *)

\* The guests of any reservations are finitely many.
LEMMA GuestsFinite ==
    ASSUME NEW S \in SUBSET Ids
    PROVE  IsFiniteSet(Guests(S)) /\ Cardinality(Guests(S)) \in Nat
  <1>1. IsFiniteSet(Ids)
    BY IdsAndNames, FS_Union DEF Ids
  <1>2. IsFiniteSet(S)
    BY <1>1, FS_Subset
  <1>3. IsFiniteSet(1..MaxParty)
    BY SizesAreNat, FS_Interval
  <1>4. IsFiniteSet(S \X (1..MaxParty))
    BY <1>2, <1>3, FS_Product
  <1>5. Guests(S) \subseteq S \X (1..MaxParty)
    BY DEF Guests
  <1>6. IsFiniteSet(Guests(S))
    BY <1>4, <1>5, FS_Subset
  <1> QED  BY <1>6, FS_CardinalityType

\* Fewer reservations have no more guests.
LEMMA FewerGuests ==
    ASSUME NEW S \in SUBSET Ids, NEW T \in SUBSET S
    PROVE  Cardinality(Guests(T)) <= Cardinality(Guests(S))
  <1>1. Guests(T) \subseteq Guests(S)
    BY DEF Guests
  <1> QED  BY <1>1, GuestsFinite, FS_Subset

\* A party of n is n guests.
LEMMA PartyGuests ==
    ASSUME NEW id, NEW n \in 1..MaxParty
    PROVE  IsFiniteSet({id} \X (1..n)) /\ Cardinality({id} \X (1..n)) = n
  <1>0. n \in Nat /\ 1 \in Int /\ n \in Int
    BY SizesAreNat
  <1>1. IsFiniteSet(1..n) /\ Cardinality(1..n) = n
    BY <1>0, FS_Interval
  <1>2. IsFiniteSet({id}) /\ Cardinality({id}) = 1
    BY FS_Singleton
  <1>3. /\ IsFiniteSet({id} \X (1..n))
        /\ Cardinality({id} \X (1..n)) = Cardinality({id}) * Cardinality(1..n)
    BY <1>1, <1>2, FS_Product
  <1> QED  BY <1>0, <1>1, <1>2, <1>3

\* A party that fits beside the guests of S fits with them.
LEMMA OneMoreParty ==
    ASSUME NEW S \in SUBSET Ids, NEW id, NEW w \in Wish,
           NEW G, G \subseteq Guests(S) \cup ({id} \X (1..w.size)),
           Cardinality(Guests(S)) + w.size <= MaxGuests
    PROVE  Cardinality(G) <= MaxGuests
  <1> DEFINE Old == Guests(S)
             Party == {id} \X (1..w.size)
  <1>1. w.size \in 1..MaxParty /\ w.size \in Nat
    BY SizesAreNat DEF Wish
  <1>2. IsFiniteSet(Old) /\ Cardinality(Old) \in Nat
    BY GuestsFinite
  <1>3. IsFiniteSet(Party) /\ Cardinality(Party) = w.size
    BY <1>1, PartyGuests
  <1>4. Cardinality(Old) + w.size <= MaxGuests /\ G \subseteq Old \cup Party
    OBVIOUS
  <1> HIDE DEF Old, Party
  <1>5. IsFiniteSet(Old \cup Party) /\ Cardinality(Old \cup Party) <= Cardinality(Old) + w.size
    <2>1. IsFiniteSet(Old \cap Party) /\ Cardinality(Old \cap Party) \in Nat
      <3>1. Old \cap Party \in SUBSET Old
        OBVIOUS
      <3> QED  BY <1>2, <3>1, FS_Subset, FS_CardinalityType
    <2>2. /\ IsFiniteSet(Old \cup Party)
          /\ Cardinality(Old \cup Party)
                = Cardinality(Old) + Cardinality(Party) - Cardinality(Old \cap Party)
      BY <1>2, <1>3, FS_Union
    <2> QED  BY <1>1, <1>2, <1>3, <2>1, <2>2
  <1>6. /\ Cardinality(G) <= Cardinality(Old \cup Party)
        /\ Cardinality(G) \in Nat /\ Cardinality(Old \cup Party) \in Nat
    BY <1>4, <1>5, FS_Subset, FS_CardinalityType
  <1> QED  BY <1>1, <1>2, <1>4, <1>5, <1>6, SizesAreNat

(* ------------------------- What the check found ------------------------ *)

\* A window with room for the party has room for it next to all that is booked.
LEMMA RoomForParty ==
    ASSUME TypeOK, NEW w \in Wish, HasRoom(w)
    PROVE  Cardinality(Guests(InTurn(Confirmed, w.slot))) + w.size <= MaxGuests
  <1> DEFINE Now == InTurn(Confirmed, w.slot)
  <1>1. Counted(w) \in SUBSET Ids
    BY DEF Counted, InTurn, Confirmed, LiveDrafts
  <1>2. Now \in SUBSET Counted(w)
    BY DEF Counted, InTurn
  <1>3. Cardinality(Guests(Now)) <= Cardinality(Guests(Counted(w)))
    BY <1>1, <1>2, FewerGuests
  <1>4. Cardinality(Guests(Counted(w))) \in Nat /\ Cardinality(Guests(Now)) \in Nat
    <2>1. Now \in SUBSET Ids
      BY <1>1, <1>2
    <2> QED  BY <1>1, <2>1, GuestsFinite
  <1>5. w.size \in Nat
    BY SizesAreNat DEF Wish
  <1> QED  BY <1>3, <1>4, <1>5, SizesAreNat DEF HasRoom

\* What a check found stays true while nobody books into the turn.
LEMMA StaysHeld ==
    ASSUME NEW v \in Txns, NEW w \in Wish, CheckHeld(v, w), tx'[v] = tx[v],
           tx[v].op = "tap" /\ tx[v].checked /\ tx[v].wish = w /\ InPlan(w) => InPlan(w)',
           InTurn(Confirmed, w.slot)' = InTurn(Confirmed, w.slot),
           Guests(InTurn(Confirmed, w.slot))' = Guests(InTurn(Confirmed, w.slot)),
           \A id \in InTurn(Confirmed, w.slot) : rsv'[id] = rsv[id]
    PROVE  CheckHeld(v, w)'
  <1>1. TablesFree(w) => TablesFree(w)'
    BY DEF TablesFree
  <1> QED  BY <1>1 DEF CheckHeld

\* What the check of a confirmation found holds until its commit.
LEMMA CheckHoldsStep == Inv /\ [Next]_vars => CheckHolds'
  <1> SUFFICES ASSUME Inv, [Next]_vars, NEW v \in Txns, NEW w \in Wish PROVE CheckHeld(v, w)'
    BY DEF CheckHolds
  <1>0. TypeOK /\ DaysHeld /\ RowsHeld /\ CheckHeld(v, w)
    BY DEF Inv, CheckHolds
  <1>1. CASE UNCHANGED vars
    <2>1. SameBooks /\ tx' = tx /\ (InPlan(w) => InPlan(w)')
      BY <1>1 DEF SameBooks, vars, tableVars, planVars, InPlan
    <2> QED  BY <1>0, <2>1, SameSeats, StaysHeld DEF InTurn
  <1>2. ASSUME Next, \A t \in Txns : ~BookCommit(t), tx'[v] = tx[v] PROVE CheckHeld(v, w)'
    <2>1. SameBooks
      BY <1>0, <1>2, QuietStep
    <2>2. ASSUME tx[v].op = "tap" /\ tx[v].checked /\ tx[v].wish = w /\ InPlan(w) PROVE InPlan(w)'
      <3>1. CASE UNCHANGED planVars
        BY <2>2, <3>1 DEF InPlan, planVars
      <3>2. CASE ~UNCHANGED planVars
        <4>1. PICK P \in SUBSET Tables, Q \in SUBSET {p \in Seatings : Cardinality(p) = 2} :
                 SavePlan(P, Q)
          BY <1>2, <3>2
             DEF Next, TxnNext, Around, CreateBegin, ConfirmBegin, TapBegin, LockDay, Check,
                 CreateCommit, GiveUp, TabletCreate, EndCall, Outlive, SetReservations
        <4> QED  BY <2>2, <4>1 DEF SavePlan, InPlan
      <3> QED  BY <3>1, <3>2
    <2> QED  BY <1>0, <1>2, <2>1, <2>2, SameSeats, StaysHeld DEF InTurn
  <1>3. ASSUME NEW t \in Txns, BookCommit(t) PROVE CheckHeld(v, w)'
    <2>1. CASE tx'[v] = Idle
      BY <2>1 DEF CheckHeld, Idle
    <2>2. CASE tx'[v] # Idle /\ tx[v].wish = w /\ tx[v] # Idle /\ tx[v].checked
      <3>1. v # t
        BY <1>0, <1>3, <2>2 DEF BookCommit, Release, TypeOK
      <3>2. tx'[v] = tx[v] /\ planVars' = planVars
        BY <1>0, <1>3, <3>1 DEF BookCommit, Release, TypeOK
      <3>3. ~SameTurn(tx[t].wish.slot, w.slot)
        BY <1>0, <1>3, <2>2, <3>1, OneChecked DEF BookCommit, Idle
      <3>4. InPlan(w) => InPlan(w)'
        BY <3>2 DEF InPlan, planVars
      <3> QED  BY <1>0, <1>3, <3>2, <3>3, <3>4, OtherTurns, StaysHeld
    <2>3. CASE tx'[v] # Idle /\ ~(tx[v].wish = w /\ tx[v] # Idle /\ tx[v].checked)
      <3>1. tx'[v] = tx[v]
        BY <1>0, <1>3, <2>3 DEF BookCommit, Release, TypeOK
      <3> QED  BY <2>3, <3>1 DEF CheckHeld
    <2> QED  BY <2>1, <2>2, <2>3
  <1>4. ASSUME NEW t \in Txns, TxnNext(t), ~BookCommit(t), tx'[v] # tx[v] PROVE CheckHeld(v, w)'
    <2>1. v = t
      BY <1>0, <1>4, OthersStay DEF Leaves
    <2>2. ASSUME LockDay(t) PROVE CheckHeld(v, w)'
      <3>1. tx[t] \in Txn /\ \E d \in tx[t].days : tx' = [tx EXCEPT ![t].days = @ \ {d}]
        BY <1>0, <2>2, TxnType DEF LockDay
      <3>2. tx[t].days # {} /\ tx'[t].checked = tx[t].checked
        BY <1>0, <3>1 DEF TypeOK, Txn
      <3>3. ~tx[t].checked
        BY <1>0, <2>2, <3>2 DEF DaysHeld, LockDay
      <3> QED  BY <2>1, <3>1, <3>2, <3>3 DEF CheckHeld, Txn
    <2>3. ASSUME Check(t), Passes(tx[t]), tx[t].op \in {"confirm", "tap"}, tx[t].wish = w,
                 tx' = [tx EXCEPT ![t].checked = TRUE, ![t].forced = ~HasRoom(tx[t].wish)]
          PROVE  CheckHeld(v, w)'
      <3>1. tx[t] \in Txn
        BY <1>0, <2>3, TxnType DEF Check
      <3>2. tx'[t].op = tx[t].op /\ (~tx'[t].forced <=> HasRoom(w))
        BY <1>0, <2>3, <3>1 DEF TypeOK, Txn
      <3>3. SameBooks /\ (InPlan(w) => InPlan(w)')
        BY <2>3 DEF Check, tableVars, planVars, SameBooks, InPlan
      <3>4. TablesFree(w)
        <4>1. CASE tx[t].op = "tap"
          BY <2>3, <4>1 DEF Passes
        <4>2. CASE tx[t].op = "confirm"
          <5>1. tx[t].id \in AgentIds /\ rsv[tx[t].id].status = "draft"
                /\ rsv[tx[t].id].wish = w
            BY <1>0, <2>3, <4>2 DEF RowsHeld, RowHeld
          <5>2. w.tables = {}
            BY <1>0, <5>1 DEF RowsHeld, NoRow
          <5> QED  BY <5>2 DEF TablesFree
        <4> QED  BY <2>3, <4>1, <4>2
      <3>5. TablesFree(w)'
        BY <3>3, <3>4, SameSeats DEF TablesFree, InTurn
      <3>6. ~tx'[t].forced =>
               /\ WindowOf[w.slot] # NoWindow
               /\ Cardinality(Guests(InTurn(Confirmed, w.slot)))' + w.size <= MaxGuests
        BY <1>0, <3>2, <3>3, SameSeats, RoomForParty DEF HasRoom
      <3>7. tx'[t].op = "tap" => InPlan(w)'
        BY <2>3, <3>2, <3>3 DEF Passes
      <3>8. tx'[t].op = "confirm" => ~tx'[t].forced
        BY <2>3, <3>2 DEF Passes
      <3> QED  BY <2>1, <3>5, <3>6, <3>7, <3>8 DEF CheckHeld
    <2>4. ASSUME tx'[t] = Idle \/ ~tx'[t].checked PROVE CheckHeld(v, w)'
      BY <2>1, <2>4 DEF CheckHeld, Idle
    <2>5. ASSUME Check(t), ~(tx[t].op \in {"confirm", "tap"} /\ tx[t].wish = w),
                 tx' = [tx EXCEPT ![t].checked = TRUE, ![t].forced = ~HasRoom(tx[t].wish)]
          PROVE  CheckHeld(v, w)'
      <3>1. tx[t] \in Txn
        BY <1>0, <2>5, TxnType DEF Check
      <3>2. tx'[t].op = tx[t].op /\ tx'[t].wish = tx[t].wish
        BY <1>0, <2>5, <3>1 DEF TypeOK, Txn
      <3> QED  BY <2>1, <2>5, <3>2 DEF CheckHeld
    <2>6. \/ tx'[t] = Idle \/ ~tx'[t].checked
          \/ LockDay(t)
          \/ /\ Check(t) /\ Passes(tx[t])
             /\ tx' = [tx EXCEPT ![t].checked = TRUE, ![t].forced = ~HasRoom(tx[t].wish)]
      <3>1. \A op, id, x, override : tx'[t] = Begin(op, id, x, override) => ~tx'[t].checked
        BY DEF Begin
      <3> QED  BY <1>0, <1>4, <3>1, OwnStep
    <2> QED  BY <2>2, <2>3, <2>4, <2>5, <2>6
  <1>5. Around => tx' = tx
    BY AroundStays
  <1> QED  BY <1>1, <1>2, <1>3, <1>4, <1>5 DEF Next

(* ------------------------ Seats, tables, events ------------------------ *)

\* A commit overbooks no window.
LEMMA SeatsHoldStep == Inv /\ [Next]_vars => SeatsHold'
  <1> SUFFICES ASSUME Inv, [Next]_vars, NEW s \in Slots, WindowOf[s] # NoWindow
               PROVE  Cardinality(Guests(Unforced(s)))' <= MaxGuests
    BY DEF SeatsHold
  <1>0. TypeOK /\ CheckHolds /\ Cardinality(Guests(Unforced(s))) <= MaxGuests
    BY DEF Inv, SeatsHold
  <1>1. ASSUME SameBooks PROVE Cardinality(Guests(Unforced(s)))' <= MaxGuests
    BY <1>0, <1>1, SameSeats
  <1>2. ASSUME NEW t \in Txns, BookCommit(t)
        PROVE  Cardinality(Guests(Unforced(s)))' <= MaxGuests
    <2>1. CASE ~SameTurn(tx[t].wish.slot, s)
      BY <1>0, <1>2, <2>1, OtherTurns
    <2>2. CASE SameTurn(tx[t].wish.slot, s)
      <3>1. PICK w \in Wish, id \in Ids : w = tx[t].wish /\ id = tx[t].id
        BY <1>2, BookEffect
      <3>2. /\ Confirmed' = Confirmed \cup {id} /\ id \notin Confirmed
            /\ \A i \in Confirmed : rsv'[i] = rsv[i]
        BY <1>2, <3>1, BookEffect DEF Confirmed
      <3>3. rsv'[id].wish = w /\ rsv'[id].forced = tx[t].forced
        <4>1. rsv'[id] = [status |-> "confirmed", wish |-> w, forced |-> tx[t].forced]
          BY <1>2, <3>1, BookEffect
        <4> QED  BY ONLY <4>1
      <3>4. \A u : SameTurn(u, s) <=> SameTurn(u, w.slot)
        BY <2>2, <3>1, TurnsAreEqual
      <3>5. Unforced(w.slot) = Unforced(s)
        BY <3>4 DEF Unforced, InTurn
      <3>6. CASE tx[t].forced
        <4>1. Unforced(s)' = Unforced(s)
          BY <3>2, <3>3, <3>6 DEF Unforced, InTurn
        <4>2. Guests(Unforced(s))' = Guests(Unforced(s))
          BY <3>2, <4>1 DEF Guests, Unforced, InTurn
        <4> QED  BY <1>0, <4>2
      <3>7. CASE ~tx[t].forced
        <4> DEFINE Old == Guests(Unforced(s))
                   Party == {id} \X (1..w.size)
        <4>1. Cardinality(Old) + w.size <= MaxGuests
          <5>1. Cardinality(Guests(InTurn(Confirmed, w.slot))) + w.size <= MaxGuests
            BY <1>0, <1>2, <3>1, <3>7 DEF CheckHolds, CheckHeld, BookCommit
          <5>2. /\ InTurn(Confirmed, w.slot) \in SUBSET Ids
                /\ Unforced(s) \in SUBSET InTurn(Confirmed, w.slot)
            BY <3>5 DEF Unforced, InTurn, Confirmed
          <5>3. Cardinality(Old) <= Cardinality(Guests(InTurn(Confirmed, w.slot)))
            BY <5>2, FewerGuests
          <5>4. /\ Cardinality(Guests(InTurn(Confirmed, w.slot))) \in Nat
                /\ Cardinality(Old) \in Nat
            BY <5>2, GuestsFinite
          <5>5. w.size \in Nat
            BY SizesAreNat DEF Wish
          <5> QED  BY <5>1, <5>3, <5>4, <5>5, SizesAreNat
        <4>2. Unforced(s)' \subseteq Unforced(s) \cup {id}
          BY <3>2 DEF Unforced, InTurn
        <4>3. \A i \in Unforced(s) : rsv'[i] = rsv[i]
          BY <3>2 DEF Unforced, InTurn
        <4>4. w.size \in 1..MaxParty
          BY DEF Wish
        <4>5. Guests(Unforced(s))' \subseteq Old \cup Party
          BY <3>3, <4>2, <4>3, <4>4, SizesAreNat DEF Guests
        <4> HIDE DEF Old, Party
        <4>6. Unforced(s) \in SUBSET Ids
          BY DEF Unforced, InTurn, Confirmed
        <4> QED  BY <4>1, <4>5, <4>6, OneMoreParty DEF Old, Party
      <3> QED  BY <1>2, <3>6, <3>7, BookEffect DEF Txn
    <2> QED  BY <2>1, <2>2
  <1>3. UNCHANGED vars => SameBooks
    BY DEF vars, tableVars, SameBooks
  <1> QED  BY <1>0, <1>1, <1>2, <1>3, QuietStep

\* A commit gives no table away twice.
LEMMA TableOnceStep == Inv /\ [Next]_vars => TableOnce'
  <1> SUFFICES ASSUME Inv, [Next]_vars PROVE TableOnce'
    OBVIOUS
  <1>0. TypeOK /\ CheckHolds /\ TableOnce
    BY DEF Inv
  <1>1. ASSUME SameBooks PROVE TableOnce'
    BY <1>0, <1>1, SameSeats DEF TableOnce
  <1>2. ASSUME NEW t \in Txns, BookCommit(t) PROVE TableOnce'
    <2>1. PICK w \in Wish, id \in Ids : w = tx[t].wish /\ id = tx[t].id
      BY <1>2, BookEffect
    <2>2. /\ Confirmed' = Confirmed \cup {id} /\ id \notin Confirmed
          /\ \A i \in Confirmed : rsv'[i] = rsv[i]
      BY <1>2, <2>1, BookEffect DEF Confirmed
    <2>3. rsv'[id].wish = w
      <3>1. rsv'[id] = [status |-> "confirmed", wish |-> w, forced |-> tx[t].forced]
        BY <1>2, <2>1, BookEffect
      <3> QED  BY ONLY <3>1
    <2>4. \A i \in Confirmed : SameTurn(rsv[i].wish.slot, w.slot) => rsv[i].wish.tables \cap w.tables = {}
      BY <1>0, <1>2, <2>1 DEF CheckHolds, CheckHeld, BookCommit, TablesFree, InTurn
    <2>5. ASSUME NEW i \in Confirmed', NEW j \in Confirmed', i # j,
                 SameTurn(rsv'[i].wish.slot, rsv'[j].wish.slot)
          PROVE  rsv'[i].wish.tables \cap rsv'[j].wish.tables = {}
      <3>1. CASE i \in Confirmed /\ j \in Confirmed
        BY <1>0, <2>2, <2>5, <3>1 DEF TableOnce
      <3>2. CASE i \in Confirmed /\ j = id
        BY <2>2, <2>3, <2>4, <2>5, <3>2
      <3>3. CASE i = id /\ j \in Confirmed
        BY <2>2, <2>3, <2>4, <2>5, <3>3, TurnsAreEqual
      <3> QED  BY <2>2, <2>5, <3>1, <3>2, <3>3
    <2> QED  BY <2>5 DEF TableOnce
  <1>3. UNCHANGED vars => SameBooks
    BY DEF vars, tableVars, SameBooks
  <1> QED  BY <1>0, <1>1, <1>2, <1>3, QuietStep

\* A commit tells n8n of its table, once.
LEMMA OneEventStep == Inv /\ [Next]_vars => OneEvent'
  <1> SUFFICES ASSUME Inv, [Next]_vars PROVE OneEvent'
    OBVIOUS
  <1>0. TypeOK /\ OneEvent
    BY DEF Inv
  <1>1. ASSUME SameBooks, events' = events PROVE OneEvent'
    BY <1>0, <1>1 DEF OneEvent, SameBooks
  <1>2. ASSUME NEW t \in Txns, BookCommit(t) PROVE OneEvent'
    <2>1. PICK id \in Ids : id = tx[t].id
      BY <1>2, BookEffect
    <2>2. rsv'[id].status = "confirmed"
      <3>1. rsv'[id] = [status |-> "confirmed", wish |-> tx[t].wish, forced |-> tx[t].forced]
        BY <1>2, <2>1, BookEffect
      <3> QED  BY ONLY <3>1
    <2>3. events[id] = 0
      BY <1>0, <1>2, <2>1, BookEffect DEF OneEvent, Confirmed
    <2>4. events' = [events EXCEPT ![id] = 1]
      BY <1>2, <2>1, <2>3 DEF BookCommit
    <2>5. \A i \in Ids \ {id} : rsv'[i] = rsv[i]
      BY <1>2, <2>1, BookEffect
    <2> QED  BY <1>0, <2>2, <2>4, <2>5 DEF OneEvent, TypeOK
  <1>3. UNCHANGED vars => SameBooks /\ events' = events
    BY DEF vars, tableVars, SameBooks
  <1> QED  BY <1>0, <1>1, <1>2, <1>3, QuietStep

\* Every step keeps the invariant.
LEMMA InvStep == Inv /\ [Next]_vars => Inv'
  BY TypeStep, DaysHeldStep, RowsHeldStep, CheckHoldsStep, SeatsHoldStep, TableOnceStep,
     OneEventStep DEF Inv

(* ------------------------------- Theorems ------------------------------ *)

\* The inductive invariant holds whatever the threads, calls and tablets do.
THEOREM Invariance == Spec => []Inv
  BY InvInit, InvStep, PTL DEF Spec

\* Every variable has its type; no reservation has more than one event.
THEOREM Typing == Spec => []TypeOK
  <1>1. Inv => TypeOK
    BY DEF Inv
  <1> QED  BY <1>1, Invariance, PTL

\* No window holds more guests than it has seats, however many confirm at once.
THEOREM SeatsNeverOverbooked == Spec => []SeatsHold
  <1>1. Inv => SeatsHold
    BY DEF Inv
  <1> QED  BY <1>1, Invariance, PTL

\* No table goes to two parties of one turn.
THEOREM TablesGoOnce == Spec => []TableOnce
  <1>1. Inv => TableOnce
    BY DEF Inv
  <1> QED  BY <1>1, Invariance, PTL

\* n8n hears once of every confirmed table and of nothing else.
THEOREM EventsGoOnce == Spec => []OneEvent
  <1>1. Inv => OneEvent
    BY DEF Inv
  <1> QED  BY <1>1, Invariance, PTL

\* Once reservations are off, no yes on the phone books any more.
THEOREM OffIsOff == Spec => OffMeansOff
  <1>1. Inv /\ [Next]_vars => [\A id \in AgentIds : Books(id) => enabled]_vars
    <2> SUFFICES ASSUME Inv, [Next]_vars, NEW id \in AgentIds, Books(id) PROVE enabled
      OBVIOUS
    <2>1. TypeOK /\ RowsHeld /\ id \in Ids
      BY DEF Inv, Ids
    <2>2. ~SameBooks
      BY <2>1 DEF SameBooks, Books
    <2>3. PICK t \in Txns : BookCommit(t)
      BY <2>1, <2>2, QuietStep DEF SameBooks, vars, tableVars
    <2>4. tx[t].id = id
      BY <2>3, <2>1, BookEffect DEF Books
    <2>5. tx[t].op = "confirm"
      BY <2>1, <2>3, <2>4, IdsAndNames DEF BookCommit, RowsHeld, RowHeld
    <2> QED  BY <2>1, <2>5 DEF RowsHeld, RowHeld
  <1> QED  BY <1>1, Invariance, PTL DEF Spec, OffMeansOff

\* A party is booked onto tables that are in the plan at that moment.
THEOREM BookedTablesAreInPlan == Spec => BookedTablesExist
  <1>1. Inv /\ [Next]_vars => [\A id \in TabletIds : Books(id) => InPlan(rsv[id].wish)]_vars
    <2> SUFFICES ASSUME Inv, [Next]_vars, NEW id \in TabletIds, Books(id)
                 PROVE  InPlan(rsv[id].wish)
      OBVIOUS
    <2>1. TypeOK /\ RowsHeld /\ CheckHolds /\ id \in Ids
      BY DEF Inv, Ids
    <2>2. ~SameBooks
      BY <2>1 DEF SameBooks, Books
    <2>3. PICK t \in Txns : BookCommit(t)
      BY <2>1, <2>2, QuietStep DEF SameBooks, vars, tableVars
    <2>4. tx[t].id = id
      BY <2>3, <2>1, BookEffect DEF Books
    <2>5. tx[t].op = "tap" /\ tx[t].checked
      BY <2>1, <2>3, <2>4, IdsAndNames DEF BookCommit, RowsHeld, RowHeld
    <2>6. PICK w \in Wish : w = tx[t].wish
      BY <2>3, BookEffect
    <2>7. rsv[id].wish = w
      BY <2>1, <2>4, <2>5, <2>6 DEF RowsHeld, RowHeld
    <2> QED  BY <2>1, <2>5, <2>6, <2>7 DEF CheckHolds, CheckHeld
  <1> QED  BY <1>1, Invariance, PTL DEF Spec, BookedTablesExist

(* ------------------------- What drafts may hold ------------------------ *)

\* Nobody comes into the turn of s, as a draft that holds seats or as a booking.
QuietTurn(s) ==
    /\ InTurn(Confirmed, s)' = InTurn(Confirmed, s)
    /\ InTurn(LiveDrafts, s)' \subseteq InTurn(LiveDrafts, s)
    /\ \A id \in InTurn(Holding, s)' : rsv'[id] = rsv[id]

\* A step that changes one row at most brings only that one into a turn.
LEMMA OneRow ==
    ASSUME NEW i \in Ids, NEW s, \A id \in Ids \ {i} : rsv'[id] = rsv[id],
           ended \subseteq ended', outlived \subseteq outlived'
    PROVE  /\ InTurn(Confirmed, s)' \ {i} = InTurn(Confirmed, s) \ {i}
           /\ InTurn(LiveDrafts, s)' \ {i} \subseteq InTurn(LiveDrafts, s) \ {i}
           /\ \A id \in InTurn(Holding, s)' \ {i} : rsv'[id] = rsv[id]
  BY DEF InTurn, Confirmed, LiveDrafts, Holding

\* Only a commit in the turn, of a draft or of a booking, brings somebody in.
LEMMA TurnsAreQuiet ==
    ASSUME Inv, [Next]_vars, NEW s \in Slots,
           \A t \in Txns : CreateCommit(t) \/ BookCommit(t) => ~SameTurn(tx[t].wish.slot, s)
    PROVE  QuietTurn(s)
  <1>0. TypeOK
    BY DEF Inv
  <1>1. ASSUME rsv' = rsv, ended \subseteq ended', outlived \subseteq outlived' PROVE QuietTurn(s)
    BY <1>1 DEF QuietTurn, InTurn, Confirmed, LiveDrafts, Holding
  <1>2. ASSUME NEW i \in Ids, NEW r, rsv' = [rsv EXCEPT ![i] = r],
               ended' = ended, outlived' = outlived,
               i \notin InTurn(Confirmed, s), i \notin InTurn(Holding, s)'
        PROVE  QuietTurn(s)
    <2>1. \A id \in Ids \ {i} : rsv'[id] = rsv[id]
      BY <1>0, <1>2 DEF TypeOK
    <2>2. i \notin InTurn(Confirmed, s)' /\ i \notin InTurn(LiveDrafts, s)'
      BY <1>2 DEF Holding, InTurn
    <2> QED  BY <1>2, <2>1, <2>2, OneRow DEF QuietTurn
  <1>3. ASSUME NEW t \in Txns, CreateCommit(t) PROVE QuietTurn(s)
    <2>1. CASE UNCHANGED rsv
      BY <1>1, <1>3, <2>1 DEF CreateCommit, callVars
    <2>2. CASE ~UNCHANGED rsv
      <3> DEFINE r == [status |-> "draft", wish |-> tx[t].wish, forced |-> FALSE]
      <3>1. rsv[tx[t].id] = NoRow /\ rsv' = [rsv EXCEPT ![tx[t].id] = r]
        BY <1>3, <2>2 DEF CreateCommit
      <3>2. tx[t].id \in Ids
        BY <1>0, <1>3, TxnType DEF CreateCommit
      <3>3. rsv'[tx[t].id] = r /\ r.wish = tx[t].wish
        BY <1>0, <3>1, <3>2 DEF TypeOK
      <3>4. tx[t].id \notin InTurn(Confirmed, s)
        BY <3>1 DEF InTurn, Confirmed, NoRow
      <3>5. tx[t].id \notin InTurn(Holding, s)'
        BY <1>3, <3>3 DEF InTurn
      <3> QED  BY <1>2, <1>3, <3>1, <3>2, <3>4, <3>5 DEF CreateCommit, callVars
    <2> QED  BY <2>1, <2>2
  <1>4. ASSUME NEW t \in Txns, BookCommit(t) PROVE QuietTurn(s)
    <2> DEFINE r == [status |-> "confirmed", wish |-> tx[t].wish, forced |-> tx[t].forced]
    <2>1. /\ tx[t].id \in Ids \ Confirmed
          /\ rsv' = [rsv EXCEPT ![tx[t].id] = r] /\ rsv'[tx[t].id] = r
      BY <1>4, BookEffect
    <2>2. r.wish = tx[t].wish
      OBVIOUS
    <2>3. tx[t].id \notin InTurn(Holding, s)'
      BY <1>4, <2>1, <2>2 DEF InTurn
    <2> QED  BY <1>2, <1>4, <2>1, <2>3 DEF BookCommit, callVars, InTurn
  <1>5. ASSUME NEW i \in TabletIds, NEW w \in Wish, TabletCreate(i, w) PROVE QuietTurn(s)
    <2> DEFINE r == [status |-> "draft", wish |-> w, forced |-> FALSE]
    <2>1. rsv[i] = NoRow /\ rsv' = [rsv EXCEPT ![i] = r] /\ i \in Ids /\ w.call = NoCall
      BY <1>5 DEF TabletCreate, Ids
    <2>2. rsv'[i] = r /\ r.wish = w /\ r.status = "draft"
      BY <1>0, <2>1 DEF TypeOK
    <2>3. i \notin InTurn(Confirmed, s)
      BY <2>1 DEF InTurn, Confirmed, NoRow
    <2>4. i \notin Confirmed' /\ i \notin LiveDrafts'
      BY <2>1, <2>2, IdsAndNames DEF Confirmed, LiveDrafts
    <2> QED  BY <1>2, <1>5, <2>1, <2>3, <2>4 DEF TabletCreate, callVars, Holding, InTurn
  <1>6. ASSUME NEW t \in Txns, TxnNext(t), ~CreateCommit(t), ~BookCommit(t)
        PROVE  rsv' = rsv /\ UNCHANGED callVars
    BY <1>6 DEF TxnNext, CreateBegin, ConfirmBegin, TapBegin, LockDay, Check, GiveUp, tableVars
  <1>7. ASSUME Around, ~(\E i \in TabletIds, w \in Wish : TabletCreate(i, w))
        PROVE  rsv' = rsv /\ ended \subseteq ended' /\ outlived \subseteq outlived'
    BY <1>7 DEF Around, EndCall, Outlive, SetReservations, SavePlan, tableVars, callVars
  <1>8. CASE UNCHANGED vars
    BY <1>1, <1>8 DEF vars, tableVars, callVars
  <1> QED  BY <1>1, <1>3, <1>4, <1>5, <1>6, <1>7, <1>8 DEF Next, callVars

\* Then whoever found room there still does.
LEMMA RoomStays ==
    ASSUME NEW w \in Wish, QuietTurn(w.slot), HasRoom(w)
    PROVE  HasRoom(w)'
  <1>1. Counted(w)' \subseteq Counted(w) /\ \A id \in Counted(w)' : rsv'[id] = rsv[id]
    BY DEF QuietTurn, Counted, InTurn, Holding
  <1>2. Guests(Counted(w)') = Guests(Counted(w)')
    OBVIOUS
  <1>3. Counted(w) \in SUBSET Ids /\ Counted(w)' \in SUBSET Counted(w)
    BY <1>1 DEF Counted, InTurn, Confirmed, LiveDrafts
  <1>4. Guests(Counted(w))' \subseteq Guests(Counted(w))
    BY <1>1 DEF Guests
  <1>5. Cardinality(Guests(Counted(w)))' <= Cardinality(Guests(Counted(w)))
    BY <1>3, <1>4, GuestsFinite, FS_Subset
  <1>6. /\ Cardinality(Guests(Counted(w)))' \in Nat
        /\ Cardinality(Guests(Counted(w))) \in Nat /\ w.size \in Nat
    BY <1>3, <1>4, GuestsFinite, FS_Subset, FS_CardinalityType, SizesAreNat DEF Wish
  <1> QED  BY <1>5, <1>6, SizesAreNat DEF HasRoom

\* What is found in the book by a commit in the turn of s: one more row, its own.
LEMMA CommitRow ==
    ASSUME Inv, NEW t \in Txns, CreateCommit(t) \/ BookCommit(t)
    PROVE  /\ tx[t] \in Txn /\ tx[t] # Idle /\ tx[t].checked
           /\ tx[t].wish \in Wish /\ tx[t].id \in Ids
           /\ \A id \in Ids \ {tx[t].id} : rsv'[id] = rsv[id]
           /\ \/ rsv' = rsv
              \/ /\ rsv'[tx[t].id].wish = tx[t].wish
                 /\ tx[t].op = "create" => rsv'[tx[t].id].status = "draft"
                 /\ tx[t].op # "create" => /\ rsv'[tx[t].id].status = "confirmed"
                                           /\ rsv'[tx[t].id].forced = tx[t].forced
           /\ ended' = ended /\ outlived' = outlived
           /\ tx'[t] = Idle
  <1>0. TypeOK
    BY DEF Inv
  <1>1. tx[t] \in Txn /\ tx[t] # Idle /\ tx[t].checked /\ tx[t].wish \in Wish /\ tx[t].id \in Ids
    BY <1>0, TxnType DEF CreateCommit, BookCommit
  <1>2. /\ \A id \in Ids \ {tx[t].id} : rsv'[id] = rsv[id]
        /\ \/ rsv' = rsv
           \/ /\ rsv'[tx[t].id].wish = tx[t].wish
              /\ tx[t].op = "create" => rsv'[tx[t].id].status = "draft"
              /\ tx[t].op # "create" => /\ rsv'[tx[t].id].status = "confirmed"
                                        /\ rsv'[tx[t].id].forced = tx[t].forced
    BY <1>0, <1>1 DEF TypeOK, CreateCommit, BookCommit
  <1>3. ended' = ended /\ outlived' = outlived /\ tx'[t] = Idle
    BY <1>0 DEF TypeOK, CreateCommit, BookCommit, Release, callVars
  <1> QED  BY <1>1, <1>2, <1>3

\* The room a check found is there until the commit, since the days are held.
LEMMA RoomHeldStep ==
    ASSUME Inv, [Next]_vars, NEW v \in Txns, RoomHeld(v)
    PROVE  RoomHeld(v)'
  <1>0. TypeOK /\ DaysHeld
    BY DEF Inv
  <1>1. ASSUME tx'[v] = tx[v], tx[v] # Idle, tx[v].checked PROVE RoomHeld(v)'
    <2>1. PICK w \in Wish : w = tx[v].wish /\ w.slot \in Slots
      BY <1>0, <1>1, TxnType
    <2>2. ASSUME NEW t \in Txns, CreateCommit(t) \/ BookCommit(t)
          PROVE  ~SameTurn(tx[t].wish.slot, w.slot)
      <3>1. tx'[t] = Idle /\ tx[t] # Idle /\ tx[t].checked
        BY <2>2, CommitRow
      <3>2. t # v
        BY <1>1, <3>1
      <3> QED  BY <1>0, <1>1, <2>1, <3>1, <3>2, OneChecked
    <2>3. QuietTurn(w.slot)
      BY <2>1, <2>2, TurnsAreQuiet
    <2> QED  BY <1>1, <2>1, <2>3, RoomStays DEF RoomHeld
  <1>2. ASSUME tx'[v] = Idle \/ ~tx'[v].checked PROVE RoomHeld(v)'
    BY <1>2 DEF RoomHeld
  <1>3. ASSUME Check(v), Passes(tx[v]),
               tx' = [tx EXCEPT ![v].checked = TRUE, ![v].forced = ~HasRoom(tx[v].wish)]
        PROVE  RoomHeld(v)'
    <2>1. tx[v] \in Txn
      BY <1>0, <1>3, TxnType DEF Check
    <2>2. /\ tx'[v].op = tx[v].op /\ tx'[v].wish = tx[v].wish
          /\ tx'[v].forced = ~HasRoom(tx[v].wish)
      BY <1>0, <1>3, <2>1 DEF TypeOK, Txn
    <2>3. tx[v].op = "tap" \/ HasRoom(tx[v].wish)
      BY <1>3 DEF Passes
    <2>4. PICK w : w = tx[v].wish
      OBVIOUS
    <2>5. UNCHANGED <<rsv, ended, outlived>>
      BY <1>3 DEF Check, tableVars, callVars
    <2>6. HasRoom(w) => HasRoom(w)'
      BY <2>5 DEF HasRoom, Guests, Counted, InTurn, Confirmed, LiveDrafts
    <2> QED  BY <2>2, <2>3, <2>4, <2>6 DEF RoomHeld
  <1>4. ASSUME NEW t \in Txns, TxnNext(t), tx'[v] # tx[v] PROVE RoomHeld(v)'
    <2>1. v = t
      BY <1>0, <1>4, OthersStay DEF Leaves
    <2>2. ASSUME LockDay(v) PROVE ~tx'[v].checked
      <3>1. tx[v] \in Txn /\ \E d \in tx[v].days : tx' = [tx EXCEPT ![v].days = @ \ {d}]
        BY <1>0, <2>2, TxnType DEF LockDay
      <3>2. tx[v].days # {} /\ tx'[v].checked = tx[v].checked
        BY <1>0, <3>1 DEF TypeOK, Txn
      <3> QED  BY <1>0, <2>2, <3>2 DEF DaysHeld, LockDay
    <2>3. \A op, id, x, override : tx'[v] = Begin(op, id, x, override) => ~tx'[v].checked
      BY DEF Begin
    <2>4. \/ tx'[v] = Idle \/ ~tx'[v].checked
          \/ LockDay(v)
          \/ /\ Check(v) /\ Passes(tx[v])
             /\ tx' = [tx EXCEPT ![v].checked = TRUE, ![v].forced = ~HasRoom(tx[v].wish)]
      <3>1. TxnNext(v)
        BY <1>4, <2>1
      <3> QED  BY <1>0, <2>3, <3>1, OwnStep
    <2> QED  BY <1>2, <1>3, <2>2, <2>4
  <1>5. Around \/ UNCHANGED vars => tx' = tx
    BY AroundStays DEF vars
  <1> QED  BY <1>1, <1>2, <1>4, <1>5 DEF Next

\* No step lets one wish of each call outgrow the window.
LEMMA HeldTogetherStep ==
    ASSUME Inv, SeatsHeld, [Next]_vars
    PROVE  HeldTogether'
  <1> SUFFICES ASSUME NEW s \in Slots, WindowOf[s] # NoWindow,
                      NEW S \in SUBSET InTurn(Holding, s)', Apart(S)'
               PROVE  Cardinality(Guests(S))' <= MaxGuests
    BY DEF HeldTogether
  <1>0. TypeOK
    BY DEF Inv
  <1>1. ASSUME S \subseteq InTurn(Holding, s), \A id \in S : rsv'[id] = rsv[id],
               S \cap Confirmed \subseteq Confirmed'
        PROVE  Cardinality(Guests(S))' <= MaxGuests
    <2>1. Apart(S) /\ Guests(S)' = Guests(S)
      BY <1>1 DEF Apart, Guests
    <2> QED  BY <1>1, <2>1 DEF SeatsHeld, HeldTogether
  <1>2. ASSUME QuietTurn(s) PROVE Cardinality(Guests(S))' <= MaxGuests
    BY <1>1, <1>2 DEF QuietTurn, InTurn, Holding, Confirmed
  <1>3. ASSUME NEW t \in Txns, CreateCommit(t) \/ BookCommit(t), SameTurn(tx[t].wish.slot, s)
        PROVE  Cardinality(Guests(S))' <= MaxGuests
    <2>1. PICK w \in Wish, id \in Ids : w = tx[t].wish /\ id = tx[t].id
      BY <1>3, CommitRow
    <2>2. /\ \A i \in Ids \ {id} : rsv'[i] = rsv[i]
          /\ ended' = ended /\ outlived' = outlived
      BY <1>3, <2>1, CommitRow
    <2>3. S \ {id} \subseteq InTurn(Holding, s) /\ S \in SUBSET Ids
      BY <2>2 DEF InTurn, Holding, Confirmed, LiveDrafts
    <2>4. CASE rsv' = rsv \/ id \notin S
      <3>1. S \subseteq InTurn(Holding, s) /\ \A i \in S : rsv'[i] = rsv[i]
        BY <2>2, <2>3, <2>4 DEF InTurn, Holding, Confirmed, LiveDrafts
      <3>2. S \cap Confirmed \subseteq Confirmed'
        BY <3>1 DEF Confirmed
      <3> QED  BY <1>1, <3>1, <3>2
    <2>5. CASE rsv' # rsv /\ id \in S
      <3>1. /\ rsv'[id].wish = w
            /\ tx[t].op # "create" => id \in Confirmed' /\ rsv'[id].forced = tx[t].forced
        BY <1>3, <2>1, <2>5, CommitRow DEF Confirmed
      <3>2. tx[t].op = "tap" => ~tx[t].forced
        BY <2>5, <3>1 DEF Apart
      <3>3. HasRoom(w)
        BY <1>3, <2>1, <3>2, CommitRow DEF SeatsHeld, RoomHeld
      <3>4. S \ {id} \subseteq Counted(w)
        <4> SUFFICES ASSUME NEW i \in S, i # id PROVE i \in Counted(w)
          OBVIOUS
        <4>1. i \in InTurn(Holding, s) /\ rsv'[i] = rsv[i]
          BY <2>2, <2>3
        <4>2. SameTurn(rsv[i].wish.slot, w.slot)
          BY <1>3, <2>1, <4>1, TurnsAreEqual DEF InTurn
        <4>3. i \in LiveDrafts => rsv[i].wish.call # w.call
          <5>1. i \in LiveDrafts => rsv[i].wish.call # NoCall
            BY IdsAndNames DEF LiveDrafts
          <5> QED  BY <2>5, <3>1, <4>1, <5>1 DEF Apart
        <4> QED  BY <4>1, <4>2, <4>3 DEF Counted, InTurn, Holding
      <3>5. Guests(S)' \subseteq Guests(Counted(w)) \cup ({id} \X (1..w.size))
        <4>1. \A i \in S \ {id} : rsv'[i] = rsv[i]
          BY <2>2, <2>3
        <4>2. w.size \in 1..MaxParty
          BY DEF Wish
        <4> QED  BY <3>1, <3>4, <4>1, <4>2, SizesAreNat DEF Guests
      <3>6. Counted(w) \in SUBSET Ids
        BY DEF Counted, InTurn, Confirmed, LiveDrafts
      <3> QED  BY <3>3, <3>5, <3>6, OneMoreParty DEF HasRoom
    <2> QED  BY <2>4, <2>5
  <1> QED  BY <1>2, <1>3, TurnsAreQuiet

\* A wish the agent takes down lies in a window, since it has passed the check.
LEMMA InWindowsStep ==
    ASSUME Inv, SeatsHeld, [Next]_vars
    PROVE  InWindows'
  <1> SUFFICES ASSUME NEW id \in Ids, rsv'[id] # NoRow, rsv'[id].wish.call \in Calls
               PROVE  WindowOf[rsv'[id].wish.slot] # NoWindow
    BY DEF InWindows
  <1>0. TypeOK /\ RowsHeld
    BY DEF Inv
  <1>1. CASE rsv'[id] = rsv[id]
    BY <1>1 DEF SeatsHeld, InWindows
  <1>2. ASSUME NEW t \in Txns, CreateCommit(t) \/ BookCommit(t), rsv'[id] # rsv[id]
        PROVE  WindowOf[rsv'[id].wish.slot] # NoWindow
    <2>1. /\ tx[t] # Idle /\ tx[t].checked /\ tx[t].id = id
          /\ rsv'[id].wish = tx[t].wish
      BY <1>0, <1>2, CommitRow
    <2>2. CASE tx[t].op = "create"
      <3>1. HasRoom(tx[t].wish)
        BY <2>1, <2>2 DEF SeatsHeld, RoomHeld
      <3> QED  BY <2>1, <3>1 DEF HasRoom
    <2>3. CASE tx[t].op \in {"confirm", "tap"}
      <3>1. rsv[id].status = "draft" /\ rsv[id].wish = tx[t].wish
        BY <1>0, <2>1, <2>3 DEF RowsHeld, RowHeld
      <3> QED  BY <2>1, <3>1 DEF SeatsHeld, InWindows, NoRow
    <2> QED  BY <1>0, <2>1, <2>2, <2>3, TxnType
  <1>3. ASSUME NEW i \in TabletIds, NEW w \in Wish, TabletCreate(i, w) PROVE rsv'[id] = rsv[id]
    <2>1. i # id => rsv'[id] = rsv[id]
      BY <1>0, <1>3 DEF TypeOK, TabletCreate
    <2>2. i = id => rsv'[id].wish = w /\ w.call \notin Calls
      BY <1>0, <1>3, IdsAndNames DEF TypeOK, TabletCreate
    <2> QED  BY <2>1, <2>2
  <1>4. ASSUME NEW t \in Txns, TxnNext(t), ~CreateCommit(t), ~BookCommit(t) PROVE rsv' = rsv
    BY <1>4 DEF TxnNext, CreateBegin, ConfirmBegin, TapBegin, LockDay, Check, GiveUp, tableVars
  <1>5. CASE UNCHANGED vars
    BY <1>1, <1>5 DEF vars, tableVars
  <1>6. CASE Around
    BY <1>1, <1>3, <1>6
       DEF Around, EndCall, Outlive, SetReservations, SavePlan, tableVars
  <1> QED  BY <1>1, <1>2, <1>4, <1>5, <1>6 DEF Next

\* If all that is beside a promised wish fits with it, then so does any wish of the
\* same call for as many seats of the window.
LEMMA PromiseIsKept ==
    ASSUME TypeOK, HeldTogether, InWindows,
           NEW id \in LiveDrafts, NEW w \in Wish,
           w.call = rsv[id].wish.call, SameTurn(w.slot, rsv[id].wish.slot),
           w.size <= rsv[id].wish.size, Apart(Beside(rsv[id].wish) \cup {id})
    PROVE  HasRoom(w)
  <1> DEFINE held == rsv[id].wish
             Old  == Guests(Beside(held))
             Own  == {id} \X (1..held.size)
  <1>1. /\ id \in Ids /\ rsv[id].status = "draft" /\ id \notin Confirmed
        /\ held \in Wish /\ held.call \in Calls
    BY RowType DEF LiveDrafts, Confirmed
  <1>2. held.slot \in Slots /\ held.size \in 1..MaxParty /\ w.size \in Nat
    BY <1>1, SizesAreNat DEF Wish
  <1>3. WindowOf[held.slot] # NoWindow /\ WindowOf[w.slot] # NoWindow
    <2>1. rsv[id] # NoRow
      BY <1>1 DEF NoRow
    <2> QED  BY <1>1, <2>1 DEF InWindows, SameTurn
  <1>4. Counted(w) = Beside(held) /\ Beside(held) \in SUBSET Ids
    BY TurnsAreEqual DEF Counted, Beside, InTurn, Holding, Confirmed, LiveDrafts
  <1>5. Cardinality(Guests(Beside(held) \cup {id})) <= MaxGuests
    <2>1. Beside(held) \cup {id} \subseteq InTurn(Holding, held.slot)
      BY TurnsAreEqual DEF Beside, InTurn, Holding
    <2> QED  BY <1>2, <1>3, <2>1 DEF HeldTogether
  <1>6. Guests(Beside(held) \cup {id}) = Old \cup Own
    BY <1>2, SizesAreNat DEF Guests
  <1>7. Old \cap Own = {}
    BY <1>1 DEF Guests, Beside
  <1>8. /\ IsFiniteSet(Old) /\ Cardinality(Old) \in Nat
        /\ IsFiniteSet(Own) /\ Cardinality(Own) = held.size
    BY <1>2, <1>4, GuestsFinite, PartyGuests
  <1> HIDE DEF Old, Own
  <1>9. Cardinality(Old \cup Own) = Cardinality(Old) + held.size
    <2>1. Cardinality(Old \cup Own)
            = Cardinality(Old) + Cardinality(Own) - Cardinality(Old \cap Own)
      BY <1>8, FS_Union
    <2>2. Cardinality(Old \cap Own) = 0
      BY <1>7, FS_EmptySet
    <2> QED  BY <1>2, <1>8, <2>1, <2>2, SizesAreNat
  <1>10. Cardinality(Old) + w.size <= MaxGuests
    <2>1. Cardinality(Old) + held.size <= MaxGuests /\ w.size <= held.size
      BY <1>5, <1>6, <1>9
    <2> QED  BY <1>2, <1>8, <2>1, SizesAreNat
  <1> QED  BY <1>3, <1>4, <1>10 DEF HasRoom, Old

\* A guest on the line finds the seats of its draft, at the yes and for a corrected
\* wish, while everybody has one wish in the window and the team overrode nothing
\* (booked_guests).
THEOREM HeldSeatsAreThere == Spec => []HeldSeatsFit
  <1>1. Init => SeatsHeld
    <2> SUFFICES ASSUME Init PROVE SeatsHeld
      OBVIOUS
    <2>1. \A t \in Txns : tx[t] = Idle
      BY DEF Init
    <2>2. ASSUME NEW s \in Slots, NEW S \in SUBSET InTurn(Holding, s)
          PROVE  Cardinality(Guests(S)) <= MaxGuests
      <3>1. S = {}
        BY DEF Init, NoRow, InTurn, Holding, Confirmed, LiveDrafts
      <3>2. Guests(S) = {}
        BY <3>1 DEF Guests
      <3> QED  BY <3>2, FS_EmptySet, SizesAreNat
    <2>3. InWindows
      BY DEF Init, InWindows, Ids
    <2> QED  BY <2>1, <2>2, <2>3 DEF SeatsHeld, HeldTogether, RoomHeld
  <1>2. Inv /\ SeatsHeld /\ [Next]_vars => SeatsHeld'
    BY HeldTogetherStep, InWindowsStep, RoomHeldStep DEF SeatsHeld
  <1>3. Inv /\ SeatsHeld => HeldSeatsFit
    BY PromiseIsKept DEF Inv, SeatsHeld, HeldSeatsFit
  <1> QED  BY <1>1, <1>2, <1>3, Invariance, PTL DEF Spec

(* ------------------------ One booking at a time ------------------------ *)

\* The book counts as the reservations do.
LEMMA BookCounts == \A S : Book!Cardinality(S) = Cardinality(S)
  BY DEF Cardinality, Book!Cardinality

\* A booking is not the absence of one.
LEMMA BookingIsOne ==
    ASSUME NEW id
    PROVE  Booking(id) # NoBooking /\ Booking(id)' # NoBooking
  <1>1. "size" \in DOMAIN Booking(id) /\ "size" \in DOMAIN Booking(id)'
    BY DEF Booking
  <1>2. "size" \notin DOMAIN NoBooking
    BY DEF NoBooking
  <1> QED  BY ONLY <1>1, <1>2

\* What the book holds of a turn is what is confirmed in it.
LEMMA BookIsConfirmed ==
    ASSUME NEW s
    PROVE  /\ Book!Taken(s) = InTurn(Confirmed, s)
           /\ Book!Guests(s) = Guests(InTurn(Confirmed, s))
           /\ \A id \in InTurn(Confirmed, s) : Booked[id] = Booking(id)
  <1>1. \A id \in Ids : Booked[id] = IF id \in Confirmed THEN Booking(id) ELSE NoBooking
    BY DEF Booked
  <1>2. \A id \in InTurn(Confirmed, s) : id \in Confirmed /\ id \in Ids
    BY DEF InTurn, Confirmed
  <1>3. \A id \in InTurn(Confirmed, s) : Booked[id] = Booking(id)
    BY <1>1, <1>2
  <1>4. ASSUME NEW id \in Ids
        PROVE  id \in Book!Taken(s) <=> id \in InTurn(Confirmed, s)
    <2>1. CASE id \in Confirmed
      <3>1. Booked[id] # NoBooking /\ Booked[id].slot = rsv[id].wish.slot
        <4>1. Booked[id] = Booking(id)
          BY <1>1, <2>1
        <4>2. Booking(id).slot = rsv[id].wish.slot
          BY DEF Booking
        <4> QED  BY <4>1, <4>2, BookingIsOne
      <3> QED  BY <2>1, <3>1 DEF Book!Taken, Book!SameTurn, Book!NoBooking, Book!Ids, Ids,
                                 NoBooking, InTurn, SameTurn
    <2>2. CASE id \notin Confirmed
      BY <1>1, <2>2 DEF Book!Taken, Book!NoBooking, NoBooking, InTurn
    <2> QED  BY <2>1, <2>2
  <1>5. Book!Taken(s) = InTurn(Confirmed, s)
    <2>1. Book!Taken(s) \subseteq Ids /\ InTurn(Confirmed, s) \subseteq Ids
      BY DEF Book!Taken, Book!Ids, Ids, InTurn, Confirmed
    <2> QED  BY <1>4, <2>1
  <1>6. \A id \in InTurn(Confirmed, s) : Booked[id].size = rsv[id].wish.size
    <2>1. \A id \in Ids : Booking(id).size = rsv[id].wish.size
      BY DEF Booking
    <2> QED  BY <1>2, <1>3, <2>1
  <1>7. Book!Guests(s) = Guests(InTurn(Confirmed, s))
    BY <1>5, <1>6 DEF Book!Guests, Guests
  <1> QED  BY <1>3, <1>5, <1>7

\* Who books nobody leaves the book as it is.
LEMMA BookStays ==
    ASSUME SameBooks
    PROVE  Booked' = Booked
  <1>1. Confirmed' = Confirmed /\ \A id \in Confirmed : rsv'[id] = rsv[id]
    BY SameSeats
  <1>2. \A id \in Confirmed : Booking(id)' = Booking(id)
    BY <1>1 DEF Booking
  <1> QED  BY <1>1, <1>2 DEF Booked, NoBooking

\* An empty restaurant is an empty book.
LEMMA BookInit == Init => Book!Init
  <1> SUFFICES ASSUME Init PROVE Book!Init
    OBVIOUS
  <1>1. Confirmed = {}
    BY DEF Init, Confirmed, NoRow
  <1>2. Booked = [id \in Ids |-> NoBooking]
    BY <1>1 DEF Booked
  <1>3. pairs \in SUBSET {p \in SUBSET plan : Book!Cardinality(p) = 2}
    <2>1. \A p \in pairs : p \in SUBSET plan /\ Book!Cardinality(p) = 2
      BY IdsAndNames, BookCounts DEF Init
    <2> QED  BY <2>1
  <1> QED  BY <1>2, <1>3 DEF Init, Book!Init, Book!Ids, Book!NoBooking, Ids, NoBooking

\* A commit is one booking by the agent or by the team, against the book as it stands.
LEMMA CommitBooks ==
    ASSUME Inv, NEW t \in Txns, BookCommit(t)
    PROVE  \/ \E id \in AgentIds : Book!BookByAgent(id)
           \/ \E id \in TabletIds : Book!BookByTeam(id)
  <1>0. TypeOK /\ RowsHeld /\ CheckHolds
    BY DEF Inv
  <1>1. PICK w \in Wish, id \in Ids : w = tx[t].wish /\ id = tx[t].id
    BY BookEffect
  <1> DEFINE b == [slot |-> w.slot, size |-> w.size, tables |-> w.tables]
  <1>2. /\ id \notin Confirmed /\ Confirmed' = Confirmed \cup {id}
        /\ \A i \in Ids \ {id} : rsv'[i] = rsv[i]
    BY <1>1, BookEffect
  <1>3. rsv'[id].wish = w
    <2>1. rsv'[id] = [status |-> "confirmed", wish |-> w, forced |-> tx[t].forced]
      BY <1>1, BookEffect
    <2> QED  BY ONLY <2>1
  <1>4. b.slot = w.slot /\ b.size = w.size /\ b.tables = w.tables
    OBVIOUS
  <1>5. Booking(id)' = b
    BY <1>3 DEF Booking
  <1>6. Booked' = [Booked EXCEPT ![id] = b] /\ Booked'[id] = b /\ Booked[id] = NoBooking
    <2>1. \A i \in Ids \ {id} : Booking(i)' = Booking(i)
      BY <1>2 DEF Booking
    <2> HIDE DEF b
    <2>2. /\ Booked = [i \in Ids |-> IF i \in Confirmed THEN Booking(i) ELSE NoBooking]
          /\ Booked' = [i \in Ids |-> IF i \in Confirmed' THEN Booking(i)' ELSE NoBooking]
      BY DEF Booked, NoBooking
    <2>3. Booked'[id] = b /\ Booked[id] = NoBooking
      BY <1>2, <1>5, <2>2
    <2>4. \A i \in Ids \ {id} : Booked'[i] = Booked[i]
      BY <1>2, <2>1, <2>2
    <2> QED  BY <2>2, <2>3, <2>4
  <1>7. b \in Book!Booking
    <2>1. w.slot \in Slots /\ w.size \in 1..MaxParty /\ w.tables \in SUBSET Tables
      BY IdsAndNames DEF Wish
    <2> QED  BY <2>1 DEF Book!Booking
  <1> HIDE DEF b
  <1>8. UNCHANGED <<enabled, plan, pairs>>
    BY DEF BookCommit, planVars
  <1>9. Book!Book(id)
    BY <1>6, <1>7, <1>8 DEF Book!Book, Book!NoBooking, NoBooking
  <1>10. CheckHeld(t, w) /\ RowHeld(t) /\ tx[t].checked
    BY <1>0 DEF CheckHolds, RowsHeld, BookCommit
  <1>11. CASE tx[t].op = "confirm"
    <2>1. id \in AgentIds /\ enabled /\ w.tables = {}
      BY <1>0, <1>1, <1>10, <1>11 DEF RowHeld, RowsHeld, NoRow
    <2>2. /\ WindowOf[w.slot] # NoWindow
          /\ Cardinality(Guests(InTurn(Confirmed, w.slot))) + w.size <= MaxGuests
      BY <1>1, <1>10, <1>11 DEF CheckHeld
    <2>3. Book!HasRoom(b)
      <3>1. Book!Guests(w.slot) = Guests(InTurn(Confirmed, w.slot))
        BY BookIsConfirmed
      <3>2. Book!Guests(b.slot) = Guests(InTurn(Confirmed, w.slot))
        BY <1>4, <3>1
      <3> QED  BY <1>4, <2>2, <3>2, BookCounts DEF Book!HasRoom
    <2> QED  BY <1>4, <1>6, <1>9, <2>1, <2>3 DEF Book!BookByAgent
  <1>12. CASE tx[t].op = "tap"
    <2>1. id \in TabletIds /\ InPlan(w) /\ TablesFree(w)
      BY <1>1, <1>10, <1>12 DEF RowHeld, CheckHeld
    <2>2. \A other \in Book!Taken(b.slot) : Booked[other].tables \cap b.tables = {}
      <3>1. ASSUME NEW other \in InTurn(Confirmed, w.slot)
            PROVE  Booked[other].tables \cap w.tables = {}
        <4>1. Booked[other] = Booking(other)
          BY BookIsConfirmed
        <4>2. Booked[other].tables = rsv[other].wish.tables
          BY <4>1 DEF Booking
        <4> QED  BY <2>1, <4>2 DEF TablesFree
      <3>2. Book!Taken(w.slot) = InTurn(Confirmed, w.slot)
        BY BookIsConfirmed
      <3>3. Book!Taken(b.slot) = InTurn(Confirmed, w.slot)
        BY <1>4, <3>2
      <3> QED  BY <1>4, <3>1, <3>3
    <2> QED  BY <1>4, <1>6, <1>9, <2>1, <2>2, BookCounts DEF Book!BookByTeam, InPlan
  <1> QED  BY <1>11, <1>12 DEF BookCommit

\* The requests of several threads book as if one ran after the other, each against the
\* book as it stands (the advisory locks of the days, the locks of the rows, of
\* service_config and of the tables).
THEOREM BooksOneByOne == Spec => ImplementsBook
  <1>1. Inv /\ [Next]_vars => [Book!Next]_(Book!bookVars)
    <2> SUFFICES ASSUME Inv, [Next]_vars
                 PROVE  Book!Next \/ UNCHANGED <<Booked, enabled, plan, pairs>>
      BY DEF Book!bookVars
    <2>1. ASSUME NEW t \in Txns, BookCommit(t) PROVE Book!Next
      BY <2>1, CommitBooks DEF Book!Next
    <2>2. CASE UNCHANGED vars
      BY <2>2, BookStays DEF SameBooks, vars, tableVars, planVars
    <2>3. ASSUME Next, \A t \in Txns : ~BookCommit(t)
          PROVE  Book!Next \/ UNCHANGED <<Booked, enabled, plan, pairs>>
      <3>1. Booked' = Booked
        BY <2>3, QuietStep, BookStays DEF Inv
      <3>2. CASE UNCHANGED <<enabled, plan, pairs>>
        BY <3>1, <3>2
      <3>3. ASSUME NEW on \in BOOLEAN, SetReservations(on) PROVE Book!Switch
        BY <3>1, <3>3 DEF SetReservations, Book!Switch, planVars
      <3>4. ASSUME NEW P \in SUBSET Tables,
                   NEW Q \in SUBSET {p \in Seatings : Cardinality(p) = 2}, SavePlan(P, Q)
            PROVE  Book!Replan
        <4>1. plan' = P /\ pairs' = Q /\ UNCHANGED <<Booked, enabled>>
          BY <3>1, <3>4 DEF SavePlan
        <4>2. \A q \in Q : q \in SUBSET P /\ Book!Cardinality(q) = 2
          BY <3>4, BookCounts DEF SavePlan
        <4>3. Q \in SUBSET {p \in SUBSET P : Book!Cardinality(p) = 2}
          BY <4>2
        <4> QED  BY <4>1, <4>3 DEF Book!Replan
      <3> QED  BY <2>3, <3>2, <3>3, <3>4
               DEF Next, TxnNext, Around, CreateBegin, ConfirmBegin, TapBegin, LockDay, Check,
                   CreateCommit, GiveUp, TabletCreate, EndCall, Outlive, planVars, Book!Next
    <2> QED  BY <2>1, <2>2, <2>3
  <1> QED  BY <1>1, BookInit, Invariance, PTL DEF Spec, ImplementsBook, Book!Spec
=============================================================================
