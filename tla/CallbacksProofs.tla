-------------------------- MODULE CallbacksProofs --------------------------
(* Proofs for Callbacks, for any number of calls, requests, cards and      *)
(* reopened cards.                                                         *)
EXTENDS Callbacks, TLAPS

(* What a request is, and that an idle transaction is none. *)
LEMMA RequestFields ==
    ASSUME TypeOK, NEW t \in Txns, tx[t] # Idle
    PROVE  /\ tx[t] \in Request
           /\ tx[t].kind \in Kinds /\ tx[t].call \in Calls /\ tx[t].at \in Steps
  <1>1. tx[t] \in Request
    BY DEF TypeOK
  <1> QED  BY <1>1 DEF Request

LEMMA AtIsRequest ==
    ASSUME NEW t \in Txns, NEW kinds \in SUBSET Kinds, NEW step, At(t, kinds, step)
    PROVE  tx[t] # Idle
  <1>1. tx[t].kind \in Kinds
    BY DEF At
  <1>2. Idle.kind \notin Kinds
    BY DEF Idle, Kinds
  <1> QED  BY <1>1, <1>2

(* The end of a transaction frees its locks and no other. *)
LEMMA ReleaseEffect ==
    ASSUME TypeOK, NEW t \in Txns, Release(t)
    PROVE  /\ tx' \in [Txns -> Request \cup {Idle}] /\ tx'[t] = Idle
           /\ \A u \in Txns \ {t} : tx'[u] = tx[u]
           /\ row' \in [Calls -> Txns \cup {Nobody}]
           /\ turn' \in [Calls -> Txns \cup {Nobody}]
           /\ key' \in [Calls -> SUBSET Txns]
           /\ \A u \in Txns \ {t}, c \in Calls :
                 /\ row[c] = u => row'[c] = u
                 /\ turn[c] = u => turn'[c] = u
  BY DEF TypeOK, Release

(* One request that moves on and keeps its locks. *)
LEMMA GotoEffect ==
    ASSUME TypeOK, NEW t \in Txns, tx[t] # Idle, NEW step \in Steps, Goto(t, step)
    PROVE  /\ tx' \in [Txns -> Request \cup {Idle}]
           /\ tx'[t] \in Request /\ tx'[t] # Idle
           /\ tx'[t].kind = tx[t].kind /\ tx'[t].call = tx[t].call /\ tx'[t].at = step
           /\ \A u \in Txns \ {t} : tx'[u] = tx[u]
  <1>1. tx[t] \in Request /\ tx \in [Txns -> Request \cup {Idle}]
    BY RequestFields DEF TypeOK
  <1>2. tx' = [tx EXCEPT ![t] = [tx[t] EXCEPT !.at = step]]
    BY <1>1 DEF Goto
  <1>3. [tx[t] EXCEPT !.at = step] \in Request
    BY <1>1 DEF Request
  <1>4. /\ tx'[t] = [tx[t] EXCEPT !.at = step]
        /\ \A u \in Txns \ {t} : tx'[u] = tx[u]
        /\ tx' \in [Txns -> Request \cup {Idle}]
    BY <1>1, <1>2, <1>3
  <1>5. tx'[t].kind = tx[t].kind /\ tx'[t].call = tx[t].call /\ tx'[t].at = step
    BY <1>1, <1>4 DEF Request
  <1>6. tx'[t].kind # Idle.kind
    BY <1>5, RequestFields DEF Kinds, Idle
  <1> QED  BY <1>3, <1>4, <1>5, <1>6

(* A request that begins. *)
LEMMA BeginEffect ==
    ASSUME TypeOK, NEW t \in Txns, NEW r \in Request, tx' = [tx EXCEPT ![t] = r]
    PROVE  /\ tx' \in [Txns -> Request \cup {Idle}]
           /\ tx'[t] = r
           /\ \A u \in Txns \ {t} : tx'[u] = tx[u]
  BY DEF TypeOK

LEMMA NewRequest ==
    ASSUME NEW kind \in Kinds, NEW c \in Calls, NEW at \in Steps
    PROVE  [kind |-> kind, call |-> c, at |-> at] \in Request
  BY DEF Request

(* The open cards of a call are a matter of the cards only. *)
LEMMA SameCards ==
    ASSUME UNCHANGED card, NEW c
    PROVE  OpenCards(c)' = OpenCards(c) /\ CardsOf(c)' = CardsOf(c)
  BY DEF OpenCards, CardsOf

LEMMA InitInv == Init => Inv
  <1> SUFFICES ASSUME Init PROVE Inv
    OBVIOUS
  <1>1. TypeOK
    BY CardsAreNat DEF Init, TypeOK
  <1>2. TurnHeld /\ RowHeld
    BY DEF Init, TurnHeld, TurnHeldBy, RowHeld, RowHeldBy
  <1>3. \A c : OpenCards(c) = {}
    BY DEF Init, OpenCards, CardsOf
  <1>4. OneOpenCard /\ NotedHasCard /\ HandedOverOnce
    BY <1>3 DEF Init, OneOpenCard, NotedHasCard, HandedOverOnce
  <1> QED  BY <1>1, <1>2, <1>4 DEF Inv

(* A step that leaves the cards and the calls alone keeps what is said of them. *)
LEMMA QuietBoard ==
    ASSUME Inv, UNCHANGED <<callVars, card, reopens>>
    PROVE  OneOpenCard' /\ NotedHasCard' /\ HandedOverOnce'
  <1>1. \A c : OpenCards(c)' = OpenCards(c) /\ CardsOf(c)' = CardsOf(c)
    BY SameCards
  <1> QED  BY <1>1 DEF Inv, OneOpenCard, NotedHasCard, HandedOverOnce, callVars

(* One transaction changes, locks of the others stay: theirs is still true. *)
LEMMA OthersKeepTheirs ==
    ASSUME Inv, NEW t \in Txns, NEW u \in Txns \ {t}, tx'[u] = tx[u], tx[u] # Idle,
           \A c \in Calls : /\ row[c] = u => row'[c] = u
                            /\ turn[c] = u => turn'[c] = u
    PROVE  /\ tx'[u].kind \in Writers /\ tx'[u].at # "turn" => turn'[tx'[u].call] = u
           /\ tx'[u].kind \in {"missed", "transfer"} => row'[tx'[u].call] = u
           /\ tx'[u].kind = "transfer" <=> tx'[u].at = "write"
  <1>1. TypeOK /\ TurnHeld /\ RowHeld
    BY DEF Inv
  <1>2. tx[u].call \in Calls
    BY <1>1, RequestFields
  <1>3. tx[u].kind \in Writers /\ tx[u].at # "turn" => turn[tx[u].call] = u
    BY <1>1 DEF TurnHeld, TurnHeldBy
  <1>4. /\ tx[u].kind \in {"missed", "transfer"} => row[tx[u].call] = u
        /\ tx[u].kind = "transfer" <=> tx[u].at = "write"
    BY <1>1 DEF RowHeld, RowHeldBy
  <1> QED  BY <1>2, <1>3, <1>4

(* Who writes cards is at no step of a handover. *)
LEMMA WriterSteps ==
    ASSUME Inv, NEW t \in Txns, tx[t] # Idle
    PROVE  /\ tx[t].kind \in Writers <=> tx[t].kind # "transfer"
           /\ tx[t].at \in {"look", "insert", "commit"} => turn[tx[t].call] = t
  <1>1. TypeOK /\ TurnHeld /\ RowHeld
    BY DEF Inv
  <1>2. tx[t].kind \in Writers <=> tx[t].kind # "transfer"
    BY <1>1, RequestFields DEF Kinds, Writers
  <1>3. tx[t].kind = "transfer" <=> tx[t].at = "write"
    BY <1>1 DEF RowHeld, RowHeldBy
  <1>4. tx[t].kind \in Writers /\ tx[t].at # "turn" => turn[tx[t].call] = t
    BY <1>1 DEF TurnHeld, TurnHeldBy
  <1> QED  BY <1>2, <1>3, <1>4

(* A request that begins. *)
LEMMA BeginInv ==
    ASSUME Inv, NEW t \in Txns, NEW c \in Calls, NEW hasNumber \in BOOLEAN,
           CreateBegin(t, c) \/ MissedBegin(t, c, hasNumber) \/ TransferBegin(t, c)
    PROVE  Inv'
  <1>1. TypeOK /\ TurnHeld /\ RowHeld
    BY DEF Inv
  <1>2. /\ tx[t] = Idle
        /\ UNCHANGED <<callVars, card, reopens, key, turn>>
        /\ \/ /\ tx' = [tx EXCEPT ![t] = [kind |-> "create", call |-> c, at |-> "turn"]]
              /\ row' = row
           \/ /\ tx' = [tx EXCEPT ![t] = [kind |-> "missed", call |-> c, at |-> "turn"]]
              /\ row' = [row EXCEPT ![c] = t] /\ RowIsFree(c)
           \/ /\ tx' = [tx EXCEPT ![t] = [kind |-> "transfer", call |-> c, at |-> "write"]]
              /\ row' = [row EXCEPT ![c] = t] /\ RowIsFree(c) /\ ~reason[c]
    BY DEF CreateBegin, MissedBegin, TransferBegin, lockVars
  <1>3. PICK kind \in Kinds, at \in Steps :
           /\ tx' = [tx EXCEPT ![t] = [kind |-> kind, call |-> c, at |-> at]]
           /\ \/ kind = "create" /\ at = "turn" /\ row' = row
              \/ /\ kind = "missed" /\ at = "turn"
                 /\ row' = [row EXCEPT ![c] = t] /\ RowIsFree(c)
              \/ /\ kind = "transfer" /\ at = "write" /\ ~reason[c]
                 /\ row' = [row EXCEPT ![c] = t] /\ RowIsFree(c)
    BY <1>2 DEF Kinds, Steps
  <1>4. /\ [kind |-> kind, call |-> c, at |-> at] \in Request
        /\ tx'[t].kind = kind /\ tx'[t].call = c /\ tx'[t].at = at
    <2>1. [kind |-> kind, call |-> c, at |-> at] \in Request
      BY NewRequest
    <2>2. tx' = [tx EXCEPT ![t] = [kind |-> kind, call |-> c, at |-> at]]
      BY <1>3
    <2>3. tx \in [Txns -> Request \cup {Idle}]
      BY <1>1 DEF TypeOK
    <2>4. tx'[t] = [kind |-> kind, call |-> c, at |-> at]
      BY <2>2, <2>3
    <2> QED  BY <2>1, <2>4
  <1>5. /\ tx' \in [Txns -> Request \cup {Idle}]
        /\ \A u \in Txns \ {t} : tx'[u] = tx[u]
    BY <1>1, <1>3, <1>4, BeginEffect
  <1>6. row' \in [Calls -> Txns \cup {Nobody}]
    BY <1>1, <1>3 DEF TypeOK
  <1>7. \A u \in Txns \ {t}, d \in Calls : row[d] = u => row'[d] = u
    BY <1>1, <1>3, NobodyIsNoTxn DEF RowIsFree, TypeOK
  <1>8. TypeOK'
    BY <1>1, <1>2, <1>5, <1>6 DEF TypeOK, callVars
  <1>9. \A d : OpenCards(d)' = OpenCards(d)
    BY <1>2, SameCards
  <1>10. TurnHeld'
    <2> SUFFICES ASSUME NEW u \in Txns, tx'[u] # Idle
                 PROVE  TurnHeldBy(u)'
      BY DEF TurnHeld
    <2> SUFFICES ASSUME NEW d \in Calls
                 PROVE  /\ tx'[u].kind \in Writers /\ tx'[u].at # "turn" =>
                              turn'[tx'[u].call] = u
                        /\ /\ tx'[u].call = d /\ tx'[u].at \in {"insert", "commit"}
                           /\ reopens' = 0
                           => OpenCards(d)' = {}
      BY DEF TurnHeldBy
    <2>1. CASE u = t
      BY <1>3, <1>4, <2>1 DEF Writers
    <2>2. CASE u # t
      <3>1. tx'[u] = tx[u] /\ tx[u] # Idle /\ turn' = turn /\ reopens' = reopens
        BY <1>2, <1>5, <2>2
      <3>2. /\ tx[u].call = d /\ tx[u].at \in {"insert", "commit"} /\ reopens = 0
             => OpenCards(d) = {}
        BY <1>1, <3>1 DEF TurnHeld, TurnHeldBy
      <3>3. tx[u].kind \in Writers /\ tx[u].at # "turn" => turn[tx[u].call] = u
        BY <1>1, <3>1 DEF TurnHeld, TurnHeldBy
      <3> QED  BY <1>9, <3>1, <3>2, <3>3
    <2> QED  BY <2>1, <2>2
  <1>11. RowHeld'
    <2> SUFFICES ASSUME NEW u \in Txns, tx'[u] # Idle
                 PROVE  /\ tx'[u].kind \in {"missed", "transfer"} => row'[tx'[u].call] = u
                        /\ tx'[u].kind = "transfer" <=> tx'[u].at = "write"
                        /\ tx'[u].kind = "transfer" => ~reason'[tx'[u].call]
      BY DEF RowHeld, RowHeldBy
    <2>1. CASE u = t
      BY <1>1, <1>2, <1>3, <1>4, <2>1 DEF TypeOK, callVars
    <2>2. CASE u # t
      <3>1. tx'[u] = tx[u] /\ tx[u] # Idle /\ turn' = turn /\ reason' = reason
        BY <1>2, <1>5, <2>2 DEF callVars
      <3>2. tx[u].kind = "transfer" => ~reason[tx[u].call]
        BY <1>1, <3>1 DEF RowHeld, RowHeldBy
      <3> QED  BY <1>7, <2>2, <3>1, <3>2, OthersKeepTheirs
    <2> QED  BY <2>1, <2>2
  <1>12. OneOpenCard' /\ NotedHasCard' /\ HandedOverOnce'
    BY <1>2, QuietBoard
  <1> QED  BY <1>8, <1>10, <1>11, <1>12 DEF Inv

(* A request that takes its turn, looks, or inserts. *)
LEMMA MoveInv ==
    ASSUME Inv, NEW t \in Txns, TakeTurn(t) \/ NotFound(t) \/ Insert(t)
    PROVE  Inv'
  <1>1. TypeOK /\ TurnHeld /\ RowHeld
    BY DEF Inv
  <1>2. PICK step \in {"look", "insert", "commit"} :
           /\ tx[t].kind \in {"create", "missed"}
           /\ Goto(t, step)
           /\ UNCHANGED <<callVars, card, reopens, row>>
           /\ \/ /\ step = "look" /\ turn[tx[t].call] = Nobody
                 /\ turn' = [turn EXCEPT ![tx[t].call] = t] /\ key' = key
              \/ /\ step = "insert" /\ tx[t].at = "look" /\ OpenCards(tx[t].call) = {}
                 /\ turn' = turn /\ key' = key
              \/ /\ step = "commit" /\ tx[t].at = "insert"
                 /\ turn' = turn /\ key' = [key EXCEPT ![tx[t].call] = @ \cup {t}]
    BY DEF TakeTurn, NotFound, Insert, At, lockVars
  <1>3. tx[t] # Idle
    BY <1>2 DEF Idle
  <1>4. tx[t].call \in Calls
    BY <1>1, <1>3, RequestFields
  <1>5. /\ tx' \in [Txns -> Request \cup {Idle}]
        /\ tx'[t].kind = tx[t].kind /\ tx'[t].call = tx[t].call /\ tx'[t].at = step
        /\ \A u \in Txns \ {t} : tx'[u] = tx[u]
    BY <1>1, <1>2, <1>3, GotoEffect DEF Steps
  <1>6. /\ turn' \in [Calls -> Txns \cup {Nobody}] /\ key' \in [Calls -> SUBSET Txns]
        /\ turn'[tx[t].call] = t
        /\ \A u \in Txns \ {t}, c \in Calls : turn[c] = u => turn'[c] = u
    <2>1. tx[t].at \in {"look", "insert"} => turn[tx[t].call] = t
      BY <1>1, <1>2, <1>3 DEF TurnHeld, TurnHeldBy, Writers
    <2> QED  BY <1>1, <1>2, <1>4, <2>1, NobodyIsNoTxn DEF TypeOK
  <1>7. TypeOK'
    BY <1>1, <1>2, <1>5, <1>6 DEF TypeOK, callVars
  <1>8. \A c : OpenCards(c)' = OpenCards(c)
    BY <1>2, SameCards
  <1>9. TurnHeld'
    <2> SUFFICES ASSUME NEW u \in Txns, tx'[u] # Idle
                 PROVE  TurnHeldBy(u)'
      BY DEF TurnHeld
    <2> SUFFICES ASSUME NEW d \in Calls
                 PROVE  /\ tx'[u].kind \in Writers /\ tx'[u].at # "turn" =>
                              turn'[tx'[u].call] = u
                        /\ /\ tx'[u].call = d /\ tx'[u].at \in {"insert", "commit"}
                           /\ reopens' = 0
                           => OpenCards(d)' = {}
      BY <1>4 DEF TurnHeldBy
    <2>1. CASE u = t
      <3>1. /\ tx[t].call = d /\ step \in {"insert", "commit"} /\ reopens = 0
             => OpenCards(d) = {}
        BY <1>1, <1>2, <1>3 DEF TurnHeld, TurnHeldBy
      <3> QED  BY <1>2, <1>5, <1>6, <1>8, <2>1, <3>1
    <2>2. CASE u # t
      <3>1. tx'[u] = tx[u] /\ tx[u] # Idle /\ reopens' = reopens
        BY <1>2, <1>5, <2>2
      <3>2. /\ tx[u].call = d /\ tx[u].at \in {"insert", "commit"} /\ reopens = 0
             => OpenCards(d) = {}
        BY <1>1, <3>1 DEF TurnHeld, TurnHeldBy
      <3> QED  BY <1>2, <1>6, <1>8, <2>2, <3>1, <3>2, OthersKeepTheirs
    <2> QED  BY <2>1, <2>2
  <1>10. RowHeld'
    <2> SUFFICES ASSUME NEW u \in Txns, tx'[u] # Idle
                 PROVE  /\ tx'[u].kind \in {"missed", "transfer"} => row'[tx'[u].call] = u
                        /\ tx'[u].kind = "transfer" <=> tx'[u].at = "write"
                        /\ tx'[u].kind = "transfer" => ~reason'[tx'[u].call]
      BY DEF RowHeld, RowHeldBy
    <2>1. CASE u = t
      BY <1>1, <1>2, <1>3, <1>5, <2>1 DEF RowHeld, RowHeldBy, callVars
    <2>2. CASE u # t
      <3>1. tx'[u] = tx[u] /\ tx[u] # Idle /\ row' = row /\ reason' = reason
        BY <1>2, <1>5, <2>2 DEF callVars
      <3> QED  BY <1>1, <3>1 DEF RowHeld, RowHeldBy
    <2> QED  BY <2>1, <2>2
  <1>11. OneOpenCard' /\ NotedHasCard' /\ HandedOverOnce'
    BY <1>2, QuietBoard
  <1> QED  BY <1>7, <1>9, <1>10, <1>11 DEF Inv

(* A transaction that ends.  Its cards and its call are the business of each. *)
LEMMA EndInv ==
    ASSUME Inv, NEW t \in Txns, tx[t] # Idle, Release(t), reopens' = reopens,
           outcome' \in [Calls -> Outcomes \cup {"none"}],
           missed' \in [Calls -> BOOLEAN], ended' \in [Calls -> BOOLEAN],
           handovers' \in [Calls -> Nat], reason' \in [Calls -> BOOLEAN],
           card' \in [Cards -> Card \cup {NoCard}],
           \A c \in Calls : OpenCards(c)' = OpenCards(c) \/ turn[c] = t,
           \A c \in Calls : reason'[c] = reason[c] \/ row[c] = t,
           OneOpenCard', NotedHasCard', HandedOverOnce'
    PROVE  Inv'
  <1>1. TypeOK /\ TurnHeld /\ RowHeld
    BY DEF Inv
  <1>2. /\ tx' \in [Txns -> Request \cup {Idle}] /\ tx'[t] = Idle
        /\ \A u \in Txns \ {t} : tx'[u] = tx[u]
        /\ row' \in [Calls -> Txns \cup {Nobody}]
        /\ turn' \in [Calls -> Txns \cup {Nobody}]
        /\ key' \in [Calls -> SUBSET Txns]
        /\ \A u \in Txns \ {t}, c \in Calls :
              /\ row[c] = u => row'[c] = u
              /\ turn[c] = u => turn'[c] = u
    BY <1>1, ReleaseEffect
  <1>3. TypeOK'
    BY <1>1, <1>2 DEF TypeOK
  <1>4. TurnHeld' /\ RowHeld'
    <2> SUFFICES ASSUME NEW u \in Txns, tx'[u] # Idle
                 PROVE  TurnHeldBy(u)' /\ RowHeldBy(u)'
      BY DEF TurnHeld, RowHeld
    <2>1. /\ u \in Txns \ {t} /\ tx'[u] = tx[u] /\ tx[u] # Idle
          /\ TurnHeldBy(u) /\ RowHeldBy(u)
      BY <1>1, <1>2 DEF TurnHeld, RowHeld
    <2>2. /\ tx[u].call \in Calls
          /\ tx[u].at \in {"insert", "commit"} => turn[tx[u].call] = u
      BY <1>1, <2>1, RequestFields, WriterSteps
    <2>3. /\ tx'[u].kind \in Writers /\ tx'[u].at # "turn" => turn'[tx'[u].call] = u
          /\ tx'[u].kind \in {"missed", "transfer"} => row'[tx'[u].call] = u
          /\ tx'[u].kind = "transfer" <=> tx'[u].at = "write"
      BY <1>2, <2>1, OthersKeepTheirs
    <2>4. ASSUME NEW d \in Calls, tx'[u].call = d, tx'[u].at \in {"insert", "commit"},
                 reopens' = 0
          PROVE  OpenCards(d)' = {}
      <3>1. OpenCards(d) = {}
        BY <2>1, <2>4 DEF TurnHeldBy
      <3>2. turn[d] # t
        BY <2>1, <2>2, <2>4
      <3> QED  BY <3>1, <3>2
    <2>5. tx'[u].kind = "transfer" => ~reason'[tx'[u].call]
      <3>1. tx[u].kind = "transfer" => row[tx[u].call] = u /\ ~reason[tx[u].call]
        BY <2>1 DEF RowHeldBy
      <3> QED  BY <2>1, <2>2, <3>1
    <2> QED  BY <2>3, <2>4, <2>5 DEF TurnHeldBy, RowHeldBy
  <1> QED  BY <1>3, <1>4 DEF Inv

(* What a found or written card says of its call. *)
LEMMA NotedEffect ==
    ASSUME Inv, NEW t \in Txns, NEW c \in Calls, Noted(t, c), CardsOf(c)' # {},
           \A d \in Calls : CardsOf(d) # {} => CardsOf(d)' # {}
    PROVE  /\ outcome' \in [Calls -> Outcomes \cup {"none"}]
           /\ missed' \in [Calls -> BOOLEAN]
           /\ NotedHasCard'
  <1>1. TypeOK /\ NotedHasCard
    BY DEF Inv
  <1>2. CASE tx[t].kind = "missed"
    <2>1. /\ outcome' = [outcome EXCEPT ![c] = MissedOutcome(outcome[c])]
          /\ missed' = [missed EXCEPT ![c] = TRUE]
      BY <1>2 DEF Noted
    <2>2. MissedOutcome(outcome[c]) \in {"callback", "error"}
      BY DEF MissedOutcome
    <2>3. /\ outcome' \in [Calls -> Outcomes \cup {"none"}]
          /\ missed' \in [Calls -> BOOLEAN]
      BY <1>1, <2>1, <2>2 DEF TypeOK, Outcomes
    <2>4. ASSUME NEW d \in Calls, missed'[d]
          PROVE  CardsOf(d)' # {} /\ outcome'[d] \in {"callback", "error"}
      <3>1. CASE d = c
        <4>1. outcome'[d] \in {"callback", "error"}
          BY <1>1, <2>1, <2>2, <3>1 DEF TypeOK
        <4>2. CardsOf(d)' # {}
          BY <3>1
        <4> QED  BY <4>1, <4>2
      <3>2. CASE d # c
        <4>1. missed[d] /\ outcome'[d] = outcome[d]
          BY <1>1, <2>1, <2>4, <3>2 DEF TypeOK
        <4>2. CardsOf(d) # {} /\ outcome[d] \in {"callback", "error"}
          BY <1>1, <4>1 DEF NotedHasCard
        <4> QED  BY <4>1, <4>2
      <3> QED  BY <3>1, <3>2
    <2> QED  BY <2>3, <2>4 DEF NotedHasCard
  <1>3. CASE tx[t].kind # "missed"
    <2>1. outcome' = outcome /\ missed' = missed
      BY <1>3 DEF Noted
    <2> QED  BY <1>1, <2>1 DEF NotedHasCard, TypeOK
  <1> QED  BY <1>2, <1>3

LEMMA FoundInv ==
    ASSUME Inv, NEW t \in Txns, Found(t)
    PROVE  Inv'
  <1>1. PICK c \in Calls : /\ tx[t].call = c /\ tx[t] # Idle
                           /\ Noted(t, c) /\ Release(t) /\ OpenCards(c) # {}
                           /\ UNCHANGED <<ended, reason, handovers, card, reopens>>
    <2>1. tx[t] # Idle
      BY AtIsRequest DEF Found, At, Idle
    <2> QED  BY <2>1, RequestFields DEF Found, Inv
  <1>2. TypeOK /\ OneOpenCard /\ HandedOverOnce
    BY DEF Inv
  <1>3. \A d : OpenCards(d)' = OpenCards(d) /\ CardsOf(d)' = CardsOf(d)
    BY <1>1, SameCards
  <1>4. CardsOf(c)' # {}
    BY <1>1, <1>3 DEF OpenCards
  <1>5. /\ outcome' \in [Calls -> Outcomes \cup {"none"}]
        /\ missed' \in [Calls -> BOOLEAN]
        /\ NotedHasCard'
    BY <1>1, <1>3, <1>4, NotedEffect
  <1>6. OneOpenCard' /\ HandedOverOnce'
    BY <1>1, <1>2, <1>3 DEF OneOpenCard, HandedOverOnce
  <1>7. /\ ended' \in [Calls -> BOOLEAN] /\ reason' \in [Calls -> BOOLEAN]
        /\ handovers' \in [Calls -> Nat] /\ card' \in [Cards -> Card \cup {NoCard}]
    BY <1>1, <1>2 DEF TypeOK
  <1> QED  BY <1>1, <1>3, <1>5, <1>6, <1>7, EndInv

(* A card put where there was none: its call has one card more. *)
LEMMA NewCard ==
    ASSUME TypeOK, NEW c \in Calls, NEW k \in Cards, card[k] = NoCard,
           card' = [card EXCEPT ![k] = [call |-> c, status |-> "open"]]
    PROVE  /\ card' \in [Cards -> Card \cup {NoCard}]
           /\ \A d \in Calls : CardsOf(d) # {} => CardsOf(d)' # {}
           /\ CardsOf(c)' # {}
           /\ OpenCards(c)' = OpenCards(c) \cup {k}
           /\ \A d \in Calls \ {c} : OpenCards(d)' = OpenCards(d)
  <1> DEFINE new == [call |-> c, status |-> "open"]
  <1>1. new \in Card /\ new.call = c /\ new.status = "open"
    BY DEF Card
  <1>2. new # NoCard
    BY <1>1 DEF NoCard, Card
  <1>3. card \in [Cards -> Card \cup {NoCard}]
    BY DEF TypeOK
  <1>4. /\ card' \in [Cards -> Card \cup {NoCard}] /\ card'[k] = new
        /\ \A j \in Cards \ {k} : card'[j] = card[j]
    BY <1>1, <1>3
  <1> HIDE DEF new
  <1>5. \A d \in Calls : CardsOf(d)' = IF d = c THEN CardsOf(d) \cup {k} ELSE CardsOf(d)
    BY <1>1, <1>2, <1>4 DEF CardsOf
  <1>6. \A d \in Calls :
           OpenCards(d)' = IF d = c THEN OpenCards(d) \cup {k} ELSE OpenCards(d)
    <2> SUFFICES ASSUME NEW d \in Calls
                 PROVE  OpenCards(d)' = IF d = c THEN OpenCards(d) \cup {k}
                                                 ELSE OpenCards(d)
      OBVIOUS
    <2>1. k \notin CardsOf(d) /\ CardsOf(d) \subseteq Cards
      BY DEF CardsOf
    <2> QED  BY <1>1, <1>4, <1>5, <2>1 DEF OpenCards
  <1> QED  BY <1>4, <1>5, <1>6

LEMMA CommitInv ==
    ASSUME Inv, NEW t \in Txns, Commit(t)
    PROVE  Inv'
  <1>1. PICK c \in Calls : /\ tx[t].call = c /\ tx[t] # Idle /\ tx[t].at = "commit"
                           /\ Noted(t, c) /\ Release(t)
                           /\ UNCHANGED <<ended, reason, handovers, reopens>>
    <2>1. tx[t] # Idle
      BY DEF Commit, At, Idle
    <2> QED  BY <2>1, RequestFields DEF Commit, At, Inv
  <1>2. TypeOK /\ OneOpenCard /\ HandedOverOnce /\ TurnHeld
    BY DEF Inv
  <1>3. turn[c] = t /\ (reopens = 0 => OpenCards(c) = {})
    BY <1>1, <1>2, WriterSteps DEF TurnHeld, TurnHeldBy
  <1>4. PICK k \in Cards :
           /\ card[k] = NoCard
           /\ card' = [card EXCEPT ![k] = [call |-> c, status |-> "open"]]
    BY <1>1 DEF Commit
  <1>5. /\ card' \in [Cards -> Card \cup {NoCard}]
        /\ \A d \in Calls : CardsOf(d) # {} => CardsOf(d)' # {}
        /\ CardsOf(c)' # {}
        /\ OpenCards(c)' = OpenCards(c) \cup {k}
        /\ \A d \in Calls \ {c} : OpenCards(d)' = OpenCards(d)
    BY <1>2, <1>4, NewCard
  <1>6. /\ outcome' \in [Calls -> Outcomes \cup {"none"}]
        /\ missed' \in [Calls -> BOOLEAN]
        /\ NotedHasCard'
    BY <1>1, <1>5, NotedEffect
  <1>7. OneOpenCard'
    <2> SUFFICES ASSUME reopens' = 0, NEW d \in Calls
                 PROVE  \A i, j \in OpenCards(d)' : i = j
      BY DEF OneOpenCard
    <2>1. CASE d = c
      BY <1>1, <1>3, <1>5, <2>1
    <2>2. CASE d # c
      BY <1>1, <1>2, <1>5, <2>2 DEF OneOpenCard
    <2> QED  BY <2>1, <2>2
  <1>8. HandedOverOnce'
    BY <1>1, <1>2 DEF HandedOverOnce
  <1>9. /\ ended' \in [Calls -> BOOLEAN] /\ reason' \in [Calls -> BOOLEAN]
        /\ handovers' \in [Calls -> Nat]
    BY <1>1, <1>2 DEF TypeOK
  <1> QED  BY <1>1, <1>3, <1>5, <1>6, <1>7, <1>8, <1>9, EndInv

LEMMA GiveUpInv ==
    ASSUME Inv, NEW t \in Txns, GiveUp(t)
    PROVE  Inv'
  <1>1. Release(t) /\ UNCHANGED <<callVars, card, reopens>> /\ tx[t] # Idle
    BY DEF GiveUp, Waits, At, Idle
  <1>2. \A c : OpenCards(c)' = OpenCards(c)
    BY <1>1, SameCards
  <1>3. OneOpenCard' /\ NotedHasCard' /\ HandedOverOnce'
    BY <1>1, QuietBoard
  <1> QED  BY <1>1, <1>2, <1>3, EndInv DEF Inv, TypeOK, callVars

LEMMA TransferCommitInv ==
    ASSUME Inv, NEW t \in Txns, TransferCommit(t)
    PROVE  Inv'
  <1>1. PICK c \in Calls : /\ tx[t].call = c /\ tx[t] # Idle /\ tx[t].kind = "transfer"
                           /\ reason' = [reason EXCEPT ![c] = TRUE]
                           /\ handovers' = [handovers EXCEPT ![c] = @ + 1]
                           /\ Release(t)
                           /\ UNCHANGED <<outcome, ended, missed, card, reopens>>
    <2>1. tx[t] # Idle
      BY DEF TransferCommit, At, Idle
    <2> QED  BY <2>1, RequestFields DEF TransferCommit, At, Inv
  <1>2. TypeOK /\ RowHeld /\ OneOpenCard /\ NotedHasCard /\ HandedOverOnce
    BY DEF Inv
  <1>3. row[c] = t /\ ~reason[c]
    BY <1>1, <1>2 DEF RowHeld, RowHeldBy
  <1>4. \A d : OpenCards(d)' = OpenCards(d) /\ CardsOf(d)' = CardsOf(d)
    BY <1>1, SameCards
  <1>5. OneOpenCard' /\ NotedHasCard'
    BY <1>1, <1>2, <1>4 DEF OneOpenCard, NotedHasCard
  <1>6. HandedOverOnce'
    BY <1>1, <1>2, <1>3 DEF HandedOverOnce, TypeOK
  <1>7. /\ outcome' \in [Calls -> Outcomes \cup {"none"}]
        /\ missed' \in [Calls -> BOOLEAN] /\ ended' \in [Calls -> BOOLEAN]
        /\ reason' \in [Calls -> BOOLEAN] /\ handovers' \in [Calls -> Nat]
        /\ card' \in [Cards -> Card \cup {NoCard}]
    BY <1>1, <1>2 DEF TypeOK
  <1>8. \A d \in Calls : reason'[d] = reason[d] \/ row[d] = t
    BY <1>1, <1>2, <1>3 DEF TypeOK
  <1> QED  BY <1>1, <1>4, <1>5, <1>6, <1>7, <1>8, EndInv

(* A step that takes no part in the locks: what a request holds it still holds. *)
LEMMA HeldStill ==
    ASSUME TurnHeld, RowHeld, UNCHANGED <<reason, lockVars, tx>>,
           reopens' = 0 => reopens = 0,
           reopens' = 0 => \A c \in Calls : OpenCards(c) = {} => OpenCards(c)' = {}
    PROVE  TurnHeld' /\ RowHeld'
  <1>1. RowHeld'
    BY DEF RowHeld, RowHeldBy, lockVars
  <1>2. TurnHeld'
    <2> SUFFICES ASSUME NEW u \in Txns, tx'[u] # Idle
                 PROVE  TurnHeldBy(u)'
      BY DEF TurnHeld
    <2>1. tx' = tx /\ turn' = turn /\ TurnHeldBy(u)
      BY DEF TurnHeld, lockVars
    <2>2. ASSUME NEW d \in Calls, tx[u].call = d, tx[u].at \in {"insert", "commit"},
                 reopens' = 0
          PROVE  OpenCards(d)' = {}
      BY <2>1, <2>2 DEF TurnHeldBy
    <2>3. tx[u].kind \in Writers /\ tx[u].at # "turn" => turn[tx[u].call] = u
      BY <2>1 DEF TurnHeldBy
    <2> QED  BY <2>1, <2>2, <2>3 DEF TurnHeldBy
  <1> QED  BY <1>1, <1>2
LEMMA EndCallInv ==
    ASSUME Inv, NEW c \in Calls, NEW oc \in Outcomes, EndCall(c, oc)
    PROVE  Inv'
  <1>1. /\ ended' = [ended EXCEPT ![c] = TRUE]
        /\ outcome' = [outcome EXCEPT ![c] = LoggedOutcome(outcome[c], oc)]
        /\ UNCHANGED <<reason, handovers, missed, card, reopens, lockVars, tx>>
    BY DEF EndCall
  <1>2. TypeOK /\ TurnHeld /\ RowHeld /\ OneOpenCard /\ NotedHasCard /\ HandedOverOnce
    BY DEF Inv
  <1>3. \A d : OpenCards(d)' = OpenCards(d) /\ CardsOf(d)' = CardsOf(d)
    BY <1>1, SameCards
  <1>4. /\ LoggedOutcome(outcome[c], oc) \in Outcomes
        /\ outcome[c] \in {"callback", "error"} =>
              LoggedOutcome(outcome[c], oc) \in {"callback", "error"}
    BY <1>2 DEF LoggedOutcome, TypeOK, Outcomes
  <1>5. TypeOK'
    BY <1>1, <1>2, <1>4 DEF TypeOK, lockVars
  <1>6. TurnHeld' /\ RowHeld'
    BY <1>1, <1>2, <1>3, HeldStill
  <1>7. NotedHasCard'
    BY <1>1, <1>2, <1>3, <1>4 DEF NotedHasCard, TypeOK
  <1>8. OneOpenCard' /\ HandedOverOnce'
    BY <1>1, <1>2, <1>3 DEF OneOpenCard, HandedOverOnce
  <1> QED  BY <1>5, <1>6, <1>7, <1>8 DEF Inv

(* A card that changes its status is still a card of its call. *)
LEMMA SetStatus ==
    ASSUME TypeOK, NEW k \in Cards, card[k] # NoCard, NEW status \in {"open", "done"},
           card' = [card EXCEPT ![k].status = status]
    PROVE  /\ card' \in [Cards -> Card \cup {NoCard}]
           /\ \A c : CardsOf(c)' = CardsOf(c)
           /\ status = "done" => \A c : OpenCards(c)' \subseteq OpenCards(c)
  <1>1. card[k] \in Card /\ card \in [Cards -> Card \cup {NoCard}]
    BY DEF TypeOK
  <1> DEFINE new == [card[k] EXCEPT !.status = status]
  <1>2. new \in Card /\ new.call = card[k].call /\ new.status = status
    BY <1>1 DEF Card
  <1>3. new # NoCard
    BY <1>2 DEF Card, NoCard
  <1>4. card' = [card EXCEPT ![k] = new]
    BY <1>1
  <1> HIDE DEF new
  <1>5. /\ card' \in [Cards -> Card \cup {NoCard}] /\ card'[k] = new
        /\ \A j \in Cards \ {k} : card'[j] = card[j]
    BY <1>1, <1>2, <1>4
  <1>6. \A c : CardsOf(c)' = CardsOf(c)
    BY <1>2, <1>3, <1>5 DEF CardsOf
  <1>7. status = "done" => \A c : OpenCards(c)' \subseteq OpenCards(c)
    <2> SUFFICES ASSUME status = "done", NEW c, NEW j \in OpenCards(c)'
                 PROVE  j \in OpenCards(c)
      OBVIOUS
    <2>1. j \in CardsOf(c) /\ j \in Cards /\ card'[j].status = "open"
      BY <1>6 DEF OpenCards, CardsOf
    <2>2. j # k
      BY <1>2, <1>5, <2>1
    <2> QED  BY <1>5, <2>1, <2>2 DEF OpenCards
  <1> QED  BY <1>5, <1>6, <1>7

LEMMA TapInv ==
    ASSUME Inv, NEW k \in Cards, MarkDone(k) \/ Reopen(k)
    PROVE  Inv'
  <1>1. PICK status \in {"open", "done"} :
           /\ card[k] # NoCard /\ card' = [card EXCEPT ![k].status = status]
           /\ UNCHANGED <<callVars, lockVars, tx>>
           /\ \/ status = "done" /\ reopens' = reopens
              \/ reopens < MaxReopens /\ reopens' = reopens + 1
    BY DEF MarkDone, Reopen
  <1>2. TypeOK /\ TurnHeld /\ RowHeld /\ OneOpenCard /\ NotedHasCard /\ HandedOverOnce
    BY DEF Inv
  <1>3. /\ card' \in [Cards -> Card \cup {NoCard}]
        /\ \A c : CardsOf(c)' = CardsOf(c)
        /\ status = "done" => \A c : OpenCards(c)' \subseteq OpenCards(c)
    BY <1>1, <1>2, SetStatus
  <1>4. /\ reopens' \in 0..MaxReopens
        /\ reopens' = 0 => reopens = 0 /\ status = "done"
    BY <1>1, <1>2, CardsAreNat DEF TypeOK
  <1>5. TypeOK'
    BY <1>1, <1>2, <1>3, <1>4 DEF TypeOK, callVars, lockVars
  <1>6. TurnHeld' /\ RowHeld'
    <2>1. reopens' = 0 => \A c \in Calls : OpenCards(c) = {} => OpenCards(c)' = {}
      BY <1>3, <1>4
    <2> QED  BY <1>1, <1>2, <1>4, <2>1, HeldStill DEF callVars
  <1>7. OneOpenCard'
    BY <1>2, <1>3, <1>4 DEF OneOpenCard
  <1>8. NotedHasCard' /\ HandedOverOnce'
    BY <1>1, <1>2, <1>3 DEF NotedHasCard, HandedOverOnce, callVars
  <1> QED  BY <1>5, <1>6, <1>7, <1>8 DEF Inv

LEMMA StepInv == Inv /\ [Next]_vars => Inv'
  <1> SUFFICES ASSUME Inv, [Next]_vars PROVE Inv'
    OBVIOUS
  <1>1. ASSUME NEW t \in Txns, Proceed(t) PROVE Inv'
    BY <1>1, MoveInv, FoundInv, CommitInv, TransferCommitInv, GiveUpInv DEF Proceed
  <1>2. ASSUME NEW t \in Txns, NEW c \in Calls, NEW hasNumber \in BOOLEAN,
               CreateBegin(t, c) \/ TransferBegin(t, c) \/ MissedBegin(t, c, hasNumber)
        PROVE  Inv'
    BY <1>2, BeginInv
  <1>3. CASE UNCHANGED vars
    <2>1. UNCHANGED <<callVars, card, reopens>> /\ UNCHANGED <<reason, lockVars, tx>>
      BY <1>3 DEF vars, callVars
    <2>2. \A c : OpenCards(c)' = OpenCards(c)
      BY <2>1, SameCards
    <2>3. TurnHeld' /\ RowHeld'
      BY <2>1, <2>2, HeldStill DEF Inv
    <2>4. TypeOK'
      BY <2>1 DEF Inv, TypeOK, callVars, lockVars
    <2> QED  BY <2>1, <2>3, <2>4, QuietBoard DEF Inv
  <1> QED  BY <1>1, <1>2, <1>3, EndCallInv, TapInv DEF Next

THEOREM Invariance == Spec => []Inv
  BY InitInv, StepInv, PTL DEF Spec

(* Every value has its type (the rows of calls and callbacks, their locks). *)
THEOREM Typing == Spec => []TypeOK
  <1>1. Inv => TypeOK
    BY DEF Inv
  <1> QED  BY <1>1, Invariance, PTL

(* However many requests meet on however many calls, a call has one open card on *)
(* the board as long as nobody brings one back from the history (create_callback). *)
THEOREM OneCardPerCall == Spec => []OneOpenCard
  <1>1. Inv => OneOpenCard
    BY DEF Inv
  <1> QED  BY <1>1, Invariance, PTL

(* Whoever heard that the restaurant calls back has a card, and the record of the *)
(* call says so, in every order of the log and the missed leg (end_call, team_missed). *)
THEOREM NotedIsKept == Spec => []NotedHasCard
  <1>1. Inv => NotedHasCard
    BY DEF Inv
  <1> QED  BY <1>1, Invariance, PTL

(* However often the agent asks for it, a call is handed over and audited once *)
(* (transfer_to_team). *)
THEOREM OneHandover == Spec => []HandedOverOnce
  <1>1. Inv => HandedOverOnce
    BY DEF Inv
  <1> QED  BY <1>1, Invariance, PTL

(* No step turns a call that failed into anything else (end_call, team_missed). *)
THEOREM ErrorIsLast == Spec => ErrorStays
  <1>1. Inv /\ [Next]_vars => [\A c \in Calls : outcome[c] = "error" => outcome'[c] = "error"]_vars
    <2> SUFFICES ASSUME Inv, Next, NEW c \in Calls, outcome[c] = "error"
                 PROVE  outcome'[c] = "error"
      OBVIOUS
    <2>1. outcome \in [Calls -> Outcomes \cup {"none"}]
      BY DEF Inv, TypeOK
    <2>2. CASE outcome' = outcome
      BY <2>2
    <2>3. ASSUME NEW t \in Txns, NEW d \in Calls, Noted(t, d) PROVE outcome'[c] = "error"
      BY <2>1, <2>3 DEF Noted, MissedOutcome
    <2>4. ASSUME NEW d \in Calls, NEW oc \in Outcomes, EndCall(d, oc)
          PROVE  outcome'[c] = "error"
      BY <2>1, <2>4 DEF EndCall, LoggedOutcome
    <2>5. ASSUME NEW t \in Txns, Found(t) \/ Commit(t) PROVE outcome'[c] = "error"
      <3>1. tx[t] # Idle /\ Noted(t, tx[t].call)
        BY <2>5 DEF Found, Commit, At, Idle
      <3> QED  BY <2>3, <3>1, RequestFields DEF Inv
    <2>6. ASSUME NEW t \in Txns, Proceed(t) PROVE outcome'[c] = "error"
      <3>1. Found(t) \/ Commit(t) \/ outcome' = outcome
        BY <2>6 DEF Proceed, TakeTurn, NotFound, Insert, TransferCommit, GiveUp, callVars
      <3> QED  BY <2>2, <2>5, <3>1
    <2>7. ASSUME NEW t \in Txns, NEW d \in Calls, NEW hasNumber \in BOOLEAN,
                 CreateBegin(t, d) \/ TransferBegin(t, d) \/ MissedBegin(t, d, hasNumber)
          PROVE  outcome'[c] = "error"
      <3>1. outcome' = outcome
        BY <2>7 DEF CreateBegin, TransferBegin, MissedBegin, callVars
      <3> QED  BY <2>2, <3>1
    <2>8. ASSUME NEW k \in Cards, MarkDone(k) \/ Reopen(k) PROVE outcome'[c] = "error"
      <3>1. outcome' = outcome
        BY <2>8 DEF MarkDone, Reopen, callVars
      <3> QED  BY <2>2, <3>1
    <2> QED  BY <2>4, <2>6, <2>7, <2>8 DEF Next
  <1> QED  BY <1>1, Invariance, PTL DEF Spec, ErrorStays
=============================================================================
