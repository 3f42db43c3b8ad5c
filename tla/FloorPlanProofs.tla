--------------------------- MODULE FloorPlanProofs ---------------------------
(***************************************************************************)
(* Proofs about FloorPlan, for any number of tablets, rooms, tables, names  *)
(* and confirmations, and any number of steps and failures.                *)
(*                                                                         *)
(* The argument: whatever a tablet or a request holds as the room of a     *)
(* revision is that revision's room if the revision is the newest one, and *)
(* a revision is never the newest again (Known).  The one transaction in   *)
(* the lock read the newest revision, so it replaces the room its tablet   *)
(* held; and what its checks saw cannot change before it stores.           *)
(***************************************************************************)
EXTENDS FloorPlan, TLAPS

USE DEF NotSaving, NotLoading

(* What is said of values is said with the plan P, the revisions R and the *)
(* rooms of all revisions V as parameters, before and after a step.        *)

Known(a, rev, room, R, P) ==
    /\ room \in Plans /\ room = Room(a, room)
    /\ rev \in Nat /\ rev <= R[a]
    /\ rev = R[a] => room = Room(a, P)

IsVersion(a, rev, room, R, V) == rev \in 1..R[a] /\ V[a][rev] = room

NamesFit(a, room, P) ==
    /\ Unique(room)
    /\ \A t \in RoomTables(a), u \in Tables \ RoomTables(a) :
           room[t] # NoName => room[t] # P[u]

GoodBody(a, b, R, P) ==
    /\ b \in Bodies /\ b.room = Room(a, b.room)
    /\ Known(a, b.revision, b.base, R, P)

GoodAnswer(a, q, R, P, V) ==
    /\ q.code # ""
    /\ q.code \in {"ok", "stale"} => Known(a, q.revision, q.room, R, P)
    /\ q.code = "ok" => q.room = q.body.room /\ IsVersion(a, q.revision, q.room, R, V)

GoodRequest(r, q, R, P, V, W) ==
    /\ q \in RequestState
    /\ q.at # "free" => GoodBody(Area(r), q.body, R, P)
    /\ q.at = "applying" => /\ r \in W /\ q.body.revision = R[Area(r)]
                            /\ NamesFit(Area(r), q.body.room, P)
    /\ q.at = "answered" => GoodAnswer(Area(r), q, R, P, V)

SheetBase(a, x, R, P) ==
    /\ x \in SheetState
    /\ x.loads = 0 => Known(a, x.revision, x.saved, R, P)
    /\ x.loads # 0 => x.loads <= R[a] /\ x.waits = 0
    /\ x.pending # None => x.pending = Room(a, x.pending)
    /\ x.unacked # None => GoodBody(a, x.unacked, R, P)

GoodSheet(a, x, R, P, V) ==
    /\ SheetBase(a, x, R, P)
    /\ x.waits = 0 /\ ~x.unsaved /\ x.pending # None =>
           IsVersion(a, x.revision, x.pending, R, V)

Stores ==
    /\ plan \in Plans /\ Unique(plan)
    /\ revision \in [Areas -> Nat \ {0}]
    /\ versions \in [Areas -> Seq(Plans)]
    /\ \A a \in Areas : Len(versions[a]) = revision[a] /\ versions[a][revision[a]] = Stored(a)

Locks ==
    /\ writers \subseteq Requests /\ \A v, w \in writers : v = w
    /\ share \in [Bookings -> SUBSET Tables]
    /\ booking \in [Bookings -> {"idle", "seating", "over"}]

Counts == edits \in 0..MaxEdits /\ faults \in 0..MaxFaults

Saves ==
    /\ req \in [Requests -> RequestState]
    /\ \A r \in Requests : GoodRequest(r, req[r], revision, plan, versions, writers)

Editors ==
    /\ sheet \in [Sheets -> SheetState]
    /\ \A s \in Sheets : GoodSheet(AreaOf[s], sheet[s], revision, plan, versions)

Waiting == \A s \in Sheets : sheet[s].waits # 0 => req[<<s, sheet[s].waits>>].at # "free"

Inv == Stores /\ Locks /\ Counts /\ Saves /\ Editors /\ Waiting
-----------------------------------------------------------------------------
(* Rooms. *)

(* A room is a plan, and cutting a room out twice is cutting it out once.   *)
LEMMA RoomIsPlan ==
    ASSUME NEW a, NEW p \in Plans
    PROVE  Room(a, p) \in Plans /\ Room(a, Room(a, p)) = Room(a, p)
BY DEF Room, Plans

(* The room of a request is a room of the house.                           *)
LEMMA AreaIsArea == ASSUME NEW r \in Requests PROVE r[1] \in Sheets /\ r[2] \in Line /\ Area(r) \in Areas
BY FloorPlanAssumption DEF Requests, Area

(* What a store does to the plan P: room m of area a takes the place of     *)
(* what was there.                                                         *)
Furnish(a, m, P) == [t \in Tables |-> IF RoomOf[t] = a THEN m[t] ELSE P[t]]

LEMMA FurnishRooms ==
    ASSUME NEW a, NEW b, NEW P \in Plans, NEW m \in Plans, m = Room(a, m)
    PROVE  /\ Furnish(a, m, P) \in Plans
           /\ Room(a, Furnish(a, m, P)) = m
           /\ b # a => Room(b, Furnish(a, m, P)) = Room(b, P)
<1>1. Furnish(a, m, P) \in Plans
  BY DEF Furnish, Plans
<1>2. Room(a, Furnish(a, m, P)) = Room(a, m)
  BY DEF Furnish, Room
<1>3. b # a => Room(b, Furnish(a, m, P)) = Room(b, P)
  BY DEF Furnish, Room
<1>4. QED BY <1>1, <1>2, <1>3

(* Names that fit keep the plan unambiguous.                               *)
LEMMA FurnishUnique ==
    ASSUME NEW a, NEW P \in Plans, NEW m \in Plans, Unique(P), NamesFit(a, m, P)
    PROVE  Unique(Furnish(a, m, P))
<1> SUFFICES ASSUME NEW t \in Tables, NEW u \in Tables,
                    Furnish(a, m, P)[t] = Furnish(a, m, P)[u], Furnish(a, m, P)[t] # NoName
             PROVE  t = u
  BY DEF Unique
<1>1. CASE RoomOf[t] = a /\ RoomOf[u] = a
  BY <1>1 DEF Furnish, NamesFit, Unique
<1>2. CASE RoomOf[t] = a /\ RoomOf[u] # a
  BY <1>2 DEF Furnish, NamesFit, RoomTables
<1>3. CASE RoomOf[t] # a /\ RoomOf[u] = a
  BY <1>3 DEF Furnish, NamesFit, RoomTables
<1>4. CASE RoomOf[t] # a /\ RoomOf[u] # a
  BY <1>4 DEF Furnish, Unique
<1>5. QED BY <1>1, <1>2, <1>3, <1>4
-----------------------------------------------------------------------------
(* A store of room m in area b: what was known stays known.                *)

LEMMA KnownStays ==
    ASSUME NEW a \in Areas, NEW b \in Areas, NEW rev, NEW room, NEW m \in Plans, m = Room(b, m),
           NEW R \in [Areas -> Nat \ {0}], NEW P \in Plans,
           Known(a, rev, room, R, P)
    PROVE  Known(a, rev, room, [R EXCEPT ![b] = @ + 1], Furnish(b, m, P))
<1>1. CASE a = b
  BY <1>1 DEF Known
<1>2. CASE a # b
  BY <1>2, FurnishRooms DEF Known
<1>3. QED BY <1>1, <1>2

LEMMA VersionStays ==
    ASSUME NEW a \in Areas, NEW b \in Areas, NEW rev, NEW room, NEW m \in Plans,
           NEW R \in [Areas -> Nat \ {0}], NEW V \in [Areas -> Seq(Plans)],
           \A c \in Areas : Len(V[c]) = R[c],
           IsVersion(a, rev, room, R, V)
    PROVE  IsVersion(a, rev, room, [R EXCEPT ![b] = @ + 1], [V EXCEPT ![b] = Append(@, m)])
<1>1. rev \in 1..Len(V[a])
  BY DEF IsVersion
<1>2. Append(V[a], m)[rev] = V[a][rev]
  BY <1>1
<1>3. QED BY <1>1, <1>2 DEF IsVersion

LEMMA SheetStays ==
    ASSUME NEW a \in Areas, NEW b \in Areas, NEW x, NEW m \in Plans, m = Room(b, m),
           NEW R \in [Areas -> Nat \ {0}], NEW P \in Plans, NEW V \in [Areas -> Seq(Plans)],
           \A c \in Areas : Len(V[c]) = R[c],
           GoodSheet(a, x, R, P, V)
    PROVE  GoodSheet(a, x, [R EXCEPT ![b] = @ + 1], Furnish(b, m, P), [V EXCEPT ![b] = Append(@, m)])
<1> DEFINE R2 == [R EXCEPT ![b] = @ + 1]
           P2 == Furnish(b, m, P)
           V2 == [V EXCEPT ![b] = Append(@, m)]
<1>1. x.loads = 0 => Known(a, x.revision, x.saved, R2, P2)
  BY KnownStays DEF GoodSheet, SheetBase
<1>2. x.loads # 0 => x.loads <= R2[a] /\ x.waits = 0
  BY DEF GoodSheet, SheetBase, SheetState
<1>3. x.unacked # None => GoodBody(a, x.unacked, R2, P2)
  BY KnownStays DEF GoodSheet, SheetBase, GoodBody
<1>4. x.waits = 0 /\ ~x.unsaved /\ x.pending # None => IsVersion(a, x.revision, x.pending, R2, V2)
  BY VersionStays DEF GoodSheet, SheetBase
<1> HIDE DEF R2, P2, V2
<1>5. GoodSheet(a, x, R2, P2, V2)
  BY <1>1, <1>2, <1>3, <1>4 DEF GoodSheet, SheetBase
<1>6. QED BY <1>5 DEF R2, P2, V2

(* A request that is not in the lock stays good.                           *)
LEMMA RequestStays ==
    ASSUME NEW r \in Requests, NEW b \in Areas, NEW q, NEW m \in Plans, m = Room(b, m),
           NEW R \in [Areas -> Nat \ {0}], NEW P \in Plans, NEW V \in [Areas -> Seq(Plans)],
           \A c \in Areas : Len(V[c]) = R[c], NEW W, NEW W2,
           GoodRequest(r, q, R, P, V, W), q.at # "applying"
    PROVE  GoodRequest(r, q, [R EXCEPT ![b] = @ + 1], Furnish(b, m, P),
                       [V EXCEPT ![b] = Append(@, m)], W2)
<1> DEFINE R2 == [R EXCEPT ![b] = @ + 1]
           P2 == Furnish(b, m, P)
           V2 == [V EXCEPT ![b] = Append(@, m)]
<1>a. Area(r) \in Areas
  BY AreaIsArea
<1>1. q.at # "free" => GoodBody(Area(r), q.body, R2, P2)
  BY <1>a, KnownStays DEF GoodRequest, GoodBody
<1>2. q.at = "answered" /\ q.code \in {"ok", "stale"} => Known(Area(r), q.revision, q.room, R2, P2)
  BY <1>a, KnownStays DEF GoodRequest, GoodAnswer
<1>3. q.at = "answered" /\ q.code = "ok" => IsVersion(Area(r), q.revision, q.room, R2, V2)
  BY <1>a, VersionStays DEF GoodRequest, GoodAnswer
<1> HIDE DEF R2, P2, V2
<1>4. GoodRequest(r, q, R2, P2, V2, W2)
  BY <1>1, <1>2, <1>3 DEF GoodRequest, GoodAnswer
<1>5. QED BY <1>4 DEF R2, P2, V2
-----------------------------------------------------------------------------
(* Steps. *)

LEMMA FreeIsGood ==
    ASSUME NEW r, NEW R, NEW P, NEW V, NEW W
    PROVE  GoodRequest(r, Free, R, P, V, W)
BY DEF GoodRequest, Free, RequestState

LEMMA SentIsGood ==
    ASSUME NEW r, NEW b, NEW R, NEW P, NEW V, NEW W, GoodBody(Area(r), b, R, P)
    PROVE  GoodRequest(r, Sent(b), R, P, V, W) /\ Sent(b).at = "sent"
BY DEF GoodRequest, Sent, Free, RequestState, GoodBody

(* What a tablet sends next is a good body.                                *)
LEMMA NextBodyIsGood ==
    ASSUME NEW a, NEW x, NEW R, NEW P, SheetBase(a, x, R, P), x.loads = 0
    PROVE  GoodBody(a, NextBody(x), R, P)
<1>1. CASE x.unacked # None
  BY <1>1 DEF SheetBase, NextBody
<1>2. CASE x.unacked = None
  <2>1. Shown(x) \in Plans /\ Shown(x) = Room(a, Shown(x))
    BY DEF SheetBase, SheetState, Shown, Known
  <2>2. NextBody(x) = [revision |-> x.revision, room |-> Shown(x), base |-> x.saved]
    BY <1>2 DEF NextBody
  <2>3. QED BY <2>1, <2>2 DEF SheetBase, SheetState, GoodBody, Bodies, Known
<1>3. QED BY <1>1, <1>2

(* A step of one tablet: its sheet and one of its requests.                *)
LEMMA TabletStep ==
    ASSUME Inv, NEW s \in Sheets, NEW n \in Line, NEW x, NEW q,
           sheet' = [sheet EXCEPT ![s] = x], req' = [req EXCEPT ![<<s, n>>] = q],
           UNCHANGED Server, Counts',
           GoodSheet(AreaOf[s], x, revision, plan, versions),
           GoodRequest(<<s, n>>, q, revision, plan, versions, writers),
           x.waits # 0 => req'[<<s, x.waits>>].at # "free"
    PROVE  Inv'
<1>1. Stores' /\ Locks'
  BY DEF Inv, Stores, Locks, Server, Stored
<1>2. UNCHANGED <<plan, revision, versions, writers>>
  BY DEF Server
<1>3. <<s, n>> \in Requests
  BY DEF Requests
<1>4. Saves'
  <2>1. req' \in [Requests -> RequestState]
    BY <1>3 DEF Inv, Saves, GoodRequest
  <2>2. ASSUME NEW r \in Requests
        PROVE  GoodRequest(r, req'[r], revision, plan, versions, writers)
    BY <1>3 DEF Inv, Saves
  <2>3. QED BY <1>2, <2>1, <2>2 DEF Saves
<1>5. Editors'
  <2>1. sheet' \in [Sheets -> SheetState]
    BY DEF Inv, Editors, GoodSheet, SheetBase
  <2>2. ASSUME NEW u \in Sheets
        PROVE  GoodSheet(AreaOf[u], sheet'[u], revision, plan, versions)
    BY DEF Inv, Editors
  <2>3. QED BY <1>2, <2>1, <2>2 DEF Editors
<1>6. Waiting'
  <2> SUFFICES ASSUME NEW u \in Sheets, sheet'[u].waits # 0
               PROVE  req'[<<u, sheet'[u].waits>>].at # "free"
    BY DEF Waiting
  <2>1. CASE u = s
    BY <2>1 DEF Inv, Editors
  <2>2. CASE u # s
    <3>1. sheet'[u] = sheet[u] /\ sheet[u].waits \in Line
      BY <2>2 DEF Inv, Editors, SheetState
    <3>2. <<u, sheet[u].waits>> \in Requests /\ <<u, sheet[u].waits>> # <<s, n>>
      BY <2>2, <3>1 DEF Requests
    <3>3. req'[<<u, sheet[u].waits>>] = req[<<u, sheet[u].waits>>]
      BY <3>2 DEF Inv, Saves
    <3>4. QED BY <3>1, <3>3 DEF Inv, Waiting
  <2>3. QED BY <2>1, <2>2
<1>7. QED BY <1>1, <1>4, <1>5, <1>6 DEF Inv

(* ... that sends the next save.                                           *)
LEMMA SendStep ==
    ASSUME Inv, NEW s \in Sheets, NEW n \in Line, NEW x, Send(s, x, n),
           UNCHANGED Server, Counts',
           SheetBase(AreaOf[s], x, revision, plan), x.loads = 0
    PROVE  Inv'
<1> DEFINE y == [x EXCEPT !.waits = n]
           q == Sent(NextBody(x))
<1>1. GoodSheet(AreaOf[s], y, revision, plan, versions)
  <2>1. n # 0
    BY DEF Line
  <2>2. y \in SheetState /\ y.waits = n /\ y.loads = 0
    BY DEF SheetBase, SheetState
  <2>3. /\ y.revision = x.revision /\ y.saved = x.saved
        /\ y.pending = x.pending /\ y.unacked = x.unacked
    BY DEF SheetBase, SheetState
  <2>4. QED BY <2>1, <2>2, <2>3 DEF GoodSheet, SheetBase
<1>2. <<s, n>> \in Requests /\ Area(<<s, n>>) = AreaOf[s]
  BY DEF Requests, Area
<1>3. GoodRequest(<<s, n>>, q, revision, plan, versions, writers) /\ q.at = "sent"
  BY <1>2, NextBodyIsGood, SentIsGood
<1>4. sheet' = [sheet EXCEPT ![s] = y] /\ req' = [req EXCEPT ![<<s, n>>] = q]
  BY DEF Send
<1>5. y.waits = n
  BY DEF SheetBase, SheetState
<1>6. req'[<<s, y.waits>>].at # "free"
  BY <1>2, <1>3, <1>4, <1>5 DEF Inv, Saves
<1> HIDE DEF y, q
<1>7. QED BY <1>1, <1>3, <1>4, <1>6, TabletStep

(* ... that changes its sheet alone.                                       *)
LEMMA SheetStep ==
    ASSUME Inv, NEW s \in Sheets, NEW x,
           sheet' = [sheet EXCEPT ![s] = x], UNCHANGED req, UNCHANGED Server, Counts',
           GoodSheet(AreaOf[s], x, revision, plan, versions),
           x.waits \in {0, sheet[s].waits}
    PROVE  Inv'
<1>1. <<s, 1>> \in Requests /\ 1 \in Line
  BY DEF Requests, Line
<1>2. req' = [req EXCEPT ![<<s, 1>>] = req[<<s, 1>>]]
  BY <1>1 DEF Inv, Saves
<1>3. GoodRequest(<<s, 1>>, req[<<s, 1>>], revision, plan, versions, writers)
  BY <1>1 DEF Inv, Saves
<1>4. x.waits # 0 => req'[<<s, x.waits>>].at # "free"
  BY DEF Inv, Waiting
<1>5. QED BY <1>1, <1>2, <1>3, <1>4, TabletStep

LEMMA SaveStep ==
    ASSUME Inv, NEW s \in Sheets, NEW x, Save(s, x), UNCHANGED Server, Counts',
           SheetBase(AreaOf[s], x, revision, plan), x.loads = 0, x.waits = sheet[s].waits
    PROVE  Inv'
<1>1. CASE x.waits # 0 /\ sheet' = [sheet EXCEPT ![s] = [x EXCEPT !.again = TRUE]] /\ UNCHANGED req
  <2> DEFINE y == [x EXCEPT !.again = TRUE]
  <2>1. y \in SheetState /\ y.waits = x.waits /\ y.loads = 0
    BY DEF SheetBase, SheetState
  <2>2. /\ y.revision = x.revision /\ y.saved = x.saved
        /\ y.pending = x.pending /\ y.unacked = x.unacked
    BY DEF SheetBase, SheetState
  <2>3. GoodSheet(AreaOf[s], y, revision, plan, versions)
    BY <1>1, <2>1, <2>2 DEF GoodSheet, SheetBase
  <2>4. sheet' = [sheet EXCEPT ![s] = y]
    BY <1>1
  <2> HIDE DEF y
  <2>5. QED BY <1>1, <2>1, <2>3, <2>4, SheetStep
<1>2. CASE Send(s, x, FreeLine(s))
  <2>1. FreeLine(s) \in Line
    BY DEF FreeLine, Line
  <2>2. QED BY <1>2, <2>1, SendStep
<1>3. QED BY <1>1, <1>2 DEF Save

LEMMA EditKeeps ==
    ASSUME Inv, NEW s \in Sheets, NEW draft \in Drafts, Edit(s, draft)
    PROVE  Inv'
<1> DEFINE room == Room(AreaOf[s], draft)
           x == [sheet[s] EXCEPT !.pending = room]
<1>1. room \in Plans /\ room = Room(AreaOf[s], room)
  BY RoomIsPlan, FloorPlanAssumption
<1>2. SheetBase(AreaOf[s], sheet[s], revision, plan) /\ sheet[s] \in SheetState /\ sheet[s].loads = 0
  BY DEF Inv, Editors, GoodSheet, Edit
<1> HIDE DEF room
<1>3. /\ x \in SheetState /\ x.waits = sheet[s].waits /\ x.loads = 0 /\ x.pending = room
      /\ x.revision = sheet[s].revision /\ x.saved = sheet[s].saved /\ x.unacked = sheet[s].unacked
  BY <1>1, <1>2 DEF SheetState
<1>4. SheetBase(AreaOf[s], x, revision, plan)
  BY <1>1, <1>2, <1>3 DEF SheetBase
<1>5. Save(s, x) /\ UNCHANGED Server /\ Counts'
  BY FloorPlanAssumption DEF Edit, Inv, Counts, room, Server
<1> HIDE DEF x
<1>6. QED BY <1>3, <1>4, <1>5, SaveStep

LEMMA RetryKeeps ==
    ASSUME Inv, NEW s \in Sheets, Retry(s)
    PROVE  Inv'
<1>1. SheetBase(AreaOf[s], sheet[s], revision, plan) /\ sheet[s].loads = 0
  BY DEF Inv, Editors, GoodSheet, Retry
<1>2. Save(s, sheet[s]) /\ UNCHANGED Server /\ Counts'
  BY DEF Retry, Inv, Counts, Server
<1>3. QED BY <1>1, <1>2, SaveStep

(* What a tablet makes of an answer: if it then neither waits nor has       *)
(* something to send, it shows what the server stored.                     *)
LEMMA HeardIsGood ==
    ASSUME NEW a, NEW x, NEW q, NEW R, NEW P, NEW V,
           SheetBase(a, x, R, P), x.loads = 0,
           GoodBody(a, q.body, R, P), GoodAnswer(a, q, R, P, V), q \in RequestState
    PROVE  LET y == Heard(x, q)
           IN  /\ SheetBase(a, y, R, P) /\ y.loads = 0 /\ y.waits = x.waits
               /\ ~y.again /\ ~y.unsaved /\ y.pending # None => IsVersion(a, y.revision, y.pending, R, V)
<1> USE DEF Heard
<1>1. CASE q.code = "ok"
  <2> DEFINE y == Taken(x, q)
  <2>1. /\ y \in SheetState /\ y.loads = 0 /\ y.waits = x.waits /\ y.pending = x.pending
        /\ y.revision = q.revision /\ y.saved = q.room /\ y.unacked = None
        /\ y.again = (x.again \/ x.pending \notin {None, q.body.room})
    BY <1>1 DEF Taken, SheetBase, SheetState, RequestState, GoodAnswer, Known
  <2>2. Heard(x, q) = y
    BY <1>1
  <2> HIDE DEF y, Heard
  <2>3. SheetBase(a, y, R, P)
    BY <1>1, <2>1 DEF SheetBase, GoodAnswer
  <2>4. ~y.again /\ ~y.unsaved /\ y.pending # None => IsVersion(a, y.revision, y.pending, R, V)
    BY <1>1, <2>1 DEF GoodAnswer
  <2>5. QED BY <2>1, <2>2, <2>3, <2>4
<1>2. CASE q.code \in {"stale", "refused"}
  <2> DEFINE rev == IF q.code = "stale" THEN q.revision ELSE x.revision
             room == IF q.code = "stale" THEN q.room ELSE x.saved
             y == Adopt(x, rev, room)
  <2>1. Known(a, rev, room, R, P)
    BY <1>2 DEF SheetBase, GoodAnswer
  <2>2. Heard(x, q) = y
    BY <1>2
  <2> HIDE DEF rev, room, Heard
  <2>3. /\ y \in SheetState /\ y.loads = 0 /\ y.waits = x.waits /\ y.pending = None
        /\ y.revision = rev /\ y.saved = room /\ y.unacked = None
    BY <2>1 DEF Adopt, SheetBase, SheetState, Known
  <2> HIDE DEF y
  <2>4. SheetBase(a, y, R, P)
    BY <2>1, <2>3 DEF SheetBase
  <2>5. QED BY <2>2, <2>3, <2>4
<1>3. CASE q.code = "failed"
  <2> DEFINE y == Lost(x, q.body)
  <2>1. Heard(x, q) = y
    BY <1>3
  <2> HIDE DEF Heard
  <2>2. /\ y \in SheetState /\ y.loads = 0 /\ y.waits = x.waits /\ y.pending = x.pending
        /\ y.revision = x.revision /\ y.saved = x.saved /\ y.unacked = q.body /\ y.unsaved
    BY DEF Lost, SheetBase, SheetState, GoodBody
  <2> HIDE DEF y
  <2>3. SheetBase(a, y, R, P)
    BY <2>2 DEF SheetBase
  <2>4. QED BY <2>1, <2>2, <2>3
<1>4. q.code \in {"ok", "stale", "refused", "failed"}
  BY DEF GoodAnswer, RequestState
<1>5. QED BY <1>1, <1>2, <1>3, <1>4

LEMMA AnswerKeeps ==
    ASSUME Inv, NEW s \in Sheets, Answer(s)
    PROVE  Inv'
<1> DEFINE n == sheet[s].waits
           q == req[<<s, n>>]
           y == Heard(sheet[s], q)
           z == [y EXCEPT !.waits = 0]
           w == [y EXCEPT !.again = FALSE]
<1>1. n \in Line /\ <<s, n>> \in Requests /\ Area(<<s, n>>) = AreaOf[s]
  BY DEF Inv, Editors, SheetState, Answer, Requests, Area
<1>2. /\ SheetBase(AreaOf[s], sheet[s], revision, plan) /\ sheet[s].loads = 0
      /\ q \in RequestState
      /\ GoodBody(AreaOf[s], q.body, revision, plan)
      /\ GoodAnswer(AreaOf[s], q, revision, plan, versions)
  BY <1>1 DEF Inv, Editors, GoodSheet, SheetBase, Saves, GoodRequest, Answer
<1>3. /\ SheetBase(AreaOf[s], y, revision, plan) /\ y.loads = 0
      /\ ~y.again /\ ~y.unsaved /\ y.pending # None =>
             IsVersion(AreaOf[s], y.revision, y.pending, revision, versions)
  BY <1>2, HeardIsGood
<1>4. UNCHANGED Server /\ Counts'
  BY DEF Answer, Inv, Counts, Server
<1>5. \/ ~(y.again /\ ~y.unsaved) /\ sheet' = [sheet EXCEPT ![s] = z]
         /\ req' = [req EXCEPT ![<<s, n>>] = Free]
      \/ y.again /\ ~y.unsaved /\ Send(s, w, n)
  BY DEF Answer
<1> HIDE DEF y, n
<1>6. CASE ~(y.again /\ ~y.unsaved) /\ sheet' = [sheet EXCEPT ![s] = z]
           /\ req' = [req EXCEPT ![<<s, n>>] = Free]
  <2>1. /\ z \in SheetState /\ z.waits = 0 /\ z.loads = 0 /\ z.pending = y.pending
        /\ z.revision = y.revision /\ z.saved = y.saved /\ z.unacked = y.unacked
        /\ z.unsaved = y.unsaved
    BY <1>3 DEF SheetBase, SheetState
  <2>2. GoodSheet(AreaOf[s], z, revision, plan, versions)
    BY <1>3, <1>6, <2>1 DEF GoodSheet, SheetBase
  <2> HIDE DEF z
  <2>3. GoodRequest(<<s, n>>, Free, revision, plan, versions, writers)
    BY FreeIsGood
  <2>4. QED BY <1>1, <1>4, <1>6, <2>1, <2>2, <2>3, TabletStep
<1>7. CASE y.again /\ ~y.unsaved /\ Send(s, w, n)
  <2>1. /\ w \in SheetState /\ w.waits = y.waits /\ w.loads = 0 /\ w.pending = y.pending
        /\ w.revision = y.revision /\ w.saved = y.saved /\ w.unacked = y.unacked
    BY <1>3 DEF SheetBase, SheetState
  <2>2. SheetBase(AreaOf[s], w, revision, plan)
    BY <1>3, <2>1 DEF SheetBase
  <2> HIDE DEF w
  <2>3. QED BY <1>1, <1>4, <1>7, <2>1, <2>2, SendStep
<1>8. QED BY <1>5, <1>6, <1>7

(* Giving a request up leaves it as it was, or frees it.                   *)
LEMMA AbandonedIsGood ==
    ASSUME Inv, NEW r \in Requests, Abandoned(r)
    PROVE  \E q : req' = [req EXCEPT ![r] = q] /\ GoodRequest(r, q, revision, plan, versions, writers)
<1>1. CASE req' = [req EXCEPT ![r] = Free]
  BY <1>1, FreeIsGood
<1>2. CASE UNCHANGED req
  <2>1. req' = [req EXCEPT ![r] = req[r]]
    BY <1>2 DEF Inv, Saves
  <2>2. QED BY <2>1 DEF Inv, Saves
<1>3. QED BY <1>1, <1>2 DEF Abandoned

LEMMA LoseKeeps ==
    ASSUME Inv, NEW s \in Sheets, Lose(s)
    PROVE  Inv'
<1> DEFINE n == sheet[s].waits
           x == [Lost(sheet[s], req[<<s, n>>].body) EXCEPT !.waits = 0]
<1>1. n \in Line /\ <<s, n>> \in Requests /\ Area(<<s, n>>) = AreaOf[s]
  BY DEF Inv, Editors, SheetState, Lose, Requests, Area
<1>2. /\ SheetBase(AreaOf[s], sheet[s], revision, plan) /\ sheet[s].loads = 0
      /\ GoodBody(AreaOf[s], req[<<s, n>>].body, revision, plan)
  BY <1>1 DEF Inv, Editors, GoodSheet, SheetBase, Saves, GoodRequest, Lose, Waiting
<1>3. /\ x \in SheetState /\ x.waits = 0 /\ x.loads = 0 /\ x.pending = sheet[s].pending
      /\ x.revision = sheet[s].revision /\ x.saved = sheet[s].saved
      /\ x.unacked = req[<<s, n>>].body /\ x.unsaved
  BY <1>2 DEF SheetBase, SheetState, Lost, GoodBody
<1>4. sheet' = [sheet EXCEPT ![s] = x] /\ Abandoned(<<s, n>>) /\ UNCHANGED Server
  BY DEF Lose, Server
<1>5. Counts'
  BY FloorPlanAssumption DEF Lose, Inv, Counts
<1> HIDE DEF x, n
<1>6. GoodSheet(AreaOf[s], x, revision, plan, versions)
  BY <1>2, <1>3 DEF GoodSheet, SheetBase
<1>7. PICK q : req' = [req EXCEPT ![<<s, n>>] = q] /\ GoodRequest(<<s, n>>, q, revision, plan, versions, writers)
  BY <1>1, <1>4, AbandonedIsGood
<1>8. QED BY <1>1, <1>3, <1>4, <1>5, <1>6, <1>7, TabletStep

LEMMA ReloadKeeps ==
    ASSUME Inv, NEW s \in Sheets, Reload(s)
    PROVE  Inv'
<1> DEFINE n == IF sheet[s].waits = 0 THEN 1 ELSE sheet[s].waits
           x == [FromDoc(1, sheet[s].saved) EXCEPT !.loads = revision[AreaOf[s]]]
<1>1. n \in Line /\ <<s, n>> \in Requests
  BY DEF Inv, Editors, SheetState, Requests, Line
<1>2. revision[AreaOf[s]] \in Nat \ {0}
  BY FloorPlanAssumption DEF Inv, Stores
<1>3. /\ x \in SheetState /\ x.waits = 0 /\ x.loads = revision[AreaOf[s]] /\ x.pending = None
      /\ x.unacked = None
  BY <1>2 DEF Inv, Editors, SheetState, FromDoc
<1>4. sheet' = [sheet EXCEPT ![s] = x] /\ UNCHANGED Server
  BY DEF Reload, Server
<1>5. Counts'
  BY FloorPlanAssumption DEF Reload, Inv, Counts
<1> HIDE DEF x
<1>6. GoodSheet(AreaOf[s], x, revision, plan, versions)
  BY <1>2, <1>3 DEF GoodSheet, SheetBase
<1>7. CASE UNCHANGED req
  BY <1>3, <1>4, <1>5, <1>6, <1>7, SheetStep
<1>8. CASE sheet[s].waits # 0 /\ Abandoned(<<s, sheet[s].waits>>)
  <2>1. PICK q : req' = [req EXCEPT ![<<s, n>>] = q] /\ GoodRequest(<<s, n>>, q, revision, plan, versions, writers)
    BY <1>1, <1>8, AbandonedIsGood
  <2> HIDE DEF n
  <2>2. QED BY <1>1, <1>3, <1>4, <1>5, <1>6, <2>1, TabletStep
<1>9. QED BY <1>7, <1>8 DEF Reload

LEMMA LoadedKeeps ==
    ASSUME Inv, NEW s \in Sheets, Loaded(s)
    PROVE  Inv'
<1> DEFINE x == FromDoc(sheet[s].loads, Stored(AreaOf[s]))
<1>1. AreaOf[s] \in Areas /\ sheet[s] \in SheetState /\ sheet[s].loads <= revision[AreaOf[s]]
  BY FloorPlanAssumption DEF Inv, Editors, GoodSheet, SheetBase, Loaded
<1>2. Stored(AreaOf[s]) \in Plans /\ Stored(AreaOf[s]) = Room(AreaOf[s], Stored(AreaOf[s]))
  BY RoomIsPlan DEF Inv, Stores, Stored
<1>3. /\ x \in SheetState /\ x.waits = 0 /\ x.loads = 0 /\ x.pending = None /\ x.unacked = None
      /\ x.revision = sheet[s].loads /\ x.saved = Stored(AreaOf[s])
  BY <1>1, <1>2 DEF SheetState, FromDoc
<1>4. sheet' = [sheet EXCEPT ![s] = x] /\ UNCHANGED req /\ UNCHANGED Server /\ Counts'
  BY DEF Loaded, Server, Inv, Counts
<1> HIDE DEF x
<1>5. Known(AreaOf[s], x.revision, x.saved, revision, plan)
  BY <1>1, <1>2, <1>3 DEF Known, Stored, SheetState
<1>6. GoodSheet(AreaOf[s], x, revision, plan, versions)
  BY <1>3, <1>5 DEF GoodSheet, SheetBase
<1>7. QED BY <1>3, <1>4, <1>6, SheetStep
-----------------------------------------------------------------------------
(* The server. *)

(* A step of one request that stores nothing.                              *)
LEMMA RequestStep ==
    ASSUME Inv, NEW r \in Requests, NEW q,
           req' = [req EXCEPT ![r] = q],
           UNCHANGED <<plan, revision, versions, sheet>>, Locks', Counts',
           writers \ {r} \subseteq writers',
           GoodRequest(r, q, revision, plan, versions, writers'),
           q.at = "free" => sheet[r[1]].waits # r[2]
    PROVE  Inv'
<1>1. Stores' /\ Editors'
  BY DEF Inv, Stores, Editors, Stored
<1>2. Saves'
  <2>1. req' \in [Requests -> RequestState]
    BY DEF Inv, Saves, GoodRequest
  <2>2. ASSUME NEW u \in Requests
        PROVE  GoodRequest(u, req'[u], revision, plan, versions, writers')
    <3>1. CASE u = r
      BY <3>1 DEF Inv, Saves
    <3>2. CASE u # r
      BY <3>2 DEF Inv, Saves, GoodRequest
    <3>3. QED BY <3>1, <3>2
  <2>3. QED BY <2>1, <2>2 DEF Saves
<1>3. Waiting'
  <2> SUFFICES ASSUME NEW s \in Sheets, sheet[s].waits # 0
               PROVE  req'[<<s, sheet[s].waits>>].at # "free"
    BY DEF Waiting
  <2>1. <<s, sheet[s].waits>> \in Requests
    BY DEF Inv, Editors, SheetState, Requests
  <2>2. req[<<s, sheet[s].waits>>].at # "free"
    BY DEF Inv, Waiting
  <2>3. CASE <<s, sheet[s].waits>> = r
    BY <2>3 DEF Inv, Saves
  <2>4. CASE <<s, sheet[s].waits>> # r
    BY <2>1, <2>2, <2>4 DEF Inv, Saves
  <2>5. QED BY <2>3, <2>4
<1>4. QED BY <1>1, <1>2, <1>3 DEF Inv

(* What Reply leaves of a request.                                         *)
Replied(r, code, rev, room) ==
    IF sheet[r[1]].waits = r[2]
    THEN [req[r] EXCEPT !.at = "answered", !.held = {}, !.code = code,
                        !.revision = rev, !.room = room]
    ELSE Free

LEMMA RepliedIsGood ==
    ASSUME Inv, NEW r \in Requests, req[r].at # "free",
           NEW code \in {"ok", "stale", "refused", "failed"}, NEW rev \in Nat, NEW room \in Plans \cup {None},
           NEW R, NEW P, NEW V, NEW W,
           GoodBody(Area(r), req[r].body, R, P),
           code \in {"ok", "stale"} => Known(Area(r), rev, room, R, P),
           code = "ok" => room = req[r].body.room /\ IsVersion(Area(r), rev, room, R, V)
    PROVE  LET q == Replied(r, code, rev, room)
           IN  GoodRequest(r, q, R, P, V, W) /\ (q.at = "free" => sheet[r[1]].waits # r[2])
<1>1. CASE sheet[r[1]].waits = r[2]
  <2> DEFINE q == [req[r] EXCEPT !.at = "answered", !.held = {}, !.code = code,
                                 !.revision = rev, !.room = room]
  <2>1. /\ q \in RequestState /\ q.at = "answered" /\ q.code = code /\ q.revision = rev
        /\ q.room = room /\ q.body = req[r].body
    BY DEF Inv, Saves, RequestState
  <2>2. Replied(r, code, rev, room) = q
    BY <1>1 DEF Replied
  <2> HIDE DEF q
  <2>3. GoodRequest(r, q, R, P, V, W)
    BY <2>1 DEF GoodRequest, GoodAnswer
  <2>4. QED BY <2>1, <2>2, <2>3
<1>2. CASE sheet[r[1]].waits # r[2]
  BY <1>2, FreeIsGood DEF Replied
<1>3. QED BY <1>1, <1>2

(* A request that is answered without a store.                             *)
LEMMA ReplyStep ==
    ASSUME Inv, NEW r \in Requests, req[r].at # "free",
           NEW code \in {"ok", "stale", "refused", "failed"}, NEW rev \in Nat, NEW room \in Plans \cup {None},
           Reply(r, code, rev, room), writers' = writers \ {r}, Locks', Counts',
           UNCHANGED <<plan, revision, versions, sheet>>,
           code \in {"ok", "stale"} => Known(Area(r), rev, room, revision, plan),
           code = "ok" => room = req[r].body.room /\ IsVersion(Area(r), rev, room, revision, versions)
    PROVE  Inv'
<1>1. GoodBody(Area(r), req[r].body, revision, plan)
  BY DEF Inv, Saves, GoodRequest
<1>2. req' = [req EXCEPT ![r] = Replied(r, code, rev, room)]
  BY DEF Reply, Replied
<1>3. /\ GoodRequest(r, Replied(r, code, rev, room), revision, plan, versions, writers')
      /\ Replied(r, code, rev, room).at = "free" => sheet[r[1]].waits # r[2]
  BY <1>1, RepliedIsGood
<1>4. QED BY <1>2, <1>3, RequestStep

(* The room the server holds is the room of its newest revision.           *)
LEMMA StoredIsKnown ==
    ASSUME Inv, NEW a \in Areas
    PROVE  /\ revision[a] \in Nat \ {0} /\ Stored(a) \in Plans
           /\ Known(a, revision[a], Stored(a), revision, plan)
           /\ IsVersion(a, revision[a], Stored(a), revision, versions)
<1>1. revision[a] \in Nat \ {0}
  BY DEF Inv, Stores
<1>2. Stored(a) \in Plans /\ Stored(a) = Room(a, Stored(a))
  BY RoomIsPlan DEF Inv, Stores, Stored
<1>3. QED BY <1>1, <1>2 DEF Inv, Stores, Known, IsVersion, Stored

LEMMA BeginKeeps ==
    ASSUME Inv, NEW r \in Requests, Begin(r)
    PROVE  Inv'
<1>1. Area(r) \in Areas
  BY AreaIsArea
<1>2. req[r].at = "sent" /\ writers = {}
  BY DEF Begin, MayEnter, Excludes
<1>3. Counts' /\ UNCHANGED <<plan, revision, versions, sheet>>
  BY DEF Begin, Inv, Counts
<1>4. CASE writers' = writers \ {r}
  <2>1. Locks'
    BY <1>2, <1>4 DEF Begin, Inv, Locks
  <2>2. CASE Reply(r, "stale", revision[Area(r)], Stored(Area(r)))
    BY <1>1, <1>2, <1>3, <1>4, <2>1, <2>2, StoredIsKnown, ReplyStep
  <2>3. CASE Reply(r, "refused", 0, None)
    BY <1>2, <1>3, <1>4, <2>1, <2>3, ReplyStep
  <2>4. CASE Unchanged(r) /\ Reply(r, "ok", revision[Area(r)], Stored(Area(r)))
    BY <1>1, <1>2, <1>3, <1>4, <2>1, <2>4, StoredIsKnown, ReplyStep DEF Unchanged
  <2>5. CASE req' = [req EXCEPT ![r].at = "applying"] /\ writers' = writers \cup {r}
    BY <1>2, <1>4, <2>5
  <2>6. QED BY <2>2, <2>3, <2>4, <2>5 DEF Begin, Released, AfterRefusal
<1>5. CASE IsCurrent(r) /\ ~NameTaken(r) /\ req' = [req EXCEPT ![r].at = "applying"]
           /\ writers' = writers \cup {r}
  <2> DEFINE q == [req[r] EXCEPT !.at = "applying"]
  <2>1. Locks'
    BY <1>2, <1>5 DEF Begin, Inv, Locks
  <2>2. q \in RequestState /\ q.at = "applying" /\ q.body = req[r].body
    BY DEF Inv, Saves, RequestState
  <2>3. GoodBody(Area(r), req[r].body, revision, plan)
    BY <1>2 DEF Inv, Saves, GoodRequest
  <2>4. NamesFit(Area(r), req[r].body.room, plan)
    BY <1>5 DEF NameTaken, NamesFit
  <2>5. req' = [req EXCEPT ![r] = q]
    BY <1>5
  <2> HIDE DEF q
  <2>6. GoodRequest(r, q, revision, plan, versions, writers')
    BY <1>5, <2>2, <2>3, <2>4 DEF GoodRequest, IsCurrent
  <2>7. QED BY <1>3, <1>5, <2>1, <2>2, <2>5, <2>6, RequestStep
<1>6. QED BY <1>4, <1>5 DEF Begin, Released, AfterRefusal

LEMMA LockRowKeeps ==
    ASSUME Inv, NEW r \in Requests, NEW t \in Tables, LockRow(r, t)
    PROVE  Inv'
<1> DEFINE q == [req[r] EXCEPT !.held = @ \cup {t}]
<1>1. /\ q \in RequestState /\ q.at = req[r].at /\ q.body = req[r].body /\ q.at = "applying"
  BY DEF Inv, Saves, RequestState, LockRow
<1>2. req' = [req EXCEPT ![r] = q]
  BY DEF LockRow
<1>3. UNCHANGED <<plan, revision, versions, sheet, writers>> /\ Locks' /\ Counts'
  BY DEF LockRow, Server, Inv, Locks, Counts
<1> HIDE DEF q
<1>4. GoodRequest(r, q, revision, plan, versions, writers)
  BY <1>1 DEF Inv, Saves, GoodRequest
<1>5. QED BY <1>1, <1>2, <1>3, <1>4, RequestStep

(* A request in the lock has nothing for the database to refuse.           *)
LEMMA NoClash ==
    ASSUME Inv, NEW r \in Requests, req[r].at = "applying"
    PROVE  ~Clashes(r)
<1> DEFINE m == req[r].body.room
<1>1. NamesFit(Area(r), m, plan)
  BY DEF Inv, Saves, GoodRequest
<1> SUFFICES ASSUME NEW t \in Touched(r), NEW u \in Tables, t # u, m[t] # NoName,
                    m[t] = m[u] \/ (u \notin Leaves(r) /\ m[t] = plan[u])
             PROVE  FALSE
  BY DEF Clashes
<1>2. t \in RoomTables(Area(r)) /\ t \in Tables
  BY DEF Touched, RoomTables
<1>3. CASE m[t] = m[u]
  BY <1>1, <1>2, <1>3 DEF NamesFit, Unique
<1>4. CASE m[t] = plan[u] /\ u \notin RoomTables(Area(r))
  BY <1>1, <1>2, <1>4 DEF NamesFit
<1>5. CASE m[t] = plan[u] /\ u \in RoomTables(Area(r)) /\ u \notin Leaves(r)
  <2>1. plan[u] = m[u]
    BY <1>5 DEF Leaves
  <2>2. QED BY <1>1, <1>2, <1>5, <2>1 DEF NamesFit, Unique
<1>6. QED BY <1>3, <1>4, <1>5

LEMMA StoreKeeps ==
    ASSUME Inv, NEW r \in Requests, Store(r)
    PROVE  Inv'
<1> DEFINE a == Area(r)
           m == req[r].body.room
           q == Replied(r, "ok", revision[a] + 1, m)
<1>1. req[r].at = "applying" /\ ~Clashes(r)
  BY NoClash DEF Store
<1>2. a \in Areas /\ r[1] \in Sheets
  BY AreaIsArea
<1>3. /\ req[r] \in RequestState /\ GoodBody(a, req[r].body, revision, plan)
      /\ r \in writers /\ req[r].body.revision = revision[a] /\ NamesFit(a, m, plan)
  BY <1>1 DEF Inv, Saves, GoodRequest
<1>4. m \in Plans /\ m = Room(a, m)
  BY <1>3 DEF GoodBody, Bodies
<1>5. /\ plan' = Furnish(a, m, plan)
      /\ revision' = [revision EXCEPT ![a] = @ + 1]
      /\ versions' = [versions EXCEPT ![a] = Append(@, m)]
      /\ req' = [req EXCEPT ![r] = q]
      /\ writers' = writers \ {r}
      /\ UNCHANGED <<share, booking, sheet, edits, faults>>
  BY <1>1 DEF Store, Furnish, Reply, Replied, Released
<1>6. /\ plan \in Plans /\ Unique(plan) /\ revision \in [Areas -> Nat \ {0}]
      /\ versions \in [Areas -> Seq(Plans)]
      /\ \A c \in Areas : Len(versions[c]) = revision[c] /\ versions[c][revision[c]] = Stored(c)
  BY DEF Inv, Stores
<1> HIDE DEF a, m, q
<1>7. Stores'
  <2>1. plan' \in Plans /\ Unique(plan')
    BY <1>3, <1>4, <1>5, <1>6, FurnishRooms, FurnishUnique
  <2>2. revision' \in [Areas -> Nat \ {0}]
    BY <1>2, <1>5, <1>6
  <2>3. versions' \in [Areas -> Seq(Plans)]
    <3>1. Append(versions[a], m) \in Seq(Plans)
      BY <1>2, <1>4, <1>6
    <3>2. QED BY <1>5, <1>6, <3>1
  <2>4. ASSUME NEW c \in Areas
        PROVE  Len(versions'[c]) = revision'[c] /\ versions'[c][revision'[c]] = Room(c, plan')
    <3>1. CASE c = a
      <4>1. versions'[c] = Append(versions[a], m) /\ revision'[c] = revision[a] + 1
        BY <1>2, <1>5, <1>6, <3>1
      <4>2. Room(a, plan') = m
        BY <1>4, <1>5, <1>6, FurnishRooms
      <4>3. versions[a] \in Seq(Plans) /\ Len(versions[a]) = revision[a]
        BY <1>2, <1>6
      <4>4. Len(Append(versions[a], m)) = revision[a] + 1 /\ Append(versions[a], m)[revision[a] + 1] = m
        BY <1>4, <4>3
      <4>5. QED BY <3>1, <4>1, <4>2, <4>4
    <3>2. CASE c # a
      <4>1. versions'[c] = versions[c] /\ revision'[c] = revision[c]
        BY <1>5, <1>6, <3>2
      <4>2. Room(c, plan') = Room(c, plan)
        BY <1>4, <1>5, <1>6, <3>2, FurnishRooms
      <4>3. QED BY <1>6, <4>1, <4>2 DEF Stored
    <3>3. QED BY <3>1, <3>2
  <2>5. QED BY <2>1, <2>2, <2>3, <2>4 DEF Stores, Stored
<1>8. Locks' /\ Counts'
  BY <1>5 DEF Inv, Locks, Counts
<1>9. Saves'
  <2>1. /\ GoodRequest(r, q, revision', plan', versions', writers')
        /\ q.at = "free" => sheet[r[1]].waits # r[2]
    <3>1. revision[a] + 1 \in Nat /\ revision'[a] = revision[a] + 1
      BY <1>2, <1>5, <1>6
    <3>2. Room(a, plan') = m /\ versions'[a][revision'[a]] = m
      <4>1. Room(a, plan') = m
        BY <1>4, <1>5, <1>6, FurnishRooms
      <4>2. QED BY <1>2, <1>7, <4>1 DEF Stores, Stored
    <3>3. Known(a, revision[a] + 1, m, revision', plan')
      BY <1>4, <3>1, <3>2 DEF Known
    <3>4. IsVersion(a, revision[a] + 1, m, revision', versions')
      BY <1>2, <1>6, <3>1, <3>2 DEF IsVersion
    <3>5. GoodBody(a, req[r].body, revision', plan')
      BY <1>2, <1>3, <1>4, <1>5, <1>6, KnownStays DEF GoodBody
    <3>6. QED BY <1>1, <1>4, <3>1, <3>3, <3>4, <3>5, RepliedIsGood DEF a, m, q
  <2>2. req' \in [Requests -> RequestState]
    BY <1>5, <2>1 DEF Inv, Saves, GoodRequest
  <2>3. ASSUME NEW u \in Requests
        PROVE  GoodRequest(u, req'[u], revision', plan', versions', writers')
    <3>1. CASE u = r
      BY <1>5, <2>1, <3>1 DEF Inv, Saves
    <3>2. CASE u # r
      <4>1. req'[u] = req[u] /\ GoodRequest(u, req[u], revision, plan, versions, writers)
        BY <1>5, <3>2 DEF Inv, Saves
      <4>2. req[u].at # "applying"
        BY <1>3, <3>2, <4>1 DEF Inv, Locks, GoodRequest
      <4>3. \A c \in Areas : Len(versions[c]) = revision[c]
        BY <1>6
      <4>4. GoodRequest(u, req[u], [revision EXCEPT ![a] = @ + 1], Furnish(a, m, plan),
                        [versions EXCEPT ![a] = Append(@, m)], writers')
        BY ONLY <1>2, <1>4, <1>6, <4>1, <4>2, <4>3, RequestStays
      <4>5. QED BY <1>5, <4>1, <4>4
    <3>3. QED BY <3>1, <3>2
  <2>4. QED BY <2>2, <2>3 DEF Saves
<1>10. Editors'
  <2>1. ASSUME NEW s \in Sheets
        PROVE  GoodSheet(AreaOf[s], sheet[s], revision', plan', versions')
    <3>1. AreaOf[s] \in Areas /\ GoodSheet(AreaOf[s], sheet[s], revision, plan, versions)
      BY FloorPlanAssumption DEF Inv, Editors
    <3>2. QED BY <1>2, <1>4, <1>5, <1>6, <3>1, SheetStays
  <2>2. QED BY <1>5, <2>1 DEF Inv, Editors
<1>11. Waiting'
  <2> SUFFICES ASSUME NEW s \in Sheets, sheet[s].waits # 0
               PROVE  req'[<<s, sheet[s].waits>>].at # "free"
    BY <1>5 DEF Waiting
  <2>1. <<s, sheet[s].waits>> \in Requests
    BY DEF Inv, Editors, SheetState, Requests
  <2>2. req[<<s, sheet[s].waits>>].at # "free"
    BY DEF Inv, Waiting
  <2>3. CASE <<s, sheet[s].waits>> = r
    <3>1. q.at # "free"
      BY <2>3 DEF q, Replied
    <3>2. QED BY <1>5, <2>1, <2>3, <3>1 DEF Inv, Saves
  <2>4. CASE <<s, sheet[s].waits>> # r
    BY <1>5, <2>1, <2>2, <2>4 DEF Inv, Saves
  <2>5. QED BY <2>3, <2>4
<1>12. QED BY <1>7, <1>8, <1>9, <1>10, <1>11 DEF Inv

LEMMA FailsKeeps ==
    ASSUME Inv, NEW r \in Requests, req[r].at = "applying", Fails(r), Locks', Counts'
    PROVE  Inv'
BY ReplyStep DEF Fails, Released

LEMMA BookingKeeps ==
    ASSUME Inv, UNCHANGED <<plan, revision, versions, writers, req, sheet, edits, faults>>, Locks'
    PROVE  Inv'
BY DEF Inv, Stores, Counts, Saves, Editors, Waiting, Stored

LEMMA BookingNextKeeps ==
    ASSUME Inv, NEW b \in Bookings, BookingNext(b)
    PROVE  Inv'
<1>1. Seats[b] \subseteq Tables
  BY FloorPlanAssumption
<1>2. CASE Seat(b)
  BY <1>2, BookingKeeps DEF Seat, Inv, Locks
<1>3. CASE Book(b)
  BY <1>3, BookingKeeps DEF Book, Ends, Inv, Locks
<1>4. ASSUME NEW t \in Tables, LockTable(b, t)
      PROVE  Inv'
  <2>1. CASE plan[t] # NoName
    BY <1>4, <2>1, BookingKeeps DEF LockTable, Inv, Locks
  <2>2. CASE plan[t] = NoName
    BY <1>4, <2>2, BookingKeeps DEF LockTable, Ends, Inv, Locks
  <2>3. QED BY <2>1, <2>2
<1>5. QED BY <1>2, <1>3, <1>4 DEF BookingNext

LEMMA DeadlockKeeps ==
    ASSUME Inv, NEW r \in Requests, NEW b \in Bookings, Deadlock(r, b)
    PROVE  Inv'
<1>1. CASE Fails(r) /\ UNCHANGED <<share, booking, faults>>
  <2>1. Locks' /\ Counts'
    BY <1>1 DEF Fails, Released, Inv, Locks, Counts
  <2>2. QED BY <1>1, <2>1, FailsKeeps DEF Deadlock, InEachOthersWay
<1>2. CASE Ends(b) /\ UNCHANGED <<plan, revision, versions, writers, req, sheet, edits, faults>>
  <2>1. Locks'
    BY <1>2 DEF Ends, Inv, Locks
  <2>2. QED BY <1>2, <2>1, BookingKeeps
<1>3. QED BY <1>1, <1>2 DEF Deadlock, InEachOthersWay

LEMMA ServerFailsKeeps ==
    ASSUME Inv, NEW r \in Requests, ServerFails(r)
    PROVE  Inv'
<1>1. Locks' /\ Counts'
  BY FloorPlanAssumption DEF ServerFails, Fails, Released, Inv, Locks, Counts
<1>2. QED BY <1>1, FailsKeeps DEF ServerFails
-----------------------------------------------------------------------------
(* The invariant. *)

LEMMA InitInv == Init => Inv
<1> SUFFICES ASSUME Init PROVE Inv
  OBVIOUS
<1>1. FirstPlan \in Plans /\ Unique(FirstPlan)
  BY FloorPlanAssumption
<1>2. \A a \in Areas : Room(a, FirstPlan) \in Plans /\ Room(a, Room(a, FirstPlan)) = Room(a, FirstPlan)
  BY <1>1, RoomIsPlan
<1>3. Stores
  BY <1>1, <1>2 DEF Init, Stores, Stored
<1>4. Locks /\ Counts
  BY FloorPlanAssumption DEF Init, Locks, Counts
<1>5. Saves
  <2>1. Free \in RequestState
    BY DEF Free, RequestState
  <2>2. QED BY <2>1, FreeIsGood DEF Init, Saves
<1>6. Editors
  <2> SUFFICES ASSUME NEW s \in Sheets
               PROVE  /\ FromDoc(1, Room(AreaOf[s], FirstPlan)) \in SheetState
                      /\ GoodSheet(AreaOf[s], FromDoc(1, Room(AreaOf[s], FirstPlan)), revision, plan, versions)
    BY DEF Init, Editors
  <2> DEFINE x == FromDoc(1, Room(AreaOf[s], FirstPlan))
  <2>1. AreaOf[s] \in Areas
    BY FloorPlanAssumption
  <2>2. /\ x \in SheetState /\ x.loads = 0 /\ x.pending = None /\ x.unacked = None
        /\ x.revision = 1 /\ x.saved = Room(AreaOf[s], FirstPlan)
    BY <1>2, <2>1 DEF FromDoc, SheetState, Line
  <2>3. Known(AreaOf[s], x.revision, x.saved, revision, plan)
    BY <1>2, <2>1, <2>2 DEF Known, Init
  <2> HIDE DEF x
  <2>4. GoodSheet(AreaOf[s], x, revision, plan, versions)
    BY <2>2, <2>3 DEF GoodSheet, SheetBase
  <2>5. QED BY <2>2, <2>4 DEF x
<1>7. Waiting
  BY DEF Init, Waiting, FromDoc
<1>8. QED BY <1>3, <1>4, <1>5, <1>6, <1>7 DEF Inv

LEMMA NextInv == Inv /\ [Next]_vars => Inv'
<1> SUFFICES ASSUME Inv, [Next]_vars PROVE Inv'
  OBVIOUS
<1>1. ASSUME NEW s \in Sheets, TabletNext(s)
      PROVE  Inv'
  BY <1>1, EditKeeps, RetryKeeps, AnswerKeeps, LoseKeeps, ReloadKeeps, LoadedKeeps DEF TabletNext
<1>2. ASSUME NEW r \in Requests, ServerNext(r)
      PROVE  Inv'
  BY <1>2, BeginKeeps, StoreKeeps, ServerFailsKeeps, LockRowKeeps, DeadlockKeeps DEF ServerNext
<1>3. ASSUME NEW b \in Bookings, BookingNext(b)
      PROVE  Inv'
  BY <1>3, BookingNextKeeps
<1>4. CASE UNCHANGED vars
  <2>1. Locks'
    BY <1>4 DEF vars, Inv, Locks
  <2>2. QED BY <1>4, <2>1, BookingKeeps DEF vars
<1>5. QED BY <1>1, <1>2, <1>3, <1>4 DEF Next

THEOREM Invariance == Spec => []Inv
BY InitInv, NextInv, PTL DEF Spec

(* Every variable keeps its type.                                          *)
THEOREM Typing == Spec => []TypeOK
<1>1. Inv => TypeOK
  BY DEF Inv, Stores, Locks, Counts, Saves, Editors, TypeOK
<1>2. QED BY <1>1, Invariance, PTL

(* A tablet that neither saves nor says that something is unsaved shows      *)
(* what the server stored (save).                                          *)
THEOREM QuietSheets == Spec => []QuietIsStored
<1>1. ASSUME Inv, NEW s \in Sheets,
             sheet[s].waits = 0, ~sheet[s].unsaved, sheet[s].pending # None
      PROVE  /\ sheet[s].revision \in DOMAIN versions[AreaOf[s]]
             /\ versions[AreaOf[s]][sheet[s].revision] = sheet[s].pending
  <2>1. AreaOf[s] \in Areas
    BY FloorPlanAssumption
  <2>2. IsVersion(AreaOf[s], sheet[s].revision, sheet[s].pending, revision, versions)
    BY <1>1 DEF Inv, Editors, GoodSheet
  <2>3. versions[AreaOf[s]] \in Seq(Plans) /\ Len(versions[AreaOf[s]]) = revision[AreaOf[s]]
    BY <1>1, <2>1 DEF Inv, Stores
  <2>4. QED BY <2>2, <2>3 DEF IsVersion
<1>2. Inv => QuietIsStored
  BY <1>1 DEF QuietIsStored
<1>3. QED BY <1>2, Invariance, PTL

(* The checks leave nothing for the database to refuse (_check, _apply).    *)
THEOREM DatabaseNeverRefuses == Spec => []ChecksSuffice
<1>1. Inv => ChecksSuffice
  BY NoClash DEF ChecksSuffice
<1>2. QED BY <1>1, Invariance, PTL

(* A save replaces exactly the room its tablet held (save_area, plan).      *)
THEOREM SeenBeforeReplaced == Spec => NobodyOverwritesUnseen
<1> DEFINE Replaces ==
       \A a \in Areas : Stored(a)' # Stored(a) =>
          \E r \in Requests : /\ Area(r) = a /\ req[r].at = "applying"
                              /\ req[r].body.base = Stored(a)
<1>1. ASSUME Inv, [Next]_vars, NEW a \in Areas, Stored(a)' # Stored(a)
      PROVE  \E r \in Requests : /\ Area(r) = a /\ req[r].at = "applying"
                                 /\ req[r].body.base = Stored(a)
  <2>1. plan' # plan
    BY <1>1 DEF Stored
  <2>2. PICK r \in Requests : Store(r)
    BY <1>1, <2>1 DEF Next, vars, TabletNext, ServerNext, BookingNext, Edit, Retry, Answer, Lose,
                      Reload, Loaded, Begin, LockRow, ServerFails, Deadlock, Fails, Seat, Book,
                      LockTable, Server
  <2>3. req[r].at = "applying" /\ ~Clashes(r)
    BY <1>1, <2>2, NoClash DEF Store
  <2>4. plan' = Furnish(Area(r), req[r].body.room, plan)
    BY <2>2, <2>3 DEF Store, Furnish
  <2>5. /\ GoodBody(Area(r), req[r].body, revision, plan)
        /\ req[r].body.revision = revision[Area(r)]
    BY <1>1, <2>3 DEF Inv, Saves, GoodRequest
  <2>6. Area(r) = a
    BY <1>1, <2>4, <2>5, FurnishRooms DEF Stored, GoodBody, Bodies, Inv, Stores
  <2>7. req[r].body.base = Stored(a)
    BY <2>5, <2>6 DEF GoodBody, Known, Stored
  <2>8. QED BY <2>3, <2>6, <2>7
<1>2. Inv /\ [Next]_vars => [Replaces]_vars
  BY <1>1
<1>3. QED BY <1>2, Invariance, PTL DEF Spec, NobodyOverwritesUnseen
=============================================================================
