----------------------------- MODULE FloorPlan -----------------------------
(***************************************************************************)
(* The floor plan as several tablets draw it: the editor of a room on a    *)
(* tablet (gui/static/raumplan.js) and the server that stores the rooms    *)
(* (domain/reservations/floor_plan.py), with confirmations of reservations *)
(* that lock the tables they seat (manual.py, seating).  A room is the     *)
(* names its tables carry: places, shapes, fixtures and pairs travel with  *)
(* them in the same document.  A request whose answer never came may still *)
(* run, or arrive late, while its tablet sends the next one.               *)
(***************************************************************************)
EXTENDS Integers, Sequences, FiniteSets

CONSTANTS
    Sheets,     \* a room as one tablet has it open
    Areas,      \* rooms
    AreaOf,     \* the room of a sheet
    Tables, Names,
    RoomOf,     \* the room of a table, on the plan or not
    FirstPlan,  \* the plan when the tablets loaded it
    Drafts,     \* bound: what the team draws
    Bookings,   \* confirmations of a reservation with tables
    Seats,      \* the tables of a confirmation
    NoName,     \* a table that is not on the plan
    None,
    MaxEdits,   \* bound: finished steps of all tablets
    MaxFaults   \* bound: lost answers, reloads, failures of the server

Line     == 1..2                \* bound: requests of one sheet that are not over
Requests == Sheets \X Line
NotSaving == 0
NotLoading == 0

RoomTables(a) == {t \in Tables : RoomOf[t] = a}
Plans   == [Tables -> Names \cup {NoName}]
Room(a, plan) == [t \in Tables |-> IF RoomOf[t] = a THEN plan[t] ELSE NoName]
Unique(plan) == \A t, u \in Tables : plan[t] = plan[u] /\ plan[t] # NoName => t = u

Bodies == [revision : Nat, room : Plans, base : Plans]

ASSUME FloorPlanAssumption ==
    /\ AreaOf \in [Sheets -> Areas] /\ RoomOf \in [Tables -> Areas]
    /\ FirstPlan \in Plans /\ Unique(FirstPlan) /\ Drafts \subseteq Plans
    /\ Seats \in [Bookings -> SUBSET Tables]
    /\ NoName \notin Names /\ None \notin Plans /\ None \notin Bodies
    /\ MaxEdits \in Nat /\ MaxFaults \in Nat

VARIABLES
    plan,      \* dining_tables: the name of every table that is live
    revision,  \* floor_areas.revision
    versions,  \* history: the room of every revision
    writers,   \* transactions that hold the advisory lock of the plan
    req,       \* the saves, on the line and in the server
    share,     \* the tables a confirmation has locked for share
    booking,
    sheet,     \* the editor's state of a room
    edits, faults

vars == <<plan, revision, versions, writers, req, share, booking, sheet, edits, faults>>

Free == [at |-> "free", body |-> None, held |-> {}, code |-> "", revision |-> 0, room |-> None]
Sent(body) == [Free EXCEPT !.at = "sent", !.body = body]

Area(r) == AreaOf[r[1]]
Stored(a) == Room(a, plan)

\* fromDoc: a room as the server sent it.
FromDoc(rev, room) ==
    [revision |-> rev, saved |-> room, pending |-> None, unacked |-> None, waits |-> NotSaving,
     again |-> FALSE, unsaved |-> FALSE, loads |-> NotLoading]

Init ==
    /\ plan = FirstPlan
    /\ revision = [a \in Areas |-> 1]
    /\ versions = [a \in Areas |-> <<Room(a, FirstPlan)>>]
    /\ writers = {}
    /\ req = [r \in Requests |-> Free]
    /\ share = [b \in Bookings |-> {}]
    /\ booking = [b \in Bookings |-> "idle"]
    /\ sheet = [s \in Sheets |-> FromDoc(1, Room(AreaOf[s], FirstPlan))]
    /\ edits = 0 /\ faults = 0
-----------------------------------------------------------------------------
(* The tablet. *)

Shown(x) == IF x.pending = None THEN x.saved ELSE x.pending

\* A save whose answer never came goes out again, exactly as it was.
NextBody(x) ==
    IF x.unacked # None THEN x.unacked
    ELSE [revision |-> x.revision, room |-> Shown(x), base |-> x.saved]

FreeLine(s) == IF req[<<s, 1>>].at = "free" THEN 1 ELSE 2

Send(s, x, n) ==
    /\ sheet' = [sheet EXCEPT ![s] = [x EXCEPT !.waits = n]]
    /\ req' = [req EXCEPT ![<<s, n>>] = Sent(NextBody(x))]

Save(s, x) ==
    \/ /\ x.waits # NotSaving
       /\ sheet' = [sheet EXCEPT ![s] = [x EXCEPT !.again = TRUE]]
       /\ UNCHANGED req
    \/ /\ x.waits = NotSaving
       /\ Send(s, x, FreeLine(s))

Server == <<plan, revision, versions, writers, share, booking>>

\* commit, undo: a finished step of the team shows another room and saves it.
Edit(s, draft) ==
    LET room == Room(AreaOf[s], draft)
    IN  /\ sheet[s].loads = NotLoading
        /\ edits < MaxEdits /\ edits' = edits + 1
        /\ room # Shown(sheet[s])
        /\ Save(s, [sheet[s] EXCEPT !.pending = room])
        /\ UNCHANGED <<Server, faults>>

\* "Nochmal speichern".
Retry(s) ==
    /\ sheet[s].loads = NotLoading /\ sheet[s].unsaved
    /\ Save(s, sheet[s])
    /\ UNCHANGED <<Server, edits, faults>>

Lost(x, body) == [x EXCEPT !.unacked = body, !.unsaved = TRUE]

Adopt(x, rev, room) ==
    [x EXCEPT !.revision = rev, !.saved = room, !.pending = None, !.unacked = None, !.again = FALSE]

StepsForgotten(x, q) ==
    [x EXCEPT !.unacked = None, !.revision = q.revision, !.saved = q.room, !.unsaved = FALSE]

Taken(x, q) ==
    [x EXCEPT !.unacked = None, !.revision = q.revision, !.saved = q.room, !.unsaved = FALSE,
              !.again = x.again \/ x.pending \notin {None, q.body.room}]

Heard(x, q) ==
    CASE q.code = "ok"      -> Taken(x, q)
      [] q.code = "stale"   -> Adopt(x, q.revision, q.room)
      [] q.code = "refused" -> Adopt(x, x.revision, x.saved)
      [] q.code = "failed"  -> Lost(x, q.body)

\* The answer of the save the sheet waits for; what was held back follows.
Answer(s) ==
    LET n == sheet[s].waits
        x == Heard(sheet[s], req[<<s, n>>])
    IN  /\ n # NotSaving /\ req[<<s, n>>].at = "answered"
        /\ \/ /\ x.again /\ ~x.unsaved
              /\ Send(s, [x EXCEPT !.again = FALSE], n)
           \/ /\ ~(x.again /\ ~x.unsaved)
              /\ sheet' = [sheet EXCEPT ![s] = [x EXCEPT !.waits = NotSaving]]
              /\ req' = [req EXCEPT ![<<s, n>>] = Free]
        /\ UNCHANGED <<Server, edits, faults>>

\* Nobody waits for request r any more: it never arrives, or is worked off later.
Abandoned(r) ==
    \/ /\ req[r].at \in {"sent", "answered"}
       /\ req' = [req EXCEPT ![r] = Free]
    \/ /\ req[r].at # "answered"
       /\ UNCHANGED req

OtherLineFree(s) == \E n \in Line \ {sheet[s].waits} : req[<<s, n>>].at = "free"

Lose(s) ==
    /\ sheet[s].waits # NotSaving /\ OtherLineFree(s)
    /\ faults < MaxFaults /\ faults' = faults + 1
    /\ Abandoned(<<s, sheet[s].waits>>)
    /\ sheet' = [sheet EXCEPT ![s] =
                    [Lost(sheet[s], req[<<s, sheet[s].waits>>].body) EXCEPT !.waits = NotSaving]]
    /\ UNCHANGED <<Server, edits>>

\* The page is loaded again: plan() reads the rooms first, and the tables of a room
\* in a statement of its own.
Reload(s) ==
    /\ sheet[s].loads = NotLoading /\ OtherLineFree(s)
    /\ faults < MaxFaults /\ faults' = faults + 1
    /\ IF sheet[s].waits = NotSaving THEN UNCHANGED req ELSE Abandoned(<<s, sheet[s].waits>>)
    /\ sheet' = [sheet EXCEPT ![s] =
                    [FromDoc(1, sheet[s].saved) EXCEPT !.loads = revision[AreaOf[s]]]]
    /\ UNCHANGED <<Server, edits>>

Loaded(s) ==
    /\ sheet[s].loads # NotLoading
    /\ sheet' = [sheet EXCEPT ![s] = FromDoc(sheet[s].loads, Stored(AreaOf[s]))]
    /\ UNCHANGED <<Server, req, edits, faults>>
-----------------------------------------------------------------------------
(* The server. *)

OneWriterPerRoom(w, r) == Area(w) = Area(r)

Excludes(w, r) == TRUE          \* _lock: one writer per restaurant

\* The transaction of r ends; an answer nobody waits for is not heard.
Reply(r, code, rev, room) ==
    req' = [req EXCEPT ![r] =
               IF sheet[r[1]].waits = r[2]
               THEN [@ EXCEPT !.at = "answered", !.held = {}, !.code = code,
                              !.revision = rev, !.room = room]
               ELSE Free]

Released(r) == writers \ {r}

AfterRefusal(r) == writers \ {r}       \* _plan_write rolls back

AnyRevision(r) == TRUE

IsCurrent(r) == req[r].body.revision = revision[Area(r)]
Unchanged(r) == req[r].body.room = Stored(Area(r))

\* _check: a name twice in the room, or live in another one.
NameTaken(r) ==
    LET room == req[r].body.room
    IN  \/ ~Unique(room)
        \/ \E t \in RoomTables(Area(r)), u \in Tables \ RoomTables(Area(r)) :
               room[t] # NoName /\ room[t] = plan[u]

MayEnter(r) == req[r].at = "sent" /\ \A w \in writers : ~Excludes(w, r)

\* save_area up to _apply, under the advisory lock.
Begin(r) ==
    /\ MayEnter(r)
    /\ \/ /\ ~IsCurrent(r) /\ ~Unchanged(r)
          /\ Reply(r, "stale", revision[Area(r)], Stored(Area(r)))
          /\ writers' = AfterRefusal(r)
       \/ /\ IsCurrent(r) /\ NameTaken(r)
          /\ Reply(r, "refused", 0, None)
          /\ writers' = AfterRefusal(r)
       \/ /\ Unchanged(r) /\ (IsCurrent(r) => ~NameTaken(r))
          /\ Reply(r, "ok", revision[Area(r)], Stored(Area(r)))
          /\ writers' = Released(r)
       \/ /\ IsCurrent(r) /\ ~Unchanged(r) /\ ~NameTaken(r)
          /\ req' = [req EXCEPT ![r].at = "applying"]
          /\ writers' = writers \cup {r}
    /\ UNCHANGED <<plan, revision, versions, share, booking, sheet, edits, faults>>

\* The rows _apply writes.
Touched(r) == {t \in RoomTables(Area(r)) : plan[t] # req[r].body.room[t]}

LockRow(r, t) ==
    /\ req[r].at = "applying" /\ t \in Touched(r) \ req[r].held
    /\ \A b \in Bookings : t \notin share[b]
    /\ req' = [req EXCEPT ![r].held = @ \cup {t}]
    /\ UNCHANGED <<Server, sheet, edits, faults>>

\* The live rows that step out of the unique index in the first flush.
Leaves(r) == {t \in RoomTables(Area(r)) : plan[t] # NoName /\ plan[t] # req[r].body.room[t]}

\* uq_dining_tables_name, in the second flush.
Clashes(r) ==
    LET room == req[r].body.room
    IN  \E t \in Touched(r), u \in Tables :
            /\ t # u /\ room[t] # NoName
            /\ \/ room[t] = room[u]
               \/ u \notin Leaves(r) /\ room[t] = plan[u]

Store(r) ==
    LET a == Area(r)
        room == req[r].body.room
    IN  /\ req[r].at = "applying" /\ Touched(r) \subseteq req[r].held
        /\ \/ /\ Clashes(r)
              /\ Reply(r, "refused", 0, None)
              /\ writers' = AfterRefusal(r)
              /\ UNCHANGED <<plan, revision, versions>>
           \/ /\ ~Clashes(r)
              /\ plan' = [t \in Tables |-> IF RoomOf[t] = a THEN room[t] ELSE plan[t]]
              /\ revision' = [revision EXCEPT ![a] = @ + 1]
              /\ versions' = [versions EXCEPT ![a] = Append(@, room)]
              /\ Reply(r, "ok", revision[a] + 1, room)
              /\ writers' = Released(r)
        /\ UNCHANGED <<share, booking, sheet, edits, faults>>

\* An error that is not the plan's: the transaction is rolled back, the answer a 500.
Fails(r) ==
    /\ Reply(r, "failed", 0, None)
    /\ writers' = Released(r)
    /\ UNCHANGED <<plan, revision, versions, sheet, edits>>

ServerFails(r) ==
    /\ req[r].at = "applying"
    /\ faults < MaxFaults /\ faults' = faults + 1
    /\ Fails(r)
    /\ UNCHANGED <<share, booking>>
-----------------------------------------------------------------------------
(* A confirmation with tables: seating, up to its commit. *)

Ends(b) ==
    /\ booking' = [booking EXCEPT ![b] = "over"]
    /\ share' = [share EXCEPT ![b] = {}]

Seat(b) ==
    /\ booking[b] = "idle"
    /\ \A t \in Seats[b] : plan[t] # NoName
    /\ booking' = [booking EXCEPT ![b] = "seating"]
    /\ UNCHANGED <<plan, revision, versions, writers, share, req, sheet, edits, faults>>

Writing(t) == \E r \in Requests : t \in req[r].held

\* FOR SHARE takes the rows one by one, in no order, and looks at each again.
LockTable(b, t) ==
    /\ booking[b] = "seating" /\ t \in Seats[b] \ share[b] /\ ~Writing(t)
    /\ IF plan[t] # NoName
       THEN share' = [share EXCEPT ![b] = @ \cup {t}] /\ UNCHANGED booking
       ELSE Ends(b)
    /\ UNCHANGED <<plan, revision, versions, writers, req, sheet, edits, faults>>

Book(b) ==
    /\ booking[b] = "seating" /\ share[b] = Seats[b]
    /\ Ends(b)
    /\ UNCHANGED <<plan, revision, versions, writers, req, sheet, edits, faults>>

\* A save and a seating that wait for each other's tables.
InEachOthersWay(r, b) ==
    /\ req[r].at = "applying" /\ booking[b] = "seating"
    /\ (Touched(r) \ req[r].held) \cap share[b] # {}
    /\ (Seats[b] \ share[b]) \cap req[r].held # {}

\* Mutant of Deadlock: the save that lost is answered and not rolled back.
DeadlockWithoutRollback(r, b) ==
    /\ InEachOthersWay(r, b)
    /\ Reply(r, "failed", 0, None)
    /\ UNCHANGED <<Server, sheet, edits, faults>>

\* The database ends one of two transactions that wait for each other.
Deadlock(r, b) ==
    /\ InEachOthersWay(r, b)
    /\ \/ Fails(r) /\ UNCHANGED <<share, booking, faults>>
       \/ /\ Ends(b)
          /\ UNCHANGED <<plan, revision, versions, writers, req, sheet, edits, faults>>
-----------------------------------------------------------------------------
TabletNext(s) ==
    \/ \E draft \in Drafts : Edit(s, draft)
    \/ Retry(s) \/ Answer(s) \/ Lose(s) \/ Reload(s) \/ Loaded(s)

ServerNext(r) ==
    \/ Begin(r) \/ Store(r) \/ ServerFails(r)
    \/ \E t \in Tables : LockRow(r, t)
    \/ \E b \in Bookings : Deadlock(r, b)

BookingNext(b) == Seat(b) \/ Book(b) \/ \E t \in Tables : LockTable(b, t)

Next ==
    \/ \E s \in Sheets : TabletNext(s)
    \/ \E r \in Requests : ServerNext(r)
    \/ \E b \in Bookings : BookingNext(b)

Spec == Init /\ [][Next]_vars

\* The server works on, and an answer that is not lost arrives.  Who waits for the
\* advisory lock or a row stands in the database's queue and gets it in turn, and the
\* database looks for deadlocks.
Fairness ==
    /\ \A s \in Sheets : WF_vars(Answer(s)) /\ WF_vars(Loaded(s))
    /\ \A r \in Requests :
           /\ WF_vars(Begin(r)) /\ WF_vars(Store(r))
           /\ WF_vars(\E t \in Tables : LockRow(r, t))
           /\ WF_vars(\E b \in Bookings : Deadlock(r, b))
    /\ \A b \in Bookings : WF_vars(Book(b)) /\ SF_vars(\E t \in Tables : LockTable(b, t))

FairSpec == Spec /\ Fairness
-----------------------------------------------------------------------------
(* What must hold. *)

SheetState ==
    [revision : Nat, saved : Plans, pending : Plans \cup {None}, unacked : Bodies \cup {None},
     waits : Line \cup {NotSaving}, again : BOOLEAN, unsaved : BOOLEAN, loads : Nat]

RequestState ==
    [at : {"free", "sent", "applying", "answered"}, body : Bodies \cup {None},
     held : SUBSET Tables, code : {"", "ok", "stale", "refused", "failed"},
     revision : Nat, room : Plans \cup {None}]

TypeOK ==
    /\ plan \in Plans
    /\ revision \in [Areas -> Nat \ {0}]
    /\ versions \in [Areas -> Seq(Plans)]
    /\ writers \subseteq Requests
    /\ req \in [Requests -> RequestState]
    /\ share \in [Bookings -> SUBSET Tables]
    /\ booking \in [Bookings -> {"idle", "seating", "over"}]
    /\ sheet \in [Sheets -> SheetState]
    /\ edits \in 0..MaxEdits /\ faults \in 0..MaxFaults

\* When a tablet neither saves nor says that something is unsaved, the last finished
\* step it shows is the room the server stored under the revision the tablet holds:
\* neither a resend nor a step made meanwhile is forgotten, and the team may close
\* the page (save, beforeunload).
QuietIsStored ==
    \A s \in Sheets : LET x == sheet[s] IN
        x.waits = NotSaving /\ ~x.unsaved /\ x.pending # None =>
            x.revision \in DOMAIN versions[AreaOf[s]]
            /\ versions[AreaOf[s]][x.revision] = x.pending

\* What passed the checks is never refused by the database: neither a room saved at the
\* same time nor a ring of renames in one save meets a name that is still live (_lock,
\* _apply).
ChecksSuffice == \A r \in Requests : req[r].at = "applying" => ~Clashes(r)

\* Nobody overwrites what they have not seen: a save replaces exactly the room its
\* tablet held as the server's when the team made the step, however late the save
\* arrives, and also when the page was loaded while another tablet saved (save_area,
\* plan).
NobodyOverwritesUnseen ==
    [][\A a \in Areas : Stored(a)' # Stored(a) =>
          \E r \in Requests : /\ Area(r) = a /\ req[r].at = "applying"
                              /\ req[r].body.base = Stored(a)]_vars

\* Every save and every confirmation ends, although a save and a confirmation can wait
\* for each other's tables.
SavesEnd ==
    /\ \A s \in Sheets : sheet[s].waits # NotSaving ~> sheet[s].waits = NotSaving
    /\ \A b \in Bookings : booking[b] = "seating" ~> booking[b] = "over"
=============================================================================
