# Maex Voice Agent: specification, model checking and proofs

The Maex Voice Agent answers a restaurant's telephone: it takes orders and
reservations, hands callers on to the team, and shows everything on the team's
tablets. This directory holds TLA+ modules for the parts of it where the order
of steps matters, the TLC configurations that check them, and theorems proved
with TLAPS. Paths below are relative to the repository.

## 1. Inventory

| Component | State | Operations | What is hard |
|---|---|---|---|
| Kitchen handover (`api/domain/ordering/{handover,ticket,confirm,board,correction}.py`) | `orders.status`, `orders.handover_state` (the colour of the card), audit entries that count as revisions, the kitchen rows of `outbox` (tickets) | confirm, approve ("Passt"), resend ("Nochmal senden"), correct, cancel, claim (a poll of the bridge), ack, sweep (the watchdog) | polls and answers race with corrections and cancellations; answers are lost, late or repeated |
| Print bridge (`printbridge/`) | print log in memory and on disk, the slip in hand | poll, skip, print, record, answer | stops between print and record; prints what was superseded |
| Reservations (`api/domain/reservations/`, `api/domain/confirm.py`) | reservations, their table, override and event; the reservation switch | draft and yes on the phone, draft and yes on the tablet | several requests for the last seats; drafts hold seats only while their call lives |
| Floor plan (`reservations/floor_plan.py`, `gui/static/raumplan.js`) | rooms with a revision, tables, pairs; on each tablet the room it shows, the last one stored, the save without an answer | load, step, undo, save again; save a room, seat a party | two tablets save; answers are lost and requests late; a table vanishes under a reservation |
| Callbacks (`api/domain/callbacks/`) | cards, `calls.transfer_reason`, `calls.outcome` | create, done, reopen, transfer, team missed | two writers for one call; locks taken in two orders |
| Outbox and dispatcher (`api/events/`) | `outbox` rows without the kitchen's | claim, POST to n8n, mark sent or failed | a stop between POST and commit; two dispatchers |
| n8n workflow (`n8n/team_events.json`) | the ids it has delivered | check, push to the team, remember, answer | runs that overlap; lost answers |
| Jobs (`api/jobs/`) | retention of personal data, push alarms, daily report | one pass over every tenant | work on rows that other processes are using |
| Service switches (`api/domain/status/`) | mode, pause, waiting times, reservation switch | pause, resume, set mode, change a wait | two tablets; what to go back to after a pause |
| Conversation core (`api/agent/`) | history, draft, ladders, consent | one turn: model, guards, tool calls | when a "Ja" counts; what a guard stops |
| Phone line (`api/telephony/{session,handler}.py`) | one session per call with queue, timers, ending; the handler's sets of calls under a lock | audio, keys, marks, hang-up, transfer, failure; start, turn, end of every call | threads; the caller hangs up at any moment; engines fail; what is queued is old when it is taken |
| Order board, drafts and prices (`ordering/{draft,validation,pricing,board}.py`) | draft, frozen prices, version | edit with version, mark as entered | two tablets edit one order |
| Menu, customers, delivery | tables read by the others | search, look-up | text matching, little state |
| Tablet interface (`api/gui/`), simulation, evaluations, operations | – | routes over the functions above | – |

How they interact: everything the agent and the tablets do ends in functions of
`api/domain`, one database transaction each (PostgreSQL, READ COMMITTED). What
leaves the server is written to `outbox` in the same transaction. Two consumers
read it: the dispatcher (to n8n) and the print bridge (over HTTP polls). So the
interesting interleavings are those of transactions with their row locks and
advisory locks, and those of messages that leave the server.

## 2. How the modules are written

A database transaction that reads and writes at one moment is one action. One
that reads, takes a further lock and then acts on what it read is split at that
point, with the locks it holds kept in the state (`lock`, `tap`, `tx`). A row lock
is a value that names its holder, and an action that needs it is enabled only
when it is free; `FOR UPDATE SKIP LOCKED` is a set that leaves locked rows out.
There is no clock, except in `CallSession`: whatever happens after some time (a
lease, a backoff, the end of a call) may happen at any moment, which covers every
setting of the delays.
Bounds and fault budgets are constants named `Max...`, and appear in guards.

`...MC.tla` modules and `.cfg` files are the small instances for TLC. Definitions
whose comment starts with "Mutant of" are the same definition with a plausible
mistake; none of them is part of a specification. Each shows that the property
it is paired with in `PROJECT.json` does fail when the code is wrong.

| Module | What it is |
|---|---|
| `KitchenHandover` | orders, tickets, polls, answers, watchdog and print bridge |
| `KitchenCard` | the abstract promise of a card's colour |
| `KitchenHandoverProofs`, `KitchenHandoverSafety` | lemmas, invariants, refinement (TLAPS) |
| `Reservations` | drafts, bookings, locks, table plan and switch |
| `ReservationBook` | the abstract promise: requests one after the other |
| `ReservationsProofs` | lemmas, invariants (TLAPS) |
| `Callbacks` | callback cards, the handover to the team, the outcome of a call |
| `CallbacksProofs` | lemmas, invariants, the action property (TLAPS) |
| `ColdPath` | outbox, dispatchers, n8n workflow, deletion job |
| `ColdPathProofs` | lemmas, invariants, the action property (TLAPS) |
| `CallSession` | one telephone call: queue, worker, timers, playback, ear, recording, endings |
| `CallSessionProofs` | lemmas, invariants (TLAPS) |
| `CallHandler` | all calls of the line: places, books under the lock, failures, logs |
| `CallHandlerProofs` | lemmas, invariants (TLAPS) |
| `FloorPlan` | rooms as tablets draw and the server stores them, and seating |
| `FloorPlanProofs` | lemmas, invariants, the action property (TLAPS) |

The type invariants of all modules are theorems (`Typing`). That of `CallSession` is
checked in a run as well, because it bounds what the code counts up: the digits of an
entry, the utterances without words.

## 3. Kitchen handover

### State and actions

`status`, `handover` and `rev` are the columns of an order and the number of its
audit entries that `ticket.revision` counts. `ticket` is the list of kitchen rows
in `outbox`, in the order of `created_at`; `lock[e]` is the row lock on one of them
and `tap[o]` the lock on an order with what its holder found. `acks` are answers
on their way, `batch` and `inHand` the bridge's work, `logMem` and `logFile` the
print log in memory and on disk, `paper` what the printer put out.

| Code | Actions |
|---|---|
| `confirm_order`, `approve_order`, `resend_order` | `Confirm`, `Approve`, `Resend` |
| `apply_correction` | `CorrectBegin` (locks the order, asks `may_hold_a_slip`), `CorrectCommit` (`send_ticket`, commit) |
| `cancel_order` with `withdraw_tickets` | `CancelBegin` (holds the order and its tickets), `CancelAsk` (the two questions after it), `CancelCommit` |
| `claim_tickets` | `ClaimSelect` (SKIP LOCKED), `ClaimCheck` per row, `ClaimCommit` or `ClaimAbort` |
| `ack_ticket` | `AckTake` (the ticket's lock), `AckCommit` (the order's lock); `AckLost` |
| `sweep` | `Sweep` |
| `run_once` of the bridge | `BridgeSkip`, `BridgePrint`, `BridgePrintError`, `BridgeRecord`, `BridgeRestart` |

### Runs

| Run | Question | Bounds |
|---|---|---|
| `handover_faults` | Is a green card true, does the card keep its abstract promise, does the paper ever run back? | one order, 3 tickets, one change, 1 failure, 1 restart, late answers |
| `handover_live` | Is anything printed twice; does the kitchen learn of a cancellation, exactly when it has a slip? Does every yellow card end when the bridge may be off for ever, does every order get to the printer when it polls? | one order, 3 tickets, two changes, 3 pickups, 1 failure |
| `handover_lost_reason` | A statement of the docs that does not hold, see section 10 | the smallest instance that shows it |

One order with three tickets already has every relation the code distinguishes:
a ticket that is newest, one overtaken, one repeated. Orders meet only in the batch
of a poll, which the runs do not vary; the theorems below hold for any number of orders. `MaxAttempts` is 2 or 3 instead of 5: the
code only asks whether any pickup was made and whether the last one was.

Fairness. `FairSpec` is weakly fair in what the server does without anybody's
help: a transaction that began ends, and the watchdog runs once a minute. Nothing
is assumed of the bridge, except in `KitchenGetsIt`, which says what holds if it
polls, prints and answers for ever (`BridgeFairness`).
CHECK_DEADLOCK is FALSE in these runs: an order that was printed and accepted
really has nothing left to do.

What the model leaves out: delivery orders, whose cards a default time turns green
(`settle_default`); prices, items, version and edit key of a correction; the
deletion job, which thins the payload of old tickets; the 2000 entries kept in the
print log, and a corrupt log file. There is one bridge and it has one poll under way, as
`printbridge/bridge.py` is written. A reported print error means that nothing came
out. A ticket's lease (60 s) is six times the bridge's HTTP timeout, so an answer
later than the lease is possible only with `LateAcks`; with it
`CancelledSlipHasNote` is not claimed, because an answer does not carry the
number of the pickup it belongs to. A restart of the bridge between print and
record prints the slip a second time, a trade-off `docs/02_ARCHITECTURE.md` states;
so `NoSecondSlip` is claimed for a bridge that keeps running. So is
`CancelledSlipHasNote`: a pickup clears `last_error`, and after such a restart one
reported print error makes `may_hold_a_slip` forget the slip.

### Proofs

`Invariance` proves the strengthening `Inv` inductive, for any number of orders,
tickets, revisions, attempts and faults, and with or without late answers. The
argument: a ticket's revision never exceeds its order's; a card that is not
blank has a ticket of the current revision; a positive answer, a slip in hand and an
entry in the log name tickets that were printed or were superseded by what
was; while a poll holds a row, no correction of that order can commit with a lock on it, so the
batch carries the newest revision or the one before it, and each order at one
revision only. From it follow `Typing`, `GreenIsTrue` (a green card stands for a
last slip with the order as it is) and `PaperInOrder` (the printer never runs
back). `Refinement` proves that the handover implements `KitchenCard`: a card turns
green only from yellow over the newest slip, and red only from yellow.

`NothingTwice` proves `NoSecondSlip`, from `Inv` and `LogKnows`: while the bridge keeps
running, its print log is behind the paper by the slip in hand only, and a slip is
printed only if the log does not have it.

`CancelledSlipsHaveNotes` proves `CancelledSlipHasNote` for `~LateAcks`, from `Inv`,
`LogKnows` and `NoteInv`, which holds while `crashes = 0`. `CancelledSlipHasNote` alone is
not inductive: what `withdraw_tickets` finds must still be true when the cancellation
commits, and must tell of paper the server never sees. The parts of `NoteInv` say why.

- `TicketInv`: a held row is still to do, and what a cancellation holds is no slip.
- `PickupInv`: from the poll to its answer a ticket is in one place, the poll, the bridge or
  an answer. With answers later than the lease this part is false.
- `SlipInv`: for every slip on paper there is a ticket that `may_hold_a_slip` counts, and
  no answer under way will call it a misprint.
- `GoneInv`: a cancellation without a note has every ticket that is still to do in its
  hands, and none that counts as a slip.
- `ReasonInv`: exactly the ticket with the revision of the cancellation is the note. An
  older ticket can not become it: `send_ticket` skips the rows others hold.

TLC checked `NoteInv` first, for one order with four tickets, two changes and two
failures (4.2 million states). The liveness properties are checked with TLC only, for one
order.

## 4. Reservations

### State and actions

`rsv` is the reservation table: state, call, slot, party, tables, override; `events`
counts what each put in the outbox. A transaction (`tx`) is one request: it holds
advisory locks on two days (`dayLock`), the lock of the row (`rowLock`), and the switch in share mode.

| Code | Actions |
|---|---|
| `create_reservation` | `CreateBegin`, `LockDay` for each day in order, `Check`, `CreateCommit` |
| `confirm` (the guest's yes) | `ConfirmBegin` (row lock, switch FOR SHARE), `LockDay`, `Check`, `BookCommit` |
| `create_tablet_reservation`, `confirm_tablet` | `TabletCreate`, `TapBegin`, `LockDay`, `Check`, `BookCommit` |
| refusal, error, rollback | `GiveUp` |
| `end_call`, a draft older than the longest call | `EndCall`, `Outlive` |
| `set_reservations`, `save_area` | `SetReservations`, `SavePlan` |

Two slots of one window may lie on different sides of midnight and then lock
different pairs of days; the pairs share a day, which is what the code relies on.

### Runs

| Run | Question | Bounds |
|---|---|---|
| `reservations_seats` | Are seats, tables, events and the switch respected? | one call with a draft, two tablet drafts, two transactions at a time, 2 seats, two tables, two times across midnight |
| `reservations_book` | Does a guest who corrects a wish keep the promised seat? Is the outcome that of one request after the other, and is each request answered? | one call with two drafts, one tablet draft, one seat, no table, two times of a window across midnight and one outside of it |

Two transactions are enough for every conflict of locks: with three, the third
only waits. All parties are one guest (`MaxParty = 1`): with up to three of them at two
seats, or at one, every case of the comparison is met (fits, fits exactly, does not fit).
That a larger party counts as so many guests is in the model and in the proofs, not in
the runs. In `reservations_book` the two drafts of the call may lie in one window: the
second is a correction. Tables are in `reservations_seats` only.

Fairness. `FairSpec` is weakly fair in each step of a transaction, and strongly fair
in `LockDay`, since PostgreSQL grants a lock to those waiting in the order they came.
CHECK_DEADLOCK is FALSE: a book in which every draft is settled has no steps left.

What the model leaves out: the clock (`GiveUp` stands for every refusal that
depends on time or input and `Outlive` for `max_call_seconds`); the lowering of a
window's capacity, which no function of `src/` does; windows that overlap. A
reservation is never cancelled by code in `src/`. The two rows `seating`
locks FOR SHARE are not ordered against the writes of `save_area`; that deadlock is in
`FloorPlan`.

### Proofs

`Invariance`: a transaction that has checked its wish holds both days of it, any
two times of one turn share a locked day, so only one transaction per turn can be
between check and commit, and what its check found still holds when it
commits. With the row lock (one event), the switch lock and the plan's
share locks this gives, for any number of calls, drafts, tablets, tables and
transactions: `SeatsNeverOverbooked`, `TablesGoOnce`, `EventsGoOnce`, `OffIsOff`,
`BookedTablesAreInPlan`, and `Typing`. `BooksOneByOne` is the refinement of
`ReservationBook`: a commit is one booking of the abstract book, since its check is
still true of all that others booked in the meantime, and every other step is a
stutter or the turn of the switch.

`HeldSeatsAreThere` proves `HeldSeatsFit`: a guest on the line gets the seats its draft was
promised, at the yes and for a corrected wish of the same window, though each correction
leaves the older draft behind. The statement is not inductive: it speaks of a
window only while the others have one wish each in it, and that may become so when a call
ends and takes its drafts along. `SeatsHeld` therefore says of every choice out of the
bookings and live drafts of a turn, if it overrides nothing and takes one wish of each call,
that it fits the window (`HeldTogether`); that the agent has no draft outside the windows
(`InWindows`); and that the room a check found is there until its transaction commits
(`RoomHeld`). The guest's own drafts are left out of the count, so the wish is measured
against such a choice. `RequestsEnd` is checked with TLC only (liveness).

## 5. Callbacks

### State and actions

`outcome`, `ended` and `reason` are columns of `calls`; `handovers` counts the audit
entries of a handover, `missed` remembers that a missed team leg got its card.
`card` is the table `callbacks`. Three kinds of locks matter: the advisory lock of
a call (`turn`), its row FOR UPDATE (`row`), and FOR KEY SHARE (`key`), which an
INSERT with a foreign key to the row takes.

| Code | Actions |
|---|---|
| `create_callback` | `CreateBegin`, `TakeTurn`, `Found` or `NotFound`, `Insert`, `Commit` |
| `team_missed`, which calls it | `MissedBegin` (locks the call), then the same steps |
| `transfer_to_team` | `TransferBegin`, `TransferCommit` |
| `end_call` | `EndCall` |
| `mark_done`, `reopen` | `MarkDone`, `Reopen` |
| statement timeout, deadlock detection | `GiveUp` |

`team_missed` holds the call's row and waits for the turn; `create_callback` holds
the turn and waits, in its INSERT, for the row. The two can wait for each other.
PostgreSQL ends one of them, and the line's own connections fail every statement
after its timeout (`bounded_sessions`), which is `GiveUp`; without it `RequestsEnd`
is violated.

### Runs

| Run | Question | Bounds |
|---|---|---|
| `callbacks_cards` | One open card per call? Is what the caller was told kept, whatever the log says? Does every request end? | one call, three requests at once, 3 cards, one card reopened |
| `callbacks_reopen` | A statement of the docs that does not hold, see section 10 | one call, one request at a time |

Calls share nothing but the table, so one call shows every conflict. Three requests
are an original, its retry and a missed leg. `OneOpenCard` is claimed while no card
has been brought back from the history.

Fairness: weakly fair in each transaction, since a statement either goes on or fails.
CHECK_DEADLOCK is FALSE: with all cards used and the log written nothing is left to do.

What the model leaves out: the guest's contact data (`note_contact`), phone number formats,
the deletion job that empties old cards, the two-hour window with the line's
repeated ids, and the events, which are written in the same commit as the card. A
handover is modelled for a team that is there; when nobody is, it changes nothing.

### Proofs

`Invariance`: a request past `turn` holds the advisory lock of its call, one that is
past `look` found no open card, and nobody else can add one meanwhile, so
`Commit` adds the only one; a handover holds the row of the call and found no
reason. From it follow, for any number of calls, requests, cards and reopened
cards: `OneCardPerCall`, `NotedIsKept`, `OneHandover`, `ErrorIsLast`, `Typing`.
`RequestsEnd` is checked with TLC only. `ErrorIsLast` (no step changes the outcome of a failed
call) and `Settled` below are proved without a run of their own.

## 6. Cold path

### State and actions

`status`, `attempts` and the payload (`thin` once it is removed) are columns of
`outbox`, `lock` is the row lock. `post` is what a dispatcher is doing. `run` holds
the runs of the n8n workflow that are under way, `delivered` the ids n8n remembers,
`told` counts the pushes that reached the team. `age` replaces the clock of the
deletion job: an event may pass its two periods at any moment.

| Code | Actions |
|---|---|
| `enqueue` | `Enqueue` |
| `dispatch_once`, `_claim_due`, `send_to_n8n` | `Claim` (SKIP LOCKED), `Send`, then `Sent`, `Refused` or `TimesOut` |
| `mark_attempt_failed` | `AttemptFailed`, inside the last two |
| a process that stops, a failed commit | `Crash`: the transaction is undone, the run of n8n goes on |
| `n8n/team_events.json` | `Check`, `Push` or `PushFails`, `Respond`, `Save`; `RunDies` |
| `purge`, its two steps on the outbox | `Age`, `PurgeTake`, `PurgeCommit`, `PurgeAbort` |

A run reads what n8n remembers when it starts and writes it back when it ends, so
runs that overlap overwrite each other's marks, as `n8n/README.md` says ("Dedupe").
A push that failed for n8n may have reached the team.

### Run

`coldpath_delivery`: one event, two dispatchers, two runs at a time, two attempts,
three things that go wrong. Two dispatchers can meet only at one row, so one event
has every conflict between them; two runs of it overlap after a timeout. More
events only add runs that overwrite marks, and the theorems cover those. Two
attempts have a first and a last. Three faults exceed the attempts, so that
giving up and what comes after it are reached.

Fairness. A dispatcher whose POST was answered or timed out goes on, and claims while
there is something to claim: `run_forever` catches every error, and the container
restarts (`restart: unless-stopped`). httpx ends a POST after its timeout. A run of
the workflow goes on (its push has a timeout of 5 s). A pass of the deletion job
commits. CHECK_DEADLOCK is FALSE: when every row is gone nothing is left to do.

What the model leaves out: the order of due events and the length of a backoff
(any pending event may be due), the batch limit, the limit of 1000 ids, the removal
of allergy notes from payloads (a pass skips rows that are held), and the values a session
remembers of the last event it handled, which could only matter to a second dispatcher that
finishes the same event in the instant between a commit and the next claim.

### Proofs

`Invariance`: a dispatcher that POSTs holds its row, the row is pending and still has
its payload; the run it waits for is one of the same event and has not answered; a
run has passed its push before it answers or marks; n8n remembers only what was
pushed. From it follow, for any number of events, dispatchers, runs, attempts and faults:
`SentIsTrue`, `PayloadsAreWhole`, `Settled` and `Typing`. `RepeatsArePaid` proves
`RepeatsNeedTrouble` from a count, `Paid`: what the team heard of an event, plus the runs
that may still push it, plus the one POST it may still get without another fault, is at
most one more than the faults so far. It needs finitely many runs at a time
(`SlotsAreSlots`). `EventsSettle` is checked with TLC only.

## 7. One telephone call

### State and actions

`CallSession` is one object of `telephony/session.py` with its worker. `inbox` is the
queue, oldest first, each event with the time it happened; `call` what the worker
keeps. `todo` is what the core asked for in a turn and what is still to be done of
it: sentences, endings, the recording. The core (`telephony/handler.py`, as far as one
call sees it) answers each event with one of the lists of asks the handler can make.

| Code | Actions |
|---|---|
| `run`, `_step`, `_timers` | `PlaybackTimer`, `UtteranceTimer`, `DigitsTimer`, `SilenceTimer`, in that order, before the next event |
| `_on_start`, `_on_audio`, `_on_heard`, `_on_key`, `_on_played`, `_on_closed`, `_on_broken` | `Start`, `Audio`, `Partial`, `Final`, `Key`, `Played`, `LegClosed`, `LegBroken` |
| `_on_say`, `_on_transfer`, `_on_hangup`, the recording | `Speak`, `Transfer`, `Hangup`, `StartTape`, `StopTape`, `TapeTeam` |
| the end of `_turn`, `_wait_for_the_caller` | `EndTurn`, `WaitAgain` |
| the line and the ear | `Acts`, `HangsUp`, `LineBreaks`, `LineCloses`, `LinePlays`, `EarPartial`, `EarFinal` |

This is the one module with a clock. Times are relative to now and count down with
`Tick`, which is possible while the worker waits or while it is busy with the core or
the mouth, for at most `MaxLag` ticks; in that time the queue fills. An exception of
core or line, a failed ear, mouth or recording may come at each place where the code
calls one of them, also where it opens the ear (`session.py:306`) and where it tells the line
to drop what it plays (`InterruptRaises`).

### Runs

| Run | Question | Bounds |
|---|---|---|
| `session_call` | Is nothing taken for an answer that was said before the read-back was heard? Is a call hung up only when all was heard? Does a stop of the recording hold? Does every call end? | every delay 1 or 2 ticks, entries of two digits, one question into a silent line, two moves of the caller or failures |
| `session_keys` | Does what was keyed obey the rule for what was said? It does not, see section 10 | the same, without recording |

What decides in the code is the order of times, not their size; with delays of
one and two ticks every order occurs that the settings allow. Two moves are a word and a
second one behind it, a word and a failure, a key and a word.

Fairness. The worker's thread runs, time passes, and a broken connection is reported as
closed. Nothing is assumed of caller, ear and line: `EveryCallEnds` says that the
timers end a call in which all of them are silent. A caller who goes on talking for ever
is outside of the bound `MaxMoves`.

What the model leaves out: the sound itself and the length of a sentence (one tick), the text
of answers (words, a stop, noise, something without words), the names a caller gives for
the number on the phone, `max_call_seconds`, which the core asks about in a turn, and the
writing of the recording. A failed connection is logged as hung up by the caller when
its close is handled before its failure is seen (`session.py:199`, `router.py:171`); the
model keeps the outcome of the session, not that log.

### Proofs

`Invariance` proves `Inv` inductive for all delays, limits and bounds. Three things keep
each other in order. `Taping`: what the core asks of the recording is the first ask of its
turn, so that nothing comes between a stop and its being carried out; a recording that was
withdrawn has nothing left once that ask is gone. `Playing`: the sentences on the line carry
growing marks, none plays that the session has dropped, and while one of them is to be
heard to its end `_protected_until` is infinite and no barge-in is possible; unless a failure
dropped some, exactly those sentences are owed. `Reported`: a report in the queue that names
the last mark was made when nothing was playing any more, and after the last
sentence was heard; so the time it carries, which becomes `_protected_until`, is never
earlier than the moment the read-back ended. `Begins` says that only the first event is the
start of the call, and is needed because a start behind another event would forget a
withdrawn recording.

From it follow `AnswersHeardOut`, `HangupsHeardOut`, `StopsHold` and `Typing`. Each piece of
the worker has a lemma of its own (`UserTurnBecomes`, `OnFinalBecomes`, ...) with one
conclusion, `Becomes`; `CalmStays` and `TurnBecomes` carry it from piece to piece. Time is
unbounded in one part of the call: `until` grows with each sentence put on the line, so
`TypeOK` gives it no upper bound. `EveryCallEnds` is checked with TLC only (liveness), and
`KeyedAnswersAreHeard` does not hold.

## 8. All calls of the line

### State and actions

`books` are the sets `telephony/handler.py` keeps under its lock (`live`, `ending`,
`starting`, `endedWhileStarting`, `aiCalls`, `closed`), `call` is the object of a call. `at`
is where the thread with the events of a call is, `closing` the thread that reports the
end of its leg, which may run beside it. One action reaches from one use of the lock, or one
call of something that may fail, to the next.

| Code | Actions |
|---|---|
| `on_call_started`, `_open` | `Start`, `WriteRow`, `CannotOpen`, `HungUp`, `Admit`, `Greet`, `AskRecording` |
| `on_user_turn`, `on_dtmf`, `on_silence`, `_turn` | `Turn`, `TurnGoesOn`, `ToTheTeam`, `Transfer`, `EndCall`, `HangUp` |
| `on_voice_failure`, `_guarded`, `_fail` | `VoiceFails`, `Raise`, `Fail`, `Rescue`, `RescueRefused` |
| `on_call_ended`, `_finish` | `EndReported`, `WriteLog`, `WriteLogAtTheEnd` |
| a restart of the process | `Restart` |

The line delivers the events of one call one after another (`port.py`); the handler
prepares, with its claim and its sets, for an end of the leg that comes beside another
event. `EndMeets` names where: anywhere but inside a turn or an opening that has not yet
decided how it ends, because the code does not prepare for it there: a turn
that then ends would leave its entry in `_ending`, since no second end is reported.

### Run

`handler_calls`: two calls at once and one place for the agent, two failures, one
restart, one closed call remembered. Two calls are what the limit tells apart, and a
memory of one forgets the older of two.

Fairness. A thread goes on; a call that is up has its next turn or silence (the session's
silence timer). That a leg ends is not assumed. CHECK_DEADLOCK is FALSE: when
both legs are gone nothing is left to do.

What the model leaves out: what a turn says, mode and opening hours (the decision of
`takes_call` is free except for the limit), the contents of the log, the recording, the
named phones, and closing the model's client. The callback card of a caller who hangs up on
the recording question in mode shadow (`handler.py:362-366`) and that of `on_team_missed` are
written by `team_missed`, which takes locks of its own: it is `MissedBegin` and what follows it in section 5.

### Proofs

`Invariance`: where the thread of a call is fixes which sets may name it; whoever may
still write the log of a call has an open row, and `finished` is set by the first.
From it follow, for any number of calls, limits, faults and restarts:
`LimitIsKept`, `PlacesReturn`, `OneWriter`, `NothingIsLeft`, `FailuresAreLogged` and `Typing`.
The limit counts whom the agent took (`AgentTook`), also after it handed the caller to the
team, until the leg ends or is refused (`handler.py:205-208, 611-614`). It rests on the places:
each of them holds one, and a place is taken in the step that counts them; that a refused
leg is never taken up again (`PlaceInv`) is what keeps a later transfer from adding one. `CallerReachesSomeone` and `EveryLogIsClosed` are
checked with TLC only.

## 9. Floor plan

### State and actions

A room is the names its tables carry. `plan`, `revision` and `versions` are the
database (`versions` remembers the room of every revision, only to speak about it); `writers`
hold the advisory lock. `req` are the saves: each tablet may have one it waits for
and one it gave up on, which is still on the line or in the server. `sheet` is the editor's
state: the last stored room, the last finished step (`pending`), the save without an answer
(`unacked`), and whether it says that something is unsaved.

| Code | Actions |
|---|---|
| `commit`, `undo`, "Nochmal speichern" (`raumplan.js`) | `Edit`, `Retry` |
| `save`, its answers and what follows | `Answer`, `Lose` |
| `load`, `plan()` | `Reload`, `Loaded` |
| `save_area` | `Begin` (lock, revision, `_check`), `LockRow` per table, `Store` (`_apply`, commit or refusal), `ServerFails` |
| `seating` up to its commit | `Seat`, `LockTable`, `Book` |
| deadlock detection of the database | `Deadlock` |

### Run

`floorplan_saves`: two tablets with one room open, one of them with a second room, three
tables, a confirmation of two of them; four drawings that swap names, move a name
between rooms and remove a table; two steps of the team and one loss. Two tablets and one
loss give the resend that meets another tablet's save; the second room gives the
name that is taken elsewhere at the same moment.

Fairness. The server works on, an answer that is not lost arrives, and the
deadlock detector runs. Strong fairness is assumed only of `LockTable`: whoever waits for
a row stands in the database's queue. Steps of the team are not presumed.
CHECK_DEADLOCK is FALSE: a plan nobody draws on has no steps.

What the model leaves out: `create_area`, the geometry rules, drags, the history behind
undo, and pairs, shapes and fixtures, which travel in the same document under the same
revision. Seen while modelling, and no fault of what is stored: an answer 409 or 422 does not
reset `unsaved`, so that the page may warn although nothing is unsaved; and a save that was
refused after a resend may still be stored later if its first copy is late, which nobody is
told.

### Proofs

`Invariance`: a save that passed the checks is the only writer, its revision is still
that of the room, and its names fit the plan. What a tablet or a request holds as the
server's room (`Known`) is that room if its revision is still the newest one, and an
older revision never becomes the newest again; an answer that says "stored" names the
revision under which the room was stored. From it follow, for any tablets, rooms, tables
and confirmations:
`QuietSheets`, `DatabaseNeverRefuses`, `SeenBeforeReplaced` and `Typing`. `SavesEnd` is checked
with TLC only.

## 10. What the checks found

The runs that expect a violation each check one statement of a document or comment.

* `handover_lost_reason`. After "Nochmal senden" a correction rewrites the new
  ticket as if the kitchen had never seen a slip, although the older one may have
  printed: the correction prints without the word KORREKTUR.
* `callbacks_reopen`. A card brought back from the history may meet a newer open card of
  the same call: `reopen` does not take the call's lock, which the docs require of
  every path that writes cards.
* `session_keys`. A digit, then words before the entry has ended: the core answers with a
  read-back, and in the middle of it the timer of the entry hands the digit over as the
  next answer. `_on_key` checks `_protected_until`, the timer does not.

Two further statements do not hold; they are kept as definitions without a run.

* `ReplacingSlipSaysSo` (`KitchenHandover`). A correction of a red card asks whether a slip may
  exist and looks for the unsent ticket in two statements (`correction.py:390`). A poll in
  between takes the ticket, and both slips print as first slips;
  `ticket.py:53` says that "a slip that replaces an earlier one still says so".
* `LiveYesPasses` (`Reservations`). A correction of a wish on the phone leaves the old draft
  in place, and all live drafts count (`capacity.py:122`): another guest whose
  draft still holds its seats is refused, which `docs/04_API_TOOLS.md:538` excludes.

## 11. Not provable here

Liveness under fairness and ENABLED stay with TLC. So do statements about values
a recursive definition computes over all data.

## 12. Not modelled, and what could follow

Modelled so far, in the order of what a failure costs: the kitchen handover with the
print bridge, the reservations, the callbacks, the cold path, one telephone call, all
calls of a line, the floor plan. Not modelled:

| Part | Why | What a model would ask |
|---|---|---|
| Conversation core (`agent/loop.py`, `dispatch.py`, `guards.py`) | a turn depends on words of caller and model, which the guards read; `CallSession` and `CallHandler` take its result as arbitrary | no booking without a read-back of exactly that draft and a yes after it |
| Service switches (`status/config.py`, `waits.py`) except the one for reservations | small, and independent of the rest | what a pause replaced comes back |
| Order drafts and the order board (`ordering/{draft,correction,board}.py`) beyond the handover | prices and items; the version check is one comparison under a row lock | an edit based on an old version changes nothing |
| Jobs (`jobs/{monitor,daily_report}.py`) | they need a calendar: alarms per clock hour, one report a day | a failed event is alarmed; one report a day |
| Menu, customers, delivery, opening hours | text and dates, little state | operators checked against a reference |
| Audio, speech engines, the language model, the printer | external, or signal processing | – |
| Routes, tools by hand, simulation, evaluations, migrations | wiring and tools around the functions above | – |

Every safety invariant and every safety action property that a passing run checks is a
theorem, and so are the refinements of `KitchenCard` and `ReservationBook`. The liveness
properties stay with TLC: the prover has no rules for fairness and ENABLED.
