-------------------------- MODULE KitchenHandover --------------------------
(***************************************************************************)
(* How a confirmed order becomes a slip at the kitchen printer.            *)
(*                                                                         *)
(* Two tables of the server carry it: `orders` (status, handover_state and *)
(* the number of corrections) and the kitchen rows of `outbox`, the        *)
(* tickets.  The agent and the tablet write tickets (confirm, approve,     *)
(* resend, correct, cancel); the print bridge in the restaurant polls them *)
(* (claim_tickets), prints and answers (ack_ticket); a watchdog (sweep)    *)
(* turns the card red when nobody does.  Every transaction runs READ       *)
(* COMMITTED with row locks; one that reads at two moments is two actions  *)
(* with the lock held in between.                                          *)
(*                                                                         *)
(* There is one bridge and no clock.  A ticket's lease, backoff or pickup  *)
(* timeout (next_attempt_at) may be over at any moment, except, unless     *)
(* LateAcks, while an answer about it is under way: the lease is six times *)
(* the bridge's HTTP timeout.                                              *)
(***************************************************************************)
EXTENDS Naturals, FiniteSets, Sequences

CONSTANTS
    Orders,       \* the pickup orders of the restaurant
    MaxTickets,   \* bound: kitchen rows of the outbox
    MaxRevision,  \* bound: corrections and cancellation of one order
    MaxAttempts,  \* MAX_ATTEMPTS, pickups of one ticket (5 in the code)
    ClaimLimit,   \* most tickets one poll hands out
    MaxTrouble,   \* bound: print errors, lost answers, lost poll responses
    MaxCrashes,   \* bound: restarts of the bridge, rolled back polls
    LateAcks      \* may an answer arrive after the lease of its pickup?

ASSUME BoundsAreNat ==
    /\ MaxTickets \in Nat /\ MaxRevision \in Nat
    /\ MaxAttempts \in Nat \ {0} /\ ClaimLimit \in Nat \ {0}
    /\ MaxTrouble \in Nat /\ MaxCrashes \in Nat

ASSUME LateAcksIsBoolean == LateAcks \in BOOLEAN

VARIABLES
    status,    \* order -> orders.status
    handover,  \* order -> orders.handover_state, the colour of the card
    rev,       \* order -> audit entries that changed it (ticket.revision)
    tap,       \* order -> what the transaction holding its row lock found
    ticket,    \* 1..MaxTickets -> kitchen row of the outbox, in issue order
    issued,    \* rows issued so far
    lock,      \* row -> the transaction holding its row lock
    acks,      \* answers of the bridge on their way to the server
    batch,     \* slips of the last poll the bridge has not looked at
    inHand,    \* the slip printed but not yet in the print log, or NoSlip
    logMem,    \* order -> newest revision in the bridge's print log, + 1
    logFile,   \* order -> the same in its file, what a restart reads
    paper,     \* order -> slips that came out of the printer
    trouble,   \* failures so far
    crashes    \* restarts so far

orderVars  == <<status, handover, rev, tap>>
outboxVars == <<ticket, issued, lock>>
bridgeVars == <<batch, inHand, logMem, logFile, paper>>
faultVars  == <<trouble, crashes>>
vars == <<orderVars, outboxVars, acks, bridgeVars, faultVars>>

Tickets   == 1..MaxTickets
Revisions == 0..MaxRevision
Reasons   == {"none", "correction", "cancelled"}   \* payload.correction_reason

Ticket ==
    [order    : Orders,
     rev      : Revisions,
     reason   : Reasons,
     status   : {"pending", "sent", "failed"},
     attempts : 0..MaxAttempts,
     error    : {"none", "print", "unanswered", "superseded", "withdrawn"}]

NoTicket == [order |-> "none"]                     \* a row not issued yet

Slip   == [ticket : Tickets, order : Orders, rev : Revisions, reason : Reasons]
NoSlip == [ticket |-> 0]
Ack    == [ticket : Tickets, ok : BOOLEAN]

Locks == {"free",                     \* nobody
          "claim", "hand", "drop",    \* a poll: not looked at, goes out, passed over
          "printed", "misprinted",    \* an answer that waits for the order
          "withdraw"}                 \* a cancellation takes the ticket back

Taps == {"free",                      \* nobody holds the order
         "first", "replaces",         \* a correction: the kitchen's first slip, or not
         "quiet",                     \* a correction before "Passt": no slip yet
         "taken",                     \* a cancellation holds the unprinted tickets
         "note", "gone"}              \* and goes on with a note, or without

Init ==
    /\ status   = [o \in Orders |-> "draft"]
    /\ handover = [o \in Orders |-> "none"]
    /\ rev      = [o \in Orders |-> 0]
    /\ tap      = [o \in Orders |-> "free"]
    /\ ticket   = [e \in Tickets |-> NoTicket]
    /\ issued   = 0
    /\ lock     = [e \in Tickets |-> "free"]
    /\ acks     = {}
    /\ batch    = {}
    /\ inHand   = NoSlip
    /\ logMem   = [o \in Orders |-> 0]
    /\ logFile  = [o \in Orders |-> 0]
    /\ paper    = [o \in Orders |-> <<>>]
    /\ trouble  = 0
    /\ crashes  = 0

----------------------------------------------------------------------------
(* The outbox.                                                             *)

Issued      == 1..issued
TicketsOf(o) == {e \in Issued : ticket[e].order = o}

\* handover._is_current: no ticket of the order has a higher revision.
IsCurrent(e) == \A f \in TicketsOf(ticket[e].order) : ticket[f].rev <= ticket[e].rev

NewTicket(o, r, why) ==
    [order |-> o, rev |-> r, reason |-> why, status |-> "pending",
     attempts |-> 0, error |-> "none"]

\* The tickets of o nobody picked up, without those another transaction holds.
Unsent(rows, o) ==
    {e \in TicketsOf(o) : /\ rows[e].status = "pending"
                          /\ rows[e].attempts = 0
                          /\ lock[e] = "free"}

\* Mutant of SendTicket: FOR UPDATE that waits for the order's rows, no SKIP LOCKED.
SendTicketWaiting(rows, o, r, why) ==
    /\ \A e \in TicketsOf(o) : lock[e] \in {"free", "withdraw"}
    /\ issued < MaxTickets
    /\ issued' = issued + 1
    /\ ticket' = [rows EXCEPT ![issued + 1] = NewTicket(o, r, why)]

\* ticket.send_ticket on the rows the transaction sees: the newest ticket not
\* picked up yet is rewritten in place, a first slip stays a first slip.
SendTicket(rows, o, r, why) ==
    \/ /\ Unsent(rows, o) = {}
       /\ issued < MaxTickets
       /\ issued' = issued + 1
       /\ ticket' = [rows EXCEPT ![issued + 1] = NewTicket(o, r, why)]
    \/ \E e \in Unsent(rows, o) :
         /\ \A f \in Unsent(rows, o) : f <= e
         /\ ticket' = [rows EXCEPT
                ![e].rev    = r,
                ![e].reason = IF rows[e].reason = "none" THEN "none" ELSE why]
         /\ UNCHANGED issued

\* Mutant of MayHoldASlip: a ticket overtaken while its answer was open is no slip.
MayHoldAnAckedSlip(rows, o) ==
    \E e \in TicketsOf(o) : rows[e].attempts > 0 /\ rows[e].error = "none"

\* handover.may_hold_a_slip: picked up, and no error came back.
Held(t) == t.attempts > 0 /\ t.error \in {"none", "unanswered"}

MayHoldASlip(rows, o) == \E e \in TicketsOf(o) : Held(rows[e])

\* handover._supersede: done without a print.
Superseded(t) ==
    [t EXCEPT !.status = "sent",
              !.error  = IF t.attempts > 0 /\ t.error = "none"
                         THEN "unanswered" ELSE "superseded"]

\* Mutants of ToRed and ToSent: a late error turns a green card red; any ticket's
\* answer turns the card green; a red card stays red.
ToRedFromSent(e) ==
    LET o == ticket[e].order
    IN  handover' = IF IsCurrent(e) /\ handover[o] # "none"
                    THEN [handover EXCEPT ![o] = "failed"] ELSE handover

ToSentAnyTicket(e) ==
    LET o == ticket[e].order
    IN  handover' = IF handover[o] \in {"pending", "failed"}
                    THEN [handover EXCEPT ![o] = "sent"] ELSE handover

ToSentFromPending(e) ==
    LET o == ticket[e].order
    IN  handover' = IF IsCurrent(e) /\ handover[o] = "pending"
                    THEN [handover EXCEPT ![o] = "sent"] ELSE handover

\* handover._to_red and _to_sent, under the order's lock.
ToRed(e) ==
    LET o == ticket[e].order
    IN  handover' = IF IsCurrent(e) /\ handover[o] = "pending"
                    THEN [handover EXCEPT ![o] = "failed"] ELSE handover

ToSent(e) ==
    LET o == ticket[e].order
    IN  handover' = IF IsCurrent(e) /\ handover[o] \in {"pending", "failed"}
                    THEN [handover EXCEPT ![o] = "sent"] ELSE handover
----------------------------------------------------------------------------
(* The agent and the tablet.  A tap waits for the order's row lock.        *)

\* confirm_order: `direct` sends the first ticket, else "Passt" will.
Confirm(o, direct) ==
    /\ status[o] = "draft"
    /\ status' = [status EXCEPT ![o] = "confirmed"]
    /\ IF direct
       THEN /\ issued < MaxTickets
            /\ issued' = issued + 1
            /\ ticket' = [ticket EXCEPT ![issued + 1] = NewTicket(o, 0, "none")]
            /\ handover' = [handover EXCEPT ![o] = "pending"]
       ELSE UNCHANGED <<ticket, issued, handover>>
    /\ UNCHANGED <<rev, tap, lock, acks, bridgeVars, faultVars>>

\* approve_order: a red card is refused.
Approve(o) ==
    /\ status[o] = "confirmed"
    /\ handover[o] # "failed"
    /\ tap[o] = "free"
    /\ status' = [status EXCEPT ![o] = "approved"]
    /\ IF handover[o] = "none"
       THEN /\ SendTicket(ticket, o, rev[o], "none")
            /\ handover' = [handover EXCEPT ![o] = "pending"]
       ELSE UNCHANGED <<ticket, issued, handover>>
    /\ UNCHANGED <<rev, tap, lock, acks, bridgeVars, faultVars>>

\* ticket.last_reason: what the newest ticket says.
LastReason(o) ==
    {ticket[e].reason : e \in {f \in TicketsOf(o) : \A g \in TicketsOf(o) : g <= f}}

\* resend_order, only on a red card.
Resend(o) ==
    /\ handover[o] = "failed"
    /\ tap[o] = "free"
    /\ \E why \in IF status[o] = "cancelled" THEN {"cancelled"} ELSE LastReason(o) :
          SendTicket(ticket, o, rev[o], why)
    /\ handover' = [handover EXCEPT ![o] = "pending"]
    /\ UNCHANGED <<status, rev, tap, lock, acks, bridgeVars, faultVars>>

\* apply_correction, first half: the lock, the checks, and what the kitchen may
\* already have.  An order waiting for "Passt" has no ticket to replace.
CorrectBegin(o) ==
    /\ status[o] \in {"confirmed", "approved"}
    /\ tap[o] = "free"
    /\ rev[o] < MaxRevision
    /\ issued < MaxTickets
    /\ LET reached == handover[o] \in {"pending", "sent"} \/ MayHoldASlip(ticket, o)
       IN  tap' = [tap EXCEPT ![o] = IF handover[o] = "none" THEN "quiet"
                                     ELSE IF reached THEN "replaces" ELSE "first"]
    /\ UNCHANGED <<status, handover, rev, outboxVars, acks, bridgeVars, faultVars>>

\* apply_correction, second half: the ticket, the card, the commit.
CorrectCommit(o) ==
    /\ status[o] \in {"confirmed", "approved"}
    /\ tap[o] \in {"first", "replaces", "quiet"}
    /\ rev' = [rev EXCEPT ![o] = @ + 1]
    /\ IF tap[o] = "quiet"
       THEN UNCHANGED <<ticket, issued, handover>>
       ELSE /\ SendTicket(ticket, o, rev[o] + 1,
                          IF tap[o] = "replaces" THEN "correction" ELSE "none")
            /\ handover' = [handover EXCEPT ![o] = "pending"]
    /\ tap' = [tap EXCEPT ![o] = "free"]
    /\ UNCHANGED <<status, lock, acks, bridgeVars, faultVars>>

\* cancel_order with withdraw_tickets: the tickets nobody printed are taken back
\* (those another transaction holds are skipped).
CancelBegin(o) ==
    /\ status[o] \in {"confirmed", "approved"}
    /\ tap[o] = "free"
    /\ rev[o] < MaxRevision
    /\ issued < MaxTickets
    /\ LET unprinted == {e \in TicketsOf(o) : /\ ticket[e].status = "pending"
                                              /\ ticket[e].attempts = 0 \/ ticket[e].error # "none"
                                              /\ lock[e] = "free"}
       IN  lock' = [e \in Tickets |-> IF e \in unprinted THEN "withdraw" ELSE lock[e]]
    /\ tap' = [tap EXCEPT ![o] = "taken"]
    /\ UNCHANGED <<status, handover, rev, ticket, issued, acks, bridgeVars, faultVars>>

\* withdraw_tickets asks on: is a ticket left to do, or may a slip exist all the same?
CancelAsk(o) ==
    /\ tap[o] = "taken"
    /\ LET left == \E e \in TicketsOf(o) : ticket[e].status = "pending" /\ lock[e] # "withdraw"
       IN  tap' = [tap EXCEPT ![o] = IF left \/ MayHoldASlip(ticket, o) THEN "note" ELSE "gone"]
    /\ UNCHANGED <<status, handover, rev, outboxVars, acks, bridgeVars, faultVars>>

Withdrawn(o) ==
    [e \in Tickets |-> IF e \in TicketsOf(o) /\ lock[e] = "withdraw"
                       THEN [ticket[e] EXCEPT !.status = "sent", !.error = "withdrawn"]
                       ELSE ticket[e]]

\* cancel_order, the rest: status, card, audit entry, and the note.
CancelCommit(o) ==
    /\ tap[o] \in {"note", "gone"}
    /\ status' = [status EXCEPT ![o] = "cancelled"]
    /\ rev' = [rev EXCEPT ![o] = @ + 1]
    /\ IF tap[o] = "note"
       THEN /\ SendTicket(Withdrawn(o), o, rev[o] + 1, "cancelled")
            /\ handover' = [handover EXCEPT ![o] = "pending"]
       ELSE /\ ticket' = Withdrawn(o)
            /\ handover' = [handover EXCEPT ![o] = "none"]
            /\ UNCHANGED issued
    /\ lock' = [e \in Tickets |-> IF e \in TicketsOf(o) /\ lock[e] = "withdraw"
                                  THEN "free" ELSE lock[e]]
    /\ tap' = [tap EXCEPT ![o] = "free"]
    /\ UNCHANGED <<acks, bridgeVars, faultVars>>

----------------------------------------------------------------------------
(* The bridge's poll, one transaction at the server (claim_tickets).       *)

Idle == batch = {} /\ inHand = NoSlip

\* An answer about e is on its way or waits for the order.
InFlight(e) == lock[e] \in {"printed", "misprinted"} \/ \E a \in acks : a.ticket = e

\* next_attempt_at may have come, for the poll and for the watchdog.
TimeIsUp(e) == InFlight(e) => LateAcks

Polled(kinds) == {e \in Issued : lock[e] \in kinds}

Claimable ==
    {e \in Issued : /\ ticket[e].status = "pending"
                    /\ TimeIsUp(e)
                    /\ ticket[e].attempts < MaxAttempts
                    /\ lock[e] = "free"}

\* The oldest ClaimLimit tickets that are due, FOR UPDATE SKIP LOCKED.
ClaimSelect ==
    /\ Idle
    /\ Polled({"claim", "hand", "drop"}) = {}
    /\ \E rows \in SUBSET Claimable :
          /\ rows # {}
          /\ \A e \in rows, f \in Claimable \ rows : e < f
          /\ \/ Cardinality(rows) = ClaimLimit
             \/ rows = Claimable /\ Cardinality(rows) < ClaimLimit
          /\ lock' = [e \in Tickets |-> IF e \in rows THEN "claim" ELSE lock[e]]
    /\ UNCHANGED <<orderVars, ticket, issued, acks, bridgeVars, faultVars>>

\* Mutant of ClaimCheck: an overtaken ticket goes out as well.
ClaimCheckNothing(e) ==
    /\ lock[e] = "claim"
    /\ \A f \in Polled({"claim"}) : e <= f
    /\ lock' = [lock EXCEPT ![e] = "hand"]
    /\ UNCHANGED <<orderVars, ticket, issued, acks, bridgeVars, faultVars>>

\* One statement per row: is there a newer ticket of the order by now?
ClaimCheck(e) ==
    /\ lock[e] = "claim"
    /\ \A f \in Polled({"claim"}) : e <= f
    /\ lock' = [lock EXCEPT ![e] = IF IsCurrent(e) THEN "hand" ELSE "drop"]
    /\ UNCHANGED <<orderVars, ticket, issued, acks, bridgeVars, faultVars>>

PickedUp(t) == [t EXCEPT !.attempts = @ + 1, !.error = "none"]

SlipOf(e) == [ticket |-> e, order |-> ticket[e].order,
              rev |-> ticket[e].rev, reason |-> ticket[e].reason]

\* The commit; its response reaches the bridge or is lost.
ClaimCommit(delivered) ==
    /\ Polled({"claim"}) = {}
    /\ Polled({"hand", "drop"}) # {}
    /\ ticket' = [e \in Tickets |-> CASE lock[e] = "hand" -> PickedUp(ticket[e])
                                     [] lock[e] = "drop" -> Superseded(ticket[e])
                                     [] OTHER            -> ticket[e]]
    /\ lock' = [e \in Tickets |-> IF lock[e] \in {"hand", "drop"} THEN "free" ELSE lock[e]]
    /\ IF delivered
       THEN batch' = {SlipOf(e) : e \in Polled({"hand"})} /\ UNCHANGED trouble
       ELSE trouble < MaxTrouble /\ trouble' = trouble + 1 /\ UNCHANGED batch
    /\ UNCHANGED <<orderVars, issued, acks, inHand, logMem, logFile, paper, crashes>>

\* The poll rolls back: nothing happened.
ClaimAbort ==
    /\ Polled({"claim", "hand", "drop"}) # {}
    /\ crashes < MaxCrashes
    /\ crashes' = crashes + 1
    /\ lock' = [e \in Tickets |-> IF lock[e] \in {"claim", "hand", "drop"}
                                  THEN "free" ELSE lock[e]]
    /\ UNCHANGED <<orderVars, ticket, issued, acks, bridgeVars, trouble>>

----------------------------------------------------------------------------
(* The bridge's answer (ack_ticket): the ticket's lock, then the order's.  *)

\* A ticket that is no longer pending ignores the answer.
AckTake(a) ==
    /\ lock[a.ticket] = "free"
    /\ acks' = acks \ {a}
    /\ lock' = IF ticket[a.ticket].status = "pending"
               THEN [lock EXCEPT ![a.ticket] = IF a.ok THEN "printed" ELSE "misprinted"]
               ELSE lock
    /\ UNCHANGED <<orderVars, ticket, issued, bridgeVars, faultVars>>

\* outbox.mark_sent and mark_attempt_failed, the attempt already counted.
MarkSent(t) == [t EXCEPT !.status = "sent", !.error = "none"]

MarkAttemptFailed(t) ==
    [t EXCEPT !.error  = "print",
              !.status = IF t.attempts >= MaxAttempts THEN "failed" ELSE "pending"]

AckCommit(e) ==
    /\ lock[e] \in {"printed", "misprinted"}
    /\ tap[ticket[e].order] = "free"
    /\ IF lock[e] = "printed"
       THEN ticket' = [ticket EXCEPT ![e] = MarkSent(@)] /\ ToSent(e)
       ELSE ticket' = [ticket EXCEPT ![e] = MarkAttemptFailed(@)] /\ ToRed(e)
    /\ lock' = [lock EXCEPT ![e] = "free"]
    /\ UNCHANGED <<status, rev, tap, issued, acks, bridgeVars, faultVars>>

AckLost(a) ==
    /\ trouble < MaxTrouble
    /\ trouble' = trouble + 1
    /\ acks' = acks \ {a}
    /\ UNCHANGED <<orderVars, outboxVars, bridgeVars, crashes>>

----------------------------------------------------------------------------
(* The watchdog (sweep), every few seconds in the dispatcher process: the  *)
(* order's lock, then the ticket's, skipped when another holds it.         *)

\* Mutant of Sweep: only tickets without pickups left are given up.
SweepUsedUp(e) ==
    /\ ticket[e].status = "pending" /\ TimeIsUp(e)
    /\ ticket[e].attempts >= MaxAttempts /\ IsCurrent(e)
    /\ tap[ticket[e].order] = "free"
    /\ lock[e] = "free"
    /\ ToRed(e)
    /\ ticket' = [ticket EXCEPT ![e].status = "failed"]
    /\ UNCHANGED <<status, rev, tap, issued, lock, acks, bridgeVars, faultVars>>

Sweep(e) ==
    LET t == ticket[e] IN
    /\ t.status = "pending" /\ TimeIsUp(e)
    /\ handover[t.order] = "pending" \/ t.attempts >= MaxAttempts
    /\ tap[t.order] = "free"
    /\ lock[e] = "free"
    /\ \/ /\ t.attempts < MaxAttempts
          /\ ToRed(e) /\ UNCHANGED ticket
       \/ /\ t.attempts >= MaxAttempts /\ IsCurrent(e)
          /\ ToRed(e) /\ ticket' = [ticket EXCEPT ![e].status = "failed"]
       \/ /\ t.attempts >= MaxAttempts /\ ~IsCurrent(e)
          /\ ticket' = [ticket EXCEPT ![e] = Superseded(@)] /\ UNCHANGED handover
    /\ UNCHANGED <<status, rev, tap, issued, lock, acks, bridgeVars, faultVars>>

----------------------------------------------------------------------------
(* The bridge (run_once): one slip after the other, oldest first.          *)

NextInBatch(s) ==
    /\ inHand = NoSlip
    /\ s \in batch
    /\ \A t \in batch : s.ticket <= t.ticket

\* Mutant of Already: only a newer revision is "already printed".
AlreadyNewer(s) == logMem[s.order] > s.rev + 1

Already(s) == logMem[s.order] > s.rev          \* PrintedLog.already

BridgeSkip(s) ==
    /\ NextInBatch(s) /\ Already(s)
    /\ batch' = batch \ {s}
    /\ acks' = acks \cup {[ticket |-> s.ticket, ok |-> TRUE]}
    /\ UNCHANGED <<orderVars, outboxVars, inHand, logMem, logFile, paper, faultVars>>

BridgePrint(s) ==
    /\ NextInBatch(s) /\ ~Already(s)
    /\ batch' = batch \ {s}
    /\ inHand' = s
    /\ paper' = [paper EXCEPT ![s.order] = Append(@, [rev |-> s.rev, reason |-> s.reason])]
    /\ UNCHANGED <<orderVars, outboxVars, acks, logMem, logFile, faultVars>>

\* The printer refuses; nothing came out.
BridgePrintError(s) ==
    /\ NextInBatch(s) /\ ~Already(s)
    /\ trouble < MaxTrouble
    /\ trouble' = trouble + 1
    /\ batch' = batch \ {s}
    /\ acks' = acks \cup {[ticket |-> s.ticket, ok |-> FALSE]}
    /\ UNCHANGED <<orderVars, outboxVars, inHand, logMem, logFile, paper, crashes>>

\* PrintedLog.record, then the answer; a file that cannot be written is
\* tolerated, the memory knows.
BridgeRecord(saved) ==
    /\ inHand # NoSlip
    /\ logMem' = [logMem EXCEPT ![inHand.order] = inHand.rev + 1]
    /\ IF saved
       THEN logFile' = logMem' /\ UNCHANGED trouble
       ELSE trouble < MaxTrouble /\ trouble' = trouble + 1 /\ UNCHANGED logFile
    /\ acks' = acks \cup {[ticket |-> inHand.ticket, ok |-> TRUE]}
    /\ inHand' = NoSlip
    /\ UNCHANGED <<orderVars, outboxVars, batch, paper, crashes>>

\* Power cut: the slips in memory are gone, the log is what its file says.
BridgeRestart ==
    /\ ~Idle \/ logMem # logFile
    /\ Polled({"claim", "hand", "drop"}) = {}
    /\ crashes < MaxCrashes
    /\ crashes' = crashes + 1
    /\ batch' = {}
    /\ inHand' = NoSlip
    /\ logMem' = logFile
    /\ UNCHANGED <<orderVars, outboxVars, acks, logFile, paper, trouble>>

----------------------------------------------------------------------------
TapNext(o) == \/ \E direct \in BOOLEAN : Confirm(o, direct)
              \/ Approve(o) \/ Resend(o)
              \/ CorrectBegin(o) \/ CorrectCommit(o)
              \/ CancelBegin(o) \/ CancelAsk(o) \/ CancelCommit(o)

PollNext == \/ ClaimSelect \/ ClaimAbort
            \/ \E e \in Issued : ClaimCheck(e)
            \/ \E delivered \in BOOLEAN : ClaimCommit(delivered)

AckNext == \/ \E a \in acks : AckTake(a) \/ AckLost(a)
           \/ \E e \in Issued : AckCommit(e)

BridgeNext == \/ \E s \in batch : BridgeSkip(s) \/ BridgePrint(s) \/ BridgePrintError(s)
              \/ \E saved \in BOOLEAN : BridgeRecord(saved)
              \/ BridgeRestart

Next == \/ \E o \in Orders : TapNext(o)
        \/ PollNext
        \/ AckNext
        \/ \E e \in Issued : Sweep(e)
        \/ BridgeNext

Spec == Init /\ [][Next]_vars

\* A transaction that holds a lock goes on, the watchdog runs and an answer under way is handled.  Nothing is assumed of the bridge.
ServerFairness ==
    /\ \A o \in Orders : /\ WF_vars(CorrectCommit(o))
                         /\ WF_vars(CancelAsk(o)) /\ WF_vars(CancelCommit(o))
    /\ \A e \in Tickets : /\ WF_vars(e \in Issued /\ ClaimCheck(e))
                          /\ WF_vars(e \in Issued /\ AckCommit(e))
                          /\ WF_vars(e \in Issued /\ Sweep(e))
    /\ WF_vars(\E delivered \in BOOLEAN : ClaimCommit(delivered))
    /\ \A a \in Ack : WF_vars(a \in acks /\ AckTake(a))

\* The bridge is up: it polls, prints and answers.
BridgeFairness ==
    /\ WF_vars(ClaimSelect)
    /\ WF_vars(\E s \in batch : BridgeSkip(s) \/ BridgePrint(s))
    /\ WF_vars(BridgeRecord(TRUE))

FairSpec == Spec /\ ServerFairness

----------------------------------------------------------------------------
(* Properties.                                                             *)

OrderTypes ==
    /\ status   \in [Orders -> {"draft", "confirmed", "approved", "cancelled"}]
    /\ handover \in [Orders -> {"none", "pending", "sent", "failed"}]
    /\ rev      \in [Orders -> Revisions]
    /\ tap      \in [Orders -> Taps]

OutboxTypes ==
    /\ issued \in 0..MaxTickets
    /\ ticket \in [Tickets -> Ticket \cup {NoTicket}]
    /\ \A e \in Issued : ticket[e] \in Ticket
    /\ lock   \in [Tickets -> Locks]

BridgeTypes ==
    /\ batch   \subseteq Slip
    /\ inHand  \in Slip \cup {NoSlip}
    /\ logMem  \in [Orders -> 0..(MaxRevision + 1)]
    /\ logFile \in [Orders -> 0..(MaxRevision + 1)]
    /\ paper   \in [Orders -> Seq([rev : Revisions, reason : Reasons])]

FaultTypes == trouble \in 0..MaxTrouble /\ crashes \in 0..MaxCrashes

TypeOK == OrderTypes /\ OutboxTypes /\ acks \subseteq Ack /\ BridgeTypes /\ FaultTypes

Last(o) == paper[o][Len(paper[o])]

\* The revision of the last slip, + 1; 0 when there is none.
Have == [o \in Orders |-> IF paper[o] = <<>> THEN 0 ELSE Last(o).rev + 1]

\* Green means the last slip out of the printer shows the order as it stands,
\* whatever was lost, repeated, printed twice or answered late (_to_sent).
GreenMeansNewest ==
    \A o \in Orders : handover[o] = "sent" =>
        paper[o] # <<>> /\ Last(o).rev = rev[o]

\* The kitchen never gets an older state after a newer one, also when the bridge
\* forgot what it printed (claim_tickets passes an overtaken ticket over).
PaperNeverRunsBack ==
    \A o \in Orders : \A i, j \in 1..Len(paper[o]) :
        i < j => paper[o][i].rev <= paper[o][j].rev

\* While the bridge keeps running, no state of an order comes out twice, however
\* often its ticket is handed out (PrintedLog.already).
NoSecondSlip ==
    crashes = 0 =>
        \A o \in Orders : \A i, j \in 1..Len(paper[o]) :
            i < j => paper[o][i].rev < paper[o][j].rev

\* A slip of a cancelled order asks the team to type in an order nobody wants: while
\* one lies at the register a card with the note exists, the slip of the cancellation
\* says so, and no other does (cancel_order, withdraw_tickets).  While the bridge
\* keeps running and answers in time.
CancelledSlipHasNote ==
    crashes = 0 =>
        \A o \in Orders :
            /\ status[o] = "cancelled" /\ paper[o] # <<>> => handover[o] # "none"
            /\ \A i \in 1..Len(paper[o]) :
                   paper[o][i].reason = "cancelled" <=>
                       status[o] = "cancelled" /\ paper[o][i].rev = rev[o]

\* The abstract card: `want` is the order's revision, `have` the last slip.
Card == INSTANCE KitchenCard WITH
    want <- rev,
    have <- Have,
    card <- handover

\* The handover implements the card's promise (KitchenCard.tla).
ImplementsCard == Card!Spec

\* With the bridge off, the network down or the answer lost, a card does not
\* stay yellow: the watchdog turns it red (sweep).
CardSettles ==
    \A o \in Orders : handover[o] = "pending" ~> handover[o] # "pending"

\* No transaction waits for another for ever: the tablet takes the order first
\* and skips a held ticket, the answer takes the ticket first.
LocksAreReleased ==
    /\ \A e \in Tickets : lock[e] # "free" ~> lock[e] = "free"
    /\ \A o \in Orders  : tap[o] # "free" ~> tap[o] = "free"

\* With a bridge that polls and a printer that fails less often than the tickets
\* have pickups left, each order sent gets to the kitchen, red card or not,
\* without anyone tapping "Nochmal senden".
KitchenGetsIt ==
    BridgeFairness =>
        \A o \in Orders : handover[o] \in {"pending", "failed"}
                             ~> handover[o] \in {"sent", "none"}

\* A correction that knows the kitchen has a slip, and finds one on paper, sends a
\* ticket that says "KORREKTUR" (docs/04, may_hold_a_slip: the slip of a card that
\* turned red after a lost answer is replaced, not followed by a second order).
CorrectionOfASlipSaysSo ==
    [][\A o \in Orders :
          tap[o] = "replaces" /\ tap'[o] = "free" /\ paper[o] # <<>> =>
              \E e \in 1..issued' : /\ ticket'[e].order = o
                                    /\ ticket'[e].rev = rev'[o]
                                    /\ ticket'[e].reason # "none"]_vars

\* A slip that replaces an earlier one says so (ticket.last_reason).  Not true, see
\* README: a poll may take the ticket between the two statements of CorrectBegin.
ReplacingSlipSaysSo ==
    \A o \in Orders : \A i, j \in 1..Len(paper[o]) :
        i < j /\ paper[o][i].rev < paper[o][j].rev => paper[o][j].reason # "none"

----------------------------------------------------------------------------
(* Why it holds: the inductive invariant behind GreenMeansNewest and       *)
(* PaperNeverRunsBack, proved in KitchenHandoverProofs.                    *)

\* Taps and locks: what the checks before taking them still guarantee.
TapInv ==
    /\ \A o \in Orders : tap[o] # "free" =>
          rev[o] < MaxRevision /\ status[o] \in {"confirmed", "approved"}
    /\ \A o \in Orders : status[o] = "draft" \/ tap[o] = "quiet" => handover[o] = "none"
    /\ \A o \in Orders : status[o] = "draft" => rev[o] = 0
    /\ \A e \in Tickets : e > issued => lock[e] = "free"
    /\ \A e \in Issued : lock[e] \in {"claim", "hand"} => ticket[e].attempts < MaxAttempts

\* A card that is not blank has a ticket with the order as it stands, and no
\* ticket is ahead of its order.
RevInv ==
    /\ \A e \in Issued : ticket[e].rev <= rev[ticket[e].order]
    /\ \A o \in Orders : handover[o] # "none" =>
          \E e \in TicketsOf(o) : ticket[e].rev = rev[o]

\* A ticket that left the server is never rewritten.
OutInv ==
    /\ \A s \in batch \cup ({inHand} \ {NoSlip}) :
          /\ s.ticket \in Issued
          /\ ticket[s.ticket].attempts > 0
          /\ s.order = ticket[s.ticket].order
          /\ s.rev = ticket[s.ticket].rev
    /\ \A a \in acks : a.ticket \in Issued /\ ticket[a.ticket].attempts > 0
    /\ \A e \in Issued : lock[e] \in {"printed", "misprinted"} => ticket[e].attempts > 0

\* What the bridge says it printed is on paper.
PrintedInv ==
    /\ \A o \in Orders : logMem[o] <= Have[o] /\ logFile[o] <= Have[o]
    /\ inHand # NoSlip => inHand.rev < Have[inHand.order]
    /\ \A a \in acks : a.ok => ticket[a.ticket].rev < Have[ticket[a.ticket].order]
    /\ \A e \in Issued : lock[e] = "printed" => ticket[e].rev < Have[ticket[e].order]

\* What the bridge is about to print is not older than the paper, nor is what a
\* poll is about to hand out.
OrderInv ==
    /\ \A o \in Orders : Have[o] > 0 => \E e \in TicketsOf(o) : Have[o] <= ticket[e].rev + 1
    /\ \A s \in batch : Have[s.order] <= s.rev + 1
    /\ \A s, t \in batch : s.order = t.order => s.rev = t.rev
    /\ \A e \in Issued : lock[e] = "hand" => Have[ticket[e].order] <= ticket[e].rev + 1
    /\ \A e, f \in Issued : /\ lock[e] = "hand" /\ lock[f] \in {"claim", "hand"}
                            /\ ticket[e].order = ticket[f].order
                            => ticket[f].rev <= ticket[e].rev
    /\ Polled({"claim", "hand", "drop"}) # {} => Idle

\* Behind NoSecondSlip: while the bridge keeps running, its print log is behind the
\* paper by the slip in hand only.
LogKnows ==
    crashes = 0 =>
        /\ \A o \in Orders : \/ Have[o] = logMem[o]
                             \/ inHand # NoSlip /\ inHand.order = o
        /\ inHand # NoSlip => Have[inHand.order] = inHand.rev + 1

(* Why a slip of a cancelled order has a note: while the bridge keeps      *)
(* running and answers in time, proved in KitchenHandoverSafety.           *)

Handed == batch \cup ({inHand} \ {NoSlip})

\* Only a ticket that is still to do is held; a cancellation holds those that are no slip.
TicketInv ==
    /\ \A e \in Issued : ticket[e].status = "pending" => ticket[e].error \in {"none", "print"}
    /\ \A e \in Issued : lock[e] # "free" => ticket[e].status = "pending"
    /\ \A e \in Issued : lock[e] = "withdraw" =>
          tap[ticket[e].order] \in {"taken", "note", "gone"} /\ ~Held(ticket[e])

\* From the poll to the answer a ticket is in one place: while the bridge has its slip
\* no answer about it is open, and none while a poll holds it.
PickupInv ==
    /\ \A s \in Handed : /\ s = SlipOf(s.ticket)
                         /\ Held(ticket[s.ticket]) /\ lock[s.ticket] = "free"
    /\ inHand \notin batch
    /\ \A a \in acks : /\ lock[a.ticket] \notin {"claim", "hand", "drop"}
                       /\ \A s \in Handed : s.ticket # a.ticket

\* The server knows of a slip on paper: it comes from a ticket that no answer called
\* a misprint, nor will one under way.
SlipInv ==
    \A o \in Orders : Have[o] > 0 =>
        \E e \in TicketsOf(o) : /\ Held(ticket[e]) /\ ticket[e].rev < Have[o]
                                /\ lock[e] # "misprinted"
                                /\ \A a \in acks : a.ticket = e => a.ok

\* A cancellation without a note leaves nothing the kitchen has or may still get.
GoneInv ==
    \A o \in Orders :
        tap[o] = "gone" \/ (status[o] = "cancelled" /\ handover[o] = "none") =>
            \A e \in TicketsOf(o) :
                ~Held(ticket[e]) /\ (ticket[e].status = "pending" => lock[e] = "withdraw")

\* The note is the ticket with the cancellation's revision, and no other; a ticket of the
\* order as it was cannot become the note, for nobody else may rewrite it.
ReasonInv ==
    /\ \A e \in Issued :
          ticket[e].reason = "cancelled" <=>
              status[ticket[e].order] = "cancelled" /\ ticket[e].rev = rev[ticket[e].order]
    /\ \A o \in Orders : tap[o] \in {"taken", "note", "gone"} \/ status[o] = "cancelled" =>
          \A e \in TicketsOf(o) :
              /\ ticket[e].status = "pending" /\ ticket[e].attempts = 0
              /\ ticket[e].reason # "cancelled"
              => lock[e] \in {"claim", "hand", "drop", "withdraw"}

NoteInv == crashes = 0 /\ ~LateAcks =>
              TicketInv /\ PickupInv /\ SlipInv /\ GoneInv /\ ReasonInv

Inv == /\ TypeOK /\ TapInv /\ RevInv /\ OutInv /\ PrintedInv /\ OrderInv
       /\ GreenMeansNewest /\ PaperNeverRunsBack
=============================================================================
