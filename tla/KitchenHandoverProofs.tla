----------------------- MODULE KitchenHandoverProofs -----------------------
(***************************************************************************)
(* Proofs about KitchenHandover, for any number of orders, tickets,        *)
(* revisions, pickups and failures.                                        *)
(***************************************************************************)
EXTENDS KitchenHandover, SequenceTheorems, TLAPS

Rows == [Tickets -> Ticket \cup {NoTicket}]

USE DEF Tickets, Issued, Revisions, Reasons

(* ------------------------------- Types -------------------------------- *)

\* send_ticket leaves a well-typed outbox.
LEMMA SendTicketType ==
    ASSUME NEW o \in Orders, NEW r \in Revisions, NEW why \in Reasons,
           NEW rows \in Rows, issued \in 0..MaxTickets,
           \A e \in Issued : rows[e] \in Ticket,
           SendTicket(rows, o, r, why)
    PROVE  /\ issued' \in 0..MaxTickets
           /\ ticket' \in Rows
           /\ \A e \in 1..issued' : ticket'[e] \in Ticket
  <1>1. CASE /\ issued < MaxTickets
             /\ issued' = issued + 1
             /\ ticket' = [rows EXCEPT ![issued + 1] = NewTicket(o, r, why)]
    <2>1. NewTicket(o, r, why) \in Ticket
      BY BoundsAreNat DEF NewTicket, Ticket
    <2> QED  BY <1>1, <2>1, BoundsAreNat DEF Rows
  <1>2. ASSUME NEW e \in Unsent(rows, o), UNCHANGED issued,
               ticket' = [rows EXCEPT
                ![e].rev    = r,
                ![e].reason = IF rows[e].reason = "none" THEN "none" ELSE why]
        PROVE  /\ issued' \in 0..MaxTickets
               /\ ticket' \in Rows
               /\ \A f \in 1..issued' : ticket'[f] \in Ticket
    <2>1. e \in Issued /\ e \in Tickets /\ rows[e] \in Ticket
      BY BoundsAreNat DEF Unsent, TicketsOf
    <2>2. ticket'[e] \in Ticket
      BY <1>2, <2>1 DEF Ticket, Rows
    <2>3. /\ DOMAIN ticket' = Tickets
          /\ ticket' = [f \in Tickets |-> ticket'[f]]
          /\ \A f \in Tickets : f # e => ticket'[f] = rows[f]
      BY <1>2, <2>1 DEF Rows
    <2>4. \A f \in Tickets : ticket'[f] \in Ticket \cup {NoTicket}
      BY <2>1, <2>2, <2>3 DEF Rows
    <2>5. ticket' \in Rows
      BY <2>3, <2>4 DEF Rows
    <2>6. \A f \in Issued : ticket'[f] \in Ticket
      BY <2>1, <2>2, <2>3, BoundsAreNat
    <2> QED  BY <1>2, <2>5, <2>6
  <1> QED  BY <1>1, <1>2 DEF SendTicket

\* The initial state is typed.
LEMMA TypeInit == Init => TypeOK
  BY BoundsAreNat DEF Init, TypeOK, OrderTypes, OutboxTypes, BridgeTypes, FaultTypes,
                      Taps, Locks, NoTicket, NoSlip

\* What an action leaves alone keeps its types.
LEMMA SameTypes ==
    /\ OrderTypes  /\ UNCHANGED orderVars  => OrderTypes'
    /\ OutboxTypes /\ UNCHANGED outboxVars => OutboxTypes'
    /\ BridgeTypes /\ UNCHANGED bridgeVars => BridgeTypes'
    /\ FaultTypes  /\ UNCHANGED faultVars  => FaultTypes'
  <1>1. OrderTypes  /\ UNCHANGED orderVars  => OrderTypes'
    BY DEF OrderTypes, orderVars
  <1>2. OutboxTypes /\ UNCHANGED outboxVars => OutboxTypes'
    BY DEF OutboxTypes, outboxVars
  <1>3. BridgeTypes /\ UNCHANGED bridgeVars => BridgeTypes'
    BY DEF BridgeTypes, bridgeVars
  <1>4. FaultTypes  /\ UNCHANGED faultVars  => FaultTypes'
    BY DEF FaultTypes, faultVars
  <1> QED  BY <1>1, <1>2, <1>3, <1>4

\* The tablet: orders and outbox.
LEMMA TapTypes ==
    ASSUME TypeOK, TapInv, NEW o \in Orders, TapNext(o)
    PROVE  OrderTypes' /\ OutboxTypes' /\ UNCHANGED <<acks, bridgeVars, faultVars>>
  <1> DEFINE Goal == OrderTypes' /\ OutboxTypes' /\ UNCHANGED <<acks, bridgeVars, faultVars>>
  <1> USE BoundsAreNat
  <1>0. /\ OrderTypes /\ OutboxTypes
        /\ issued \in 0..MaxTickets
        /\ ticket \in Rows
        /\ \A e \in Issued : e \in Tickets /\ ticket[e] \in Ticket
    BY DEF TypeOK, OutboxTypes, Rows
  <1>1. ASSUME NEW direct \in BOOLEAN, Confirm(o, direct) PROVE Goal
    <2>1. NewTicket(o, 0, "none") \in Ticket
      BY DEF NewTicket, Ticket
    <2>2. /\ issued' \in 0..MaxTickets /\ ticket' \in Rows
          /\ \A e \in 1..issued' : ticket'[e] \in Ticket
      BY <1>0, <1>1, <2>1 DEF Confirm, Rows
    <2>3. OutboxTypes'
      BY <1>0, <1>1, <2>2 DEF Confirm, OutboxTypes, Rows
    <2> QED  BY <1>0, <1>1, <2>3 DEF Confirm, OrderTypes
  <1>2. CASE Approve(o)
    <2>1. /\ issued' \in 0..MaxTickets /\ ticket' \in Rows
          /\ \A e \in 1..issued' : ticket'[e] \in Ticket
      BY <1>0, <1>2, SendTicketType DEF Approve, OrderTypes
    <2>2. OutboxTypes'
      BY <1>0, <1>2, <2>1 DEF Approve, OutboxTypes, Rows
    <2> QED  BY <1>0, <1>2, <2>2 DEF Approve, OrderTypes
  <1>3. CASE Resend(o)
    <2>1. LastReason(o) \subseteq Reasons
      BY <1>0 DEF LastReason, TicketsOf, Ticket
    <2>2. PICK why \in Reasons : SendTicket(ticket, o, rev[o], why)
      BY <1>3, <2>1 DEF Resend
    <2>3. /\ issued' \in 0..MaxTickets /\ ticket' \in Rows
          /\ \A e \in 1..issued' : ticket'[e] \in Ticket
      BY <1>0, <2>2, SendTicketType DEF OrderTypes
    <2>4. OutboxTypes'
      BY <1>0, <1>3, <2>3 DEF Resend, OutboxTypes, Rows
    <2> QED  BY <1>0, <1>3, <2>4 DEF Resend, OrderTypes
  <1>4. CASE CorrectBegin(o)
    <2>1. OrderTypes'
      BY <1>0, <1>4 DEF CorrectBegin, OrderTypes, Taps
    <2> QED  BY <1>0, <1>4, <2>1, SameTypes DEF CorrectBegin
  <1>5. CASE CorrectCommit(o)
    <2>1. rev[o] + 1 \in Revisions
      BY <1>0, <1>5 DEF CorrectCommit, TapInv, OrderTypes
    <2>2. /\ issued' \in 0..MaxTickets /\ ticket' \in Rows
          /\ \A e \in 1..issued' : ticket'[e] \in Ticket
      BY <1>0, <1>5, <2>1, SendTicketType DEF CorrectCommit
    <2>3. OutboxTypes'
      BY <1>0, <1>5, <2>2 DEF CorrectCommit, OutboxTypes, Rows
    <2>4. OrderTypes'
      BY <1>0, <1>5, <2>1 DEF CorrectCommit, OrderTypes, Taps
    <2> QED  BY <1>5, <2>3, <2>4 DEF CorrectCommit
  <1>6. CASE CancelBegin(o)
    <2>1. lock' \in [Tickets -> Locks]
      BY <1>0, <1>6 DEF CancelBegin, OutboxTypes, Locks
    <2>2. OutboxTypes'
      BY <1>0, <1>6, <2>1 DEF CancelBegin, OutboxTypes
    <2>3. OrderTypes'
      BY <1>0, <1>6 DEF CancelBegin, OrderTypes, Taps
    <2> QED  BY <1>6, <2>2, <2>3 DEF CancelBegin
  <1>7. CASE CancelCommit(o)
    <2>1. rev[o] + 1 \in Revisions
      <3>1. tap[o] # "free"
        BY <1>7 DEF CancelCommit
      <3> QED  BY <1>0, <3>1 DEF TapInv, OrderTypes
    <2>2. ASSUME NEW e \in Issued
          PROVE  [ticket[e] EXCEPT !.status = "sent", !.error = "withdrawn"] \in Ticket
      BY <1>0 DEF Ticket
    <2>3. Withdrawn(o) \in Rows /\ \A e \in Issued : Withdrawn(o)[e] \in Ticket
      BY <1>0, <2>2 DEF Withdrawn, Rows, TicketsOf
    <2>4. /\ issued' \in 0..MaxTickets /\ ticket' \in Rows
          /\ \A e \in 1..issued' : ticket'[e] \in Ticket
      BY <1>0, <1>7, <2>1, <2>3, SendTicketType DEF CancelCommit
    <2>5. lock' \in [Tickets -> Locks]
      BY <1>0, <1>7 DEF CancelCommit, OutboxTypes, Locks
    <2>6. OutboxTypes'
      BY <2>4, <2>5 DEF OutboxTypes, Rows
    <2>7. OrderTypes'
      BY <1>0, <1>7, <2>1 DEF CancelCommit, OrderTypes, Taps
    <2> QED  BY <1>7, <2>6, <2>7 DEF CancelCommit
  <1>8. CASE CancelAsk(o)
    <2>1. OrderTypes'
      BY <1>0, <1>8 DEF CancelAsk, OrderTypes, Taps
    <2> QED  BY <1>0, <1>8, <2>1, SameTypes DEF CancelAsk
  <1> QED  BY <1>1, <1>2, <1>3, <1>4, <1>5, <1>6, <1>7, <1>8 DEF TapNext

\* A row changed to another ticket leaves an outbox.
LEMMA OneRowType ==
    ASSUME OutboxTypes, NEW e \in Issued, NEW t \in Ticket,
           ticket' = [ticket EXCEPT ![e] = t], UNCHANGED issued,
           lock' \in [Tickets -> Locks]
    PROVE  OutboxTypes'
  BY BoundsAreNat DEF OutboxTypes

\* A row rewritten by the outbox or by a ticket's end is a row again.
LEMMA TicketForms ==
    ASSUME NEW t \in Ticket
    PROVE  /\ Superseded(t) \in Ticket
           /\ MarkSent(t) \in Ticket
           /\ MarkAttemptFailed(t) \in Ticket
           /\ [t EXCEPT !.status = "failed"] \in Ticket
           /\ t.attempts < MaxAttempts => PickedUp(t) \in Ticket
  <1>1. Superseded(t) \in Ticket
    BY DEF Superseded, Ticket
  <1>2. MarkSent(t) \in Ticket /\ MarkAttemptFailed(t) \in Ticket
    BY DEF MarkSent, MarkAttemptFailed, Ticket
  <1>3. [t EXCEPT !.status = "failed"] \in Ticket
    BY DEF Ticket
  <1>4. ASSUME t.attempts < MaxAttempts PROVE PickedUp(t) \in Ticket
    <2>1. t.attempts + 1 \in 0..MaxAttempts
      BY <1>4, BoundsAreNat DEF Ticket
    <2> QED  BY <2>1 DEF PickedUp, Ticket
  <1> QED  BY <1>1, <1>2, <1>3, <1>4

\* The poll, the answers and the watchdog.
LEMMA ServerTypes ==
    ASSUME TypeOK, TapInv, PollNext \/ AckNext \/ \E e \in Issued : Sweep(e)
    PROVE  TypeOK'
  <1> USE BoundsAreNat
  <1>0. /\ OrderTypes /\ OutboxTypes /\ BridgeTypes /\ FaultTypes /\ acks \subseteq Ack
        /\ ticket \in Rows
        /\ \A e \in Issued : e \in Tickets /\ ticket[e] \in Ticket
    BY DEF TypeOK, OutboxTypes, Rows
  <1>1. CASE ClaimSelect
    <2>1. lock' \in [Tickets -> Locks]
      BY <1>0, <1>1 DEF ClaimSelect, OutboxTypes, Locks
    <2>2. OutboxTypes'
      BY <1>0, <1>1, <2>1 DEF ClaimSelect, OutboxTypes
    <2> QED  BY <1>0, <1>1, <2>2, SameTypes DEF ClaimSelect, TypeOK
  <1>2. ASSUME NEW e \in Issued, ClaimCheck(e) PROVE TypeOK'
    <2>1. OutboxTypes'
      BY <1>0, <1>2 DEF ClaimCheck, OutboxTypes, Locks
    <2> QED  BY <1>0, <1>2, <2>1, SameTypes DEF ClaimCheck, TypeOK
  <1>3. ASSUME NEW delivered \in BOOLEAN, ClaimCommit(delivered) PROVE TypeOK'
    <2>1. ticket' \in Rows /\ \A e \in Issued : ticket'[e] \in Ticket
      <3>1. \A e \in Issued : lock[e] = "hand" => PickedUp(ticket[e]) \in Ticket
        BY <1>0, TicketForms DEF TapInv
      <3>2. \A e \in Issued : Superseded(ticket[e]) \in Ticket
        BY <1>0, TicketForms
      <3>3. \A e \in Tickets : lock[e] # "free" => e \in Issued
        BY <1>0 DEF TapInv, OutboxTypes
      <3> QED  BY <1>0, <1>3, <3>1, <3>2, <3>3 DEF ClaimCommit, Rows
    <2>2. lock' \in [Tickets -> Locks]
      BY <1>0, <1>3 DEF ClaimCommit, OutboxTypes, Locks
    <2>3. OutboxTypes'
      BY <1>0, <1>3, <2>1, <2>2 DEF ClaimCommit, OutboxTypes, Rows
    <2>4. batch' \subseteq Slip
      <3>1. \A e \in Issued : SlipOf(e) \in Slip
        BY <1>0 DEF SlipOf, Slip, Ticket
      <3> QED  BY <1>0, <1>3, <3>1 DEF ClaimCommit, Polled, BridgeTypes
    <2>5. BridgeTypes'
      BY <1>0, <1>3, <2>4 DEF ClaimCommit, BridgeTypes
    <2>6. FaultTypes'
      BY <1>0, <1>3 DEF ClaimCommit, FaultTypes
    <2>7. OrderTypes' /\ acks' \subseteq Ack
      BY <1>0, <1>3, SameTypes DEF ClaimCommit
    <2> QED  BY <2>3, <2>5, <2>6, <2>7 DEF TypeOK
  <1>4. CASE ClaimAbort
    <2>1. lock' \in [Tickets -> Locks]
      BY <1>0, <1>4 DEF ClaimAbort, OutboxTypes, Locks
    <2>2. OutboxTypes'
      BY <1>0, <1>4, <2>1 DEF ClaimAbort, OutboxTypes
    <2>3. FaultTypes'
      BY <1>0, <1>4 DEF ClaimAbort, FaultTypes
    <2> QED  BY <1>0, <1>4, <2>2, <2>3, SameTypes DEF ClaimAbort, TypeOK
  <1>5. ASSUME NEW a \in acks, AckTake(a) PROVE TypeOK'
    <2>1. OutboxTypes'
      BY <1>0, <1>5 DEF AckTake, OutboxTypes, Locks, Ack
    <2> QED  BY <1>0, <1>5, <2>1, SameTypes DEF AckTake, TypeOK
  <1>6. ASSUME NEW e \in Issued, AckCommit(e) PROVE TypeOK'
    <2>1. PICK t \in Ticket : ticket' = [ticket EXCEPT ![e] = t]
      BY <1>0, <1>6, TicketForms DEF AckCommit
    <2>2. lock' \in [Tickets -> Locks]
      BY <1>0, <1>6 DEF AckCommit, OutboxTypes, Locks
    <2>3. OutboxTypes'
      BY <1>0, <1>6, <2>1, <2>2, OneRowType DEF AckCommit
    <2>4. handover' \in [Orders -> {"none", "pending", "sent", "failed"}]
      BY <1>0, <1>6 DEF AckCommit, ToSent, ToRed, OrderTypes
    <2>5. OrderTypes'
      BY <1>0, <1>6, <2>4 DEF AckCommit, OrderTypes
    <2> QED  BY <1>0, <1>6, <2>3, <2>5, SameTypes DEF AckCommit, TypeOK
  <1>7. ASSUME NEW a \in acks, AckLost(a) PROVE TypeOK'
    <2>1. FaultTypes'
      BY <1>0, <1>7 DEF AckLost, FaultTypes
    <2> QED  BY <1>0, <1>7, <2>1, SameTypes DEF AckLost, TypeOK
  <1>8. ASSUME NEW e \in Issued, Sweep(e) PROVE TypeOK'
    <2>1. PICK t \in Ticket : ticket' = [ticket EXCEPT ![e] = t]
      <3>1. CASE ticket[e].attempts < MaxAttempts
        <4>1. UNCHANGED ticket
          BY <1>0, <1>8, <3>1 DEF Sweep, Ticket
        <4> QED  BY <1>0, <4>1 DEF Rows
      <3>2. CASE ticket[e].attempts >= MaxAttempts
        <4>1. \/ ticket' = [ticket EXCEPT ![e].status = "failed"]
              \/ ticket' = [ticket EXCEPT ![e] = Superseded(@)]
          BY <1>0, <1>8, <3>2 DEF Sweep, Ticket
        <4> QED  BY <1>0, <4>1, TicketForms
      <3> QED  BY <1>0, <3>1, <3>2 DEF Ticket
    <2>2. OutboxTypes'
      BY <1>0, <1>8, <2>1, OneRowType DEF Sweep, OutboxTypes
    <2>3. handover' = handover \/ ToRed(e)
      BY <1>0, <1>8 DEF Sweep, Ticket
    <2>4. handover' \in [Orders -> {"none", "pending", "sent", "failed"}]
      BY <1>0, <2>3 DEF ToRed, OrderTypes
    <2>5. OrderTypes'
      BY <1>0, <1>8, <2>4 DEF Sweep, OrderTypes
    <2> QED  BY <1>0, <1>8, <2>2, <2>5, SameTypes DEF Sweep, TypeOK
  <1> QED
    BY <1>1, <1>2, <1>3, <1>4, <1>5, <1>6, <1>7, <1>8 DEF PollNext, AckNext

\* What the bridge answers is an answer.
LEMMA AckType == \A n \in Tickets, b \in BOOLEAN : [ticket |-> n, ok |-> b] \in Ack
  BY DEF Ack

\* The bridge.
LEMMA BridgeStepTypes ==
    ASSUME TypeOK, BridgeNext
    PROVE  TypeOK'
  <1> USE BoundsAreNat
  <1>0. /\ OrderTypes /\ OutboxTypes /\ BridgeTypes /\ FaultTypes /\ acks \subseteq Ack
    BY DEF TypeOK
  <1>1. ASSUME NEW s \in batch, BridgeSkip(s) PROVE TypeOK'
    <2>1. acks' \subseteq Ack
      BY <1>0, <1>1, AckType DEF BridgeSkip, BridgeTypes, Slip
    <2>2. BridgeTypes'
      BY <1>0, <1>1 DEF BridgeSkip, BridgeTypes
    <2> QED  BY <1>0, <1>1, <2>1, <2>2, SameTypes DEF BridgeSkip, TypeOK
  <1>2. ASSUME NEW s \in batch, BridgePrint(s) PROVE TypeOK'
    <2>1. s \in Slip
      BY <1>0 DEF BridgeTypes
    <2>2. paper' \in [Orders -> Seq([rev : Revisions, reason : Reasons])]
      <3>1. [rev |-> s.rev, reason |-> s.reason] \in [rev : Revisions, reason : Reasons]
        BY <2>1 DEF Slip
      <3>2. s.order \in Orders
        BY <2>1 DEF Slip
      <3>3. Append(paper[s.order], [rev |-> s.rev, reason |-> s.reason])
              \in Seq([rev : Revisions, reason : Reasons])
        BY <1>0, <3>1, <3>2, AppendProperties, Zenon DEF BridgeTypes
      <3> QED  BY <1>0, <1>2, <3>2, <3>3 DEF BridgePrint, BridgeTypes
    <2>3. BridgeTypes'
      BY <1>0, <1>2, <2>1, <2>2 DEF BridgePrint, BridgeTypes
    <2> QED  BY <1>0, <1>2, <2>3, SameTypes DEF BridgePrint, TypeOK
  <1>3. ASSUME NEW s \in batch, BridgePrintError(s) PROVE TypeOK'
    <2>1. acks' \subseteq Ack
      BY <1>0, <1>3, AckType DEF BridgePrintError, BridgeTypes, Slip
    <2>2. BridgeTypes'
      BY <1>0, <1>3 DEF BridgePrintError, BridgeTypes
    <2>3. FaultTypes'
      BY <1>0, <1>3 DEF BridgePrintError, FaultTypes
    <2> QED  BY <1>0, <1>3, <2>1, <2>2, <2>3, SameTypes DEF BridgePrintError, TypeOK
  <1>4. ASSUME NEW saved \in BOOLEAN, BridgeRecord(saved) PROVE TypeOK'
    <2>1. inHand \in Slip
      BY <1>0, <1>4 DEF BridgeRecord, BridgeTypes
    <2>2. acks' \subseteq Ack
      BY <1>0, <1>4, <2>1, AckType DEF BridgeRecord, Slip
    <2>3. logMem' \in [Orders -> 0..(MaxRevision + 1)]
      BY <1>0, <1>4, <2>1 DEF BridgeRecord, BridgeTypes, Slip
    <2>4. BridgeTypes'
      BY <1>0, <1>4, <2>3 DEF BridgeRecord, BridgeTypes
    <2>5. FaultTypes'
      BY <1>0, <1>4 DEF BridgeRecord, FaultTypes
    <2> QED  BY <1>0, <1>4, <2>2, <2>4, <2>5, SameTypes DEF BridgeRecord, TypeOK
  <1>5. CASE BridgeRestart
    <2>1. BridgeTypes'
      BY <1>0, <1>5 DEF BridgeRestart, BridgeTypes
    <2>2. FaultTypes'
      BY <1>0, <1>5 DEF BridgeRestart, FaultTypes
    <2> QED  BY <1>0, <1>5, <2>1, <2>2, SameTypes DEF BridgeRestart, TypeOK
  <1> QED  BY <1>1, <1>2, <1>3, <1>4, <1>5 DEF BridgeNext

\* No step leaves the types.
LEMMA TypeStep == TypeOK /\ TapInv /\ [Next]_vars => TypeOK'
  <1> SUFFICES ASSUME TypeOK, TapInv, [Next]_vars PROVE TypeOK'
    OBVIOUS
  <1>1. ASSUME NEW o \in Orders, TapNext(o) PROVE TypeOK'
    BY <1>1, TapTypes, SameTypes DEF TypeOK
  <1>2. CASE UNCHANGED vars
    BY <1>2, SameTypes DEF TypeOK, vars
  <1> QED  BY <1>1, <1>2, ServerTypes, BridgeStepTypes DEF Next

(* ----------------------- What a step does to rows ---------------------- *)

\* The server marks rows; order and revision stay, attempts only grow.
KeepsRows ==
    /\ issued' = issued
    /\ \A e \in Issued : /\ ticket'[e].order = ticket[e].order
                         /\ ticket'[e].rev = ticket[e].rev
                         /\ ticket[e].attempts <= ticket'[e].attempts

\* A tap on o writes at most one row, at revision r: a new one, or one nobody
\* picked up or holds.
WritesRow(o, r) ==
    /\ issued <= issued' /\ issued' \in 0..MaxTickets
    /\ \A e \in Issued :
          /\ ticket'[e].order = ticket[e].order
          /\ ticket'[e].attempts = ticket[e].attempts
          /\ \/ ticket'[e].rev = ticket[e].rev
             \/ /\ ticket[e].order = o /\ ticket[e].attempts = 0 /\ lock[e] = "free"
                /\ ticket'[e].rev = r
    /\ \A e \in 1..issued' :
          e > issued => ticket'[e].order = o /\ ticket'[e].rev = r /\ ticket'[e].attempts = 0

HasRow(o, r) == \E e \in 1..issued' : ticket'[e].order = o /\ ticket'[e].rev = r

\* A row issued now is the only one that changes.
LEMMA NewRow ==
    ASSUME NEW o \in Orders, NEW r \in Revisions, NEW why \in Reasons,
           NEW rows \in Rows, issued \in 0..MaxTickets,
           \A e \in Issued : /\ rows[e] \in Ticket
                             /\ rows[e].order = ticket[e].order
                             /\ rows[e].rev = ticket[e].rev
                             /\ rows[e].attempts = ticket[e].attempts,
           issued < MaxTickets, issued' = issued + 1,
           ticket' = [rows EXCEPT ![issued + 1] = NewTicket(o, r, why)]
    PROVE  WritesRow(o, r) /\ HasRow(o, r)
  <1> USE BoundsAreNat
  <1>1. /\ issued + 1 \in Tickets
        /\ ticket'[issued + 1] = NewTicket(o, r, why)
        /\ \A e \in Issued : ticket'[e] = rows[e]
    BY DEF Rows
  <1>2. \A e \in 1..issued' : e > issued => e = issued + 1
    OBVIOUS
  <1>3. /\ NewTicket(o, r, why).order = o /\ NewTicket(o, r, why).rev = r
        /\ NewTicket(o, r, why).attempts = 0
    BY DEF NewTicket
  <1> QED  BY <1>1, <1>2, <1>3 DEF WritesRow, HasRow

\* What send_ticket leaves: one row of the order carries the new revision, the others are as they were.
LEMMA SendTicketRows ==
    ASSUME NEW o \in Orders, NEW r \in Revisions, NEW why \in Reasons,
           NEW rows \in Rows, issued \in 0..MaxTickets,
           \A e \in Issued : /\ rows[e] \in Ticket
                             /\ rows[e].order = ticket[e].order
                             /\ rows[e].rev = ticket[e].rev
                             /\ rows[e].attempts = ticket[e].attempts,
           SendTicket(rows, o, r, why)
    PROVE  WritesRow(o, r) /\ HasRow(o, r)
  <1> USE BoundsAreNat
  <1>1. CASE /\ issued < MaxTickets
             /\ issued' = issued + 1
             /\ ticket' = [rows EXCEPT ![issued + 1] = NewTicket(o, r, why)]
    BY <1>1, NewRow
  <1>2. ASSUME NEW e \in Unsent(rows, o), issued' = issued,
               ticket' = [rows EXCEPT
                ![e].rev    = r,
                ![e].reason = IF rows[e].reason = "none" THEN "none" ELSE why]
        PROVE  WritesRow(o, r) /\ HasRow(o, r)
    <2>1. /\ e \in Issued /\ e \in Tickets /\ rows[e] \in Ticket
          /\ ticket[e].order = o /\ ticket[e].attempts = 0 /\ lock[e] = "free"
      BY DEF Unsent, TicketsOf
    <2>2. /\ ticket'[e].rev = r /\ ticket'[e].order = rows[e].order
          /\ ticket'[e].attempts = rows[e].attempts
      BY <1>2, <2>1 DEF Ticket, Rows
    <2>3. \A f \in Issued : f # e => ticket'[f] = rows[f]
      BY <1>2, <2>1 DEF Rows
    <2>4. \A f \in Issued : /\ ticket'[f].order = ticket[f].order
                            /\ ticket'[f].attempts = ticket[f].attempts
                            /\ f # e => ticket'[f].rev = ticket[f].rev
      BY <2>1, <2>2, <2>3
    <2>5. \A f \in 1..issued' : ~(f > issued)
      BY <1>2
    <2>6. HasRow(o, r)
      BY <1>2, <2>1, <2>2, <2>4 DEF HasRow
    <2>7. issued <= issued' /\ issued' \in 0..MaxTickets
      BY <1>2
    <2> QED  BY <2>1, <2>2, <2>4, <2>5, <2>6, <2>7 DEF WritesRow
  <1> QED  BY <1>1, <1>2 DEF SendTicket

\* What any tap on o may do, for the invariants.
TapEffect(o) ==
    /\ \A p \in Orders \ {o} : /\ status'[p] = status[p] /\ handover'[p] = handover[p]
                               /\ rev'[p] = rev[p] /\ tap'[p] = tap[p]
    /\ rev[o] <= rev'[o]
    /\ WritesRow(o, rev'[o])
    /\ handover'[o] # "none" =>
          HasRow(o, rev'[o]) \/ (handover[o] # "none" /\ rev'[o] = rev[o])
    /\ handover'[o] = "sent" => handover[o] = "sent" /\ rev'[o] = rev[o]
    /\ \A e \in Tickets : \/ lock'[e] = lock[e]
                          \/ {lock[e], lock'[e]} \subseteq {"free", "withdraw"}
    /\ UNCHANGED <<acks, bridgeVars, faultVars>>

\* Each tap leaves tickets, cards and revisions as TapEffect says.
LEMMA TapHasEffect ==
    ASSUME TypeOK, TapInv, NEW o \in Orders, TapNext(o)
    PROVE  TapEffect(o)
  <1> USE BoundsAreNat
  <1>0. /\ OrderTypes /\ issued \in 0..MaxTickets /\ ticket \in Rows
        /\ rev[o] \in Revisions
        /\ lock \in [Tickets -> Locks]
        /\ \A e \in Issued : e \in Tickets /\ ticket[e] \in Ticket
    BY DEF TypeOK, OrderTypes, OutboxTypes, Rows
  <1>1. UNCHANGED <<ticket, issued>> => \A r : WritesRow(o, r)
    BY <1>0 DEF WritesRow
  <1>2. ASSUME NEW direct \in BOOLEAN, Confirm(o, direct) PROVE TapEffect(o)
    <2>1. CASE direct
      <3>1. /\ issued < MaxTickets /\ issued' = issued + 1
            /\ ticket' = [ticket EXCEPT ![issued + 1] = NewTicket(o, 0, "none")]
            /\ rev[o] = 0
        BY <1>2, <2>1 DEF Confirm, TapInv
      <3>2. WritesRow(o, 0) /\ HasRow(o, 0)
        BY <1>0, <3>1, NewRow
      <3> QED  BY <1>0, <1>2, <2>1, <3>1, <3>2 DEF Confirm, TapEffect, OrderTypes
    <2>2. CASE ~direct
      BY <1>0, <1>1, <1>2, <2>2 DEF Confirm, TapEffect, OrderTypes
    <2> QED  BY <2>1, <2>2
  <1>3. CASE Approve(o)
    <2>1. WritesRow(o, rev[o]) /\ (handover[o] = "none" => HasRow(o, rev[o]))
      <3>1. CASE handover[o] = "none"
        BY <1>0, <1>3, <3>1, SendTicketRows DEF Approve
      <3>2. CASE handover[o] # "none"
        BY <1>0, <1>1, <1>3, <3>2 DEF Approve
      <3> QED  BY <3>1, <3>2
    <2> QED  BY <1>0, <1>3, <2>1 DEF Approve, TapEffect, OrderTypes
  <1>4. CASE Resend(o)
    <2>1. LastReason(o) \subseteq Reasons
      BY <1>0 DEF LastReason, TicketsOf, Ticket
    <2>2. PICK why \in Reasons : SendTicket(ticket, o, rev[o], why)
      BY <1>4, <2>1 DEF Resend
    <2>3. WritesRow(o, rev[o]) /\ HasRow(o, rev[o])
      BY <1>0, <2>2, SendTicketRows
    <2> QED  BY <1>0, <1>4, <2>3 DEF Resend, TapEffect, OrderTypes
  <1>5. CASE CorrectBegin(o)
    <2>1. WritesRow(o, rev[o])
      BY <1>1, <1>5 DEF CorrectBegin, outboxVars
    <2> QED  BY <1>0, <1>5, <2>1 DEF CorrectBegin, TapEffect, OrderTypes, outboxVars
  <1>6. CASE CorrectCommit(o)
    <2>1. rev[o] + 1 \in Revisions /\ rev'[o] = rev[o] + 1
      <3>1. rev \in [Orders -> Revisions]
        BY DEF OrderTypes, TypeOK
      <3>2. rev' = [rev EXCEPT ![o] = @ + 1] /\ tap[o] # "free"
        BY <1>6 DEF CorrectCommit
      <3>3. rev[o] \in Nat /\ rev[o] < MaxRevision /\ MaxRevision \in Nat
        BY <3>1, <3>2 DEF TapInv
      <3> QED  BY <3>1, <3>2, <3>3
    <2>2. CASE tap[o] = "quiet"
      <3>1. WritesRow(o, rev[o] + 1) /\ handover[o] = "none"
        BY <1>1, <1>6, <2>2 DEF CorrectCommit, TapInv
      <3> QED  BY <1>0, <1>6, <2>1, <2>2, <3>1 DEF CorrectCommit, TapEffect, OrderTypes
    <2>3. CASE tap[o] # "quiet"
      <3>1. WritesRow(o, rev[o] + 1) /\ HasRow(o, rev[o] + 1)
        BY <1>0, <1>6, <2>1, <2>3, SendTicketRows DEF CorrectCommit
      <3> QED  BY <1>0, <1>6, <2>1, <2>3, <3>1 DEF CorrectCommit, TapEffect, OrderTypes
    <2> QED  BY <2>2, <2>3
  <1>7. CASE CancelBegin(o)
    <2>1. WritesRow(o, rev[o])
      BY <1>1, <1>7 DEF CancelBegin
    <2>2. \A e \in Tickets : \/ lock'[e] = lock[e]
                             \/ lock[e] = "free" /\ lock'[e] = "withdraw"
      BY <1>7 DEF CancelBegin
    <2> QED  BY <1>0, <1>7, <2>1, <2>2 DEF CancelBegin, TapEffect, OrderTypes
  <1>8. CASE CancelCommit(o)
    <2>1. rev[o] + 1 \in Revisions /\ rev'[o] = rev[o] + 1
      <3>1. tap[o] # "free"
        BY <1>8 DEF CancelCommit
      <3>2. rev[o] < MaxRevision
        BY <3>1 DEF TapInv
      <3> QED  BY <1>0, <1>8, <3>2 DEF CancelCommit, OrderTypes
    <2>2. /\ Withdrawn(o) \in Rows
          /\ \A e \in Issued : /\ Withdrawn(o)[e] \in Ticket
                               /\ Withdrawn(o)[e].order = ticket[e].order
                               /\ Withdrawn(o)[e].rev = ticket[e].rev
                               /\ Withdrawn(o)[e].attempts = ticket[e].attempts
      <3>1. ASSUME NEW e \in Issued
            PROVE  LET t == [ticket[e] EXCEPT !.status = "sent", !.error = "withdrawn"]
                   IN  /\ t \in Ticket /\ t.order = ticket[e].order
                       /\ t.rev = ticket[e].rev /\ t.attempts = ticket[e].attempts
        BY <1>0 DEF Ticket
      <3> QED  BY <1>0, <3>1 DEF Withdrawn, Rows, TicketsOf
    <2>3. WritesRow(o, rev[o] + 1) /\ (tap[o] = "note" => HasRow(o, rev[o] + 1))
      <3>1. CASE tap[o] = "note"
        BY <1>0, <1>8, <2>1, <2>2, <3>1, SendTicketRows DEF CancelCommit
      <3>2. CASE tap[o] # "note"
        <4>1. ticket' = Withdrawn(o) /\ issued' = issued
          BY <1>8, <3>2 DEF CancelCommit
        <4> QED  BY <1>0, <2>2, <3>2, <4>1 DEF WritesRow
      <3> QED  BY <3>1, <3>2
    <2>4. \A e \in Tickets : \/ lock'[e] = lock[e]
                             \/ lock[e] = "withdraw" /\ lock'[e] = "free"
      BY <1>8 DEF CancelCommit
    <2>5. /\ \A p \in Orders \ {o} : /\ status'[p] = status[p] /\ handover'[p] = handover[p]
                                     /\ rev'[p] = rev[p] /\ tap'[p] = tap[p]
          /\ handover'[o] = IF tap[o] = "note" THEN "pending" ELSE "none"
      BY <1>0, <1>8 DEF CancelCommit, OrderTypes
    <2> QED  BY <1>0, <1>8, <2>1, <2>3, <2>4, <2>5 DEF CancelCommit, TapEffect
  <1>9. CASE CancelAsk(o)
    <2>1. WritesRow(o, rev[o])
      BY <1>1, <1>9 DEF CancelAsk, outboxVars
    <2> QED  BY <1>0, <1>9, <2>1 DEF CancelAsk, TapEffect, OrderTypes, outboxVars
  <1> QED  BY <1>2, <1>3, <1>4, <1>5, <1>6, <1>7, <1>8, <1>9 DEF TapNext

\* The poll, the answers and the watchdog only mark rows.
LEMMA ServerHasEffect ==
    ASSUME TypeOK, TapInv, PollNext \/ AckNext \/ \E e \in Issued : Sweep(e)
    PROVE  /\ KeepsRows
           /\ UNCHANGED <<status, rev, tap, inHand, logMem, logFile, paper>>
           /\ \A o \in Orders : handover'[o] # handover[o] => handover[o] # "none"
  <1> USE BoundsAreNat
  <1>0. /\ OrderTypes /\ issued \in 0..MaxTickets /\ ticket \in Rows
        /\ \A e \in Issued : /\ e \in Tickets /\ ticket[e] \in Ticket
                             /\ ticket[e].attempts \in Nat /\ ticket[e].order \in Orders
    BY DEF TypeOK, OutboxTypes, Rows, Ticket
  <1>1. UNCHANGED <<ticket, issued>> => KeepsRows
    BY <1>0 DEF KeepsRows
  <1>2. CASE ClaimSelect
    BY <1>1, <1>2 DEF ClaimSelect, orderVars, bridgeVars
  <1>3. ASSUME NEW e \in Issued, ClaimCheck(e)
        PROVE  /\ KeepsRows
               /\ UNCHANGED <<status, rev, tap, inHand, logMem, logFile, paper, handover>>
    BY <1>1, <1>3 DEF ClaimCheck, orderVars, bridgeVars
  <1>4. ASSUME NEW delivered \in BOOLEAN, ClaimCommit(delivered)
        PROVE  /\ KeepsRows
               /\ UNCHANGED <<status, rev, tap, inHand, logMem, logFile, paper, handover>>
    <2>1. ASSUME NEW t \in Ticket
          PROVE  /\ PickedUp(t).order = t.order /\ PickedUp(t).rev = t.rev
                 /\ PickedUp(t).attempts = t.attempts + 1
                 /\ Superseded(t).order = t.order /\ Superseded(t).rev = t.rev
                 /\ Superseded(t).attempts = t.attempts
      BY DEF PickedUp, Superseded, Ticket
    <2>2. \A e \in Issued : \/ ticket'[e] = PickedUp(ticket[e])
                            \/ ticket'[e] = Superseded(ticket[e])
                            \/ ticket'[e] = ticket[e]
      BY <1>0, <1>4 DEF ClaimCommit
    <2>3. \A e \in Issued : /\ ticket'[e].order = ticket[e].order
                            /\ ticket'[e].rev = ticket[e].rev
                            /\ ticket[e].attempts <= ticket'[e].attempts
      BY <1>0, <2>1, <2>2
    <2> QED  BY <1>4, <2>3 DEF ClaimCommit, KeepsRows, orderVars
  <1>5. CASE ClaimAbort
    BY <1>1, <1>5 DEF ClaimAbort, orderVars, bridgeVars
  <1>6. ASSUME NEW a \in acks, AckTake(a) \/ AckLost(a)
        PROVE  /\ KeepsRows
               /\ UNCHANGED <<status, rev, tap, inHand, logMem, logFile, paper, handover>>
    BY <1>1, <1>6 DEF AckTake, AckLost, orderVars, outboxVars, bridgeVars
  <1>7. ASSUME NEW e \in Issued, AckCommit(e)
        PROVE  /\ KeepsRows
               /\ UNCHANGED <<status, rev, tap, inHand, logMem, logFile, paper>>
               /\ \A o \in Orders : handover'[o] # handover[o] => handover[o] # "none"
    <2>1. ASSUME NEW t \in Ticket
          PROVE  /\ MarkSent(t).order = t.order /\ MarkSent(t).rev = t.rev
                 /\ MarkSent(t).attempts = t.attempts
                 /\ MarkAttemptFailed(t).order = t.order /\ MarkAttemptFailed(t).rev = t.rev
                 /\ MarkAttemptFailed(t).attempts = t.attempts
      BY DEF MarkSent, MarkAttemptFailed, Ticket
    <2>2. /\ \A f \in Issued : f # e => ticket'[f] = ticket[f]
          /\ ticket'[e] = MarkSent(ticket[e]) \/ ticket'[e] = MarkAttemptFailed(ticket[e])
      BY <1>0, <1>7 DEF AckCommit, Rows
    <2>3. KeepsRows
      BY <1>0, <1>7, <2>1, <2>2 DEF KeepsRows, AckCommit
    <2>4. \A o \in Orders : handover'[o] # handover[o] => handover[o] # "none"
      BY <1>0, <1>7 DEF AckCommit, ToSent, ToRed, OrderTypes
    <2> QED  BY <1>7, <2>3, <2>4 DEF AckCommit, bridgeVars
  <1>8. ASSUME NEW e \in Issued, Sweep(e)
        PROVE  /\ KeepsRows
               /\ UNCHANGED <<status, rev, tap, inHand, logMem, logFile, paper>>
               /\ \A o \in Orders : handover'[o] # handover[o] => handover[o] # "none"
    <2>1. ASSUME NEW t \in Ticket
          PROVE  /\ Superseded(t).order = t.order /\ Superseded(t).rev = t.rev
                 /\ Superseded(t).attempts = t.attempts
                 /\ [t EXCEPT !.status = "failed"].order = t.order
                 /\ [t EXCEPT !.status = "failed"].rev = t.rev
                 /\ [t EXCEPT !.status = "failed"].attempts = t.attempts
      BY DEF Superseded, Ticket
    <2>2. /\ \A f \in Issued : f # e => ticket'[f] = ticket[f]
          /\ \/ ticket'[e] = ticket[e]
             \/ ticket'[e] = [ticket[e] EXCEPT !.status = "failed"]
             \/ ticket'[e] = Superseded(ticket[e])
      BY <1>0, <1>8 DEF Sweep, Rows
    <2>3. KeepsRows
      <3>1. \A f \in Issued : /\ ticket'[f].order = ticket[f].order
                              /\ ticket'[f].rev = ticket[f].rev
                              /\ ticket'[f].attempts = ticket[f].attempts
        <4>1. /\ ticket'[e].order = ticket[e].order
              /\ ticket'[e].rev = ticket[e].rev
              /\ ticket'[e].attempts = ticket[e].attempts
          BY <1>0, <2>2 DEF Superseded, Ticket
        <4> QED  BY <2>2, <4>1
      <3>2. issued' = issued
        BY <1>8 DEF Sweep
      <3> QED  BY <1>0, <3>1, <3>2 DEF KeepsRows
    <2>4. handover' = handover \/ ToRed(e)
      BY <1>8 DEF Sweep
    <2>5. \A o \in Orders : handover'[o] # handover[o] => handover[o] # "none"
      BY <1>0, <2>4 DEF ToRed, OrderTypes
    <2> QED  BY <1>8, <2>3, <2>5 DEF Sweep, bridgeVars
  <1>9. handover' = handover => \A o \in Orders : handover'[o] # handover[o] => handover[o] # "none"
    OBVIOUS
  <1> QED
    BY <1>2, <1>3, <1>4, <1>5, <1>6, <1>7, <1>8, <1>9
       DEF PollNext, AckNext, ClaimSelect, ClaimAbort, orderVars

\* The bridge leaves the server alone.
LEMMA BridgeHasEffect ==
    BridgeNext => UNCHANGED <<orderVars, outboxVars>>
  BY DEF BridgeNext, BridgeSkip, BridgePrint, BridgePrintError, BridgeRecord, BridgeRestart

(* ------------------------------ Taps and locks ------------------------- *)

\* Nothing is held at the start.
LEMMA TapInvInit == Init => TapInv
  BY BoundsAreNat DEF Init, TapInv

\* Which rows the server takes for a poll.
LEMMA HeldRows ==
    ASSUME TypeOK, TapInv, OutInv, PollNext \/ AckNext \/ \E e \in Issued : Sweep(e)
    PROVE  \A e \in Tickets :
             \/ lock'[e] = lock[e]
             \/ e \in Issued /\ lock'[e] \notin {"claim", "hand"}
             \/ e \in Issued /\ lock'[e] \in {"claim", "hand"} /\ ticket[e].attempts < MaxAttempts
  <1> USE BoundsAreNat
  <1>0. /\ lock \in [Tickets -> Locks] /\ issued \in 0..MaxTickets
        /\ \A e \in Tickets : lock[e] # "free" => e \in Issued
    BY DEF TypeOK, OutboxTypes, TapInv
  <1> SUFFICES ASSUME NEW e \in Tickets, lock'[e] # lock[e]
               PROVE  /\ e \in Issued
                      /\ lock'[e] \in {"claim", "hand"} => ticket[e].attempts < MaxAttempts
    OBVIOUS
  <1>1. CASE ClaimSelect
    BY <1>0, <1>1 DEF ClaimSelect, Claimable
  <1>2. ASSUME NEW f \in Issued, ClaimCheck(f)
        PROVE  e \in Issued /\ ticket[e].attempts < MaxAttempts
    BY <1>0, <1>2 DEF ClaimCheck, TapInv
  <1>3. ASSUME NEW delivered \in BOOLEAN, ClaimCommit(delivered)
        PROVE  e \in Issued /\ lock'[e] = "free"
    BY <1>0, <1>3 DEF ClaimCommit
  <1>4. CASE ClaimAbort
    BY <1>0, <1>4 DEF ClaimAbort
  <1>5. ASSUME NEW a \in acks, AckTake(a)
        PROVE  e \in Issued /\ lock'[e] \notin {"claim", "hand"}
    <2>1. a.ticket \in Issued /\ a.ticket \in Tickets
      BY <1>0 DEF OutInv
    <2> QED  BY <1>0, <1>5, <2>1 DEF AckTake
  <1>6. ASSUME NEW f \in Issued, AckCommit(f)
        PROVE  e \in Issued /\ lock'[e] = "free"
    BY <1>0, <1>6 DEF AckCommit
  <1>7. ASSUME NEW a \in acks, AckLost(a) PROVE FALSE
    BY <1>7 DEF AckLost, outboxVars
  <1>8. ASSUME NEW f \in Issued, Sweep(f) PROVE FALSE
    BY <1>8 DEF Sweep
  <1> QED  BY <1>1, <1>2, <1>3, <1>4, <1>5, <1>6, <1>7, <1>8 DEF PollNext, AckNext

\* A row in a poll's hands is not written.
LEMMA HeldRowsStay ==
    ASSUME TypeOK, TapInv, OutInv, PollNext \/ AckNext \/ \E e \in Issued : Sweep(e)
    PROVE  \A e \in Issued : lock'[e] \in {"claim", "hand"} => ticket'[e] = ticket[e]
  <1> USE BoundsAreNat
  <1>0. /\ lock \in [Tickets -> Locks] /\ issued \in 0..MaxTickets
        /\ ticket \in Rows /\ \A e \in Issued : e \in Tickets
    BY DEF TypeOK, OutboxTypes, Rows
  <1> SUFFICES ASSUME NEW e \in Issued, lock'[e] \in {"claim", "hand"}
               PROVE  ticket'[e] = ticket[e]
    OBVIOUS
  <1>1. CASE ClaimSelect \/ ClaimAbort
    BY <1>1 DEF ClaimSelect, ClaimAbort
  <1>2. ASSUME NEW f \in Issued, ClaimCheck(f) PROVE ticket' = ticket
    BY <1>2 DEF ClaimCheck
  <1>3. ASSUME NEW delivered \in BOOLEAN, ClaimCommit(delivered) PROVE ticket'[e] = ticket[e]
    <2>1. lock[e] \notin {"hand", "drop"}
      BY <1>0, <1>3 DEF ClaimCommit
    <2> QED  BY <1>0, <1>3, <2>1 DEF ClaimCommit
  <1>4. ASSUME NEW a \in acks, AckTake(a) \/ AckLost(a) PROVE ticket' = ticket
    BY <1>4 DEF AckTake, AckLost, outboxVars
  <1>5. ASSUME NEW f \in Issued, AckCommit(f) PROVE ticket'[e] = ticket[e]
    <2>1. e # f
      BY <1>0, <1>5 DEF AckCommit
    <2> QED  BY <1>0, <1>5, <2>1 DEF AckCommit, Rows
  <1>6. ASSUME NEW f \in Issued, Sweep(f) PROVE ticket'[e] = ticket[e]
    <2>1. lock[f] = "free" /\ lock' = lock
      BY <1>6 DEF Sweep
    <2>2. e # f
      BY <1>0, <2>1
    <2>3. \/ ticket' = ticket
          \/ ticket' = [ticket EXCEPT ![f].status = "failed"]
          \/ ticket' = [ticket EXCEPT ![f] = Superseded(@)]
      BY <1>6 DEF Sweep
    <2> QED  BY <1>0, <2>2, <2>3 DEF Rows
  <1> QED  BY <1>1, <1>2, <1>3, <1>4, <1>5, <1>6 DEF PollNext, AckNext

\* What the checks under a lock found still holds when the lock is released.
LEMMA TapInvStep == TypeOK /\ TapInv /\ OutInv /\ [Next]_vars => TapInv'
  <1> SUFFICES ASSUME TypeOK, TapInv, OutInv, [Next]_vars PROVE TapInv'
    OBVIOUS
  <1> USE BoundsAreNat
  <1>0. /\ OrderTypes /\ issued \in 0..MaxTickets
        /\ lock \in [Tickets -> Locks]
        /\ \A e \in Issued : e \in Tickets /\ ticket[e].attempts \in Nat
    BY DEF TypeOK, OutboxTypes, Ticket
  <1>1. ASSUME NEW o \in Orders, TapNext(o) PROVE TapInv'
    <2>1. TapEffect(o)
      BY <1>1, TapHasEffect
    <2>2. /\ \A p \in Orders \ {o} : /\ status'[p] = status[p] /\ handover'[p] = handover[p]
                                     /\ rev'[p] = rev[p] /\ tap'[p] = tap[p]
          /\ \A e \in Tickets : \/ lock'[e] = lock[e]
                                \/ {lock[e], lock'[e]} \subseteq {"free", "withdraw"}
          /\ issued <= issued' /\ issued' \in 0..MaxTickets
          /\ \A e \in Issued : ticket'[e].attempts = ticket[e].attempts
      BY <2>1 DEF TapEffect, WritesRow
    <2>3. /\ tap'[o] # "free" => rev'[o] < MaxRevision /\ status'[o] \in {"confirmed", "approved"}
          /\ status'[o] = "draft" \/ tap'[o] = "quiet" => handover'[o] = "none"
          /\ status'[o] = "draft" => rev'[o] = 0
      BY <1>0, <1>1 DEF TapNext, Confirm, Approve, Resend, CorrectBegin, CorrectCommit,
                        CancelBegin, CancelAsk, CancelCommit, OrderTypes, TapInv
    <2>4. \A e \in Tickets : e > issued' => lock'[e] = "free"
      <3> SUFFICES ASSUME NEW e \in Tickets, e > issued' PROVE lock'[e] = "free"
        OBVIOUS
      <3>1. e > issued /\ lock[e] = "free"
        BY <1>0, <2>2 DEF TapInv
      <3>2. ~CancelBegin(o) => lock'[e] = lock[e] \/ lock[e] = "withdraw"
        BY <1>1 DEF TapNext, Confirm, Approve, Resend, CorrectBegin, CorrectCommit,
                    CancelAsk, CancelCommit, outboxVars
      <3>3. CancelBegin(o) => lock'[e] = lock[e]
        BY <1>0, <3>1 DEF CancelBegin, TicketsOf
      <3> QED  BY <3>1, <3>2, <3>3
    <2>5. ASSUME NEW e \in 1..issued', lock'[e] \in {"claim", "hand"}
          PROVE  ticket'[e].attempts < MaxAttempts
      <3>1. e \in Tickets /\ lock[e] = lock'[e]
        BY <1>0, <2>2, <2>5
      <3>2. e \in Issued
        BY <1>0, <2>5, <3>1 DEF TapInv
      <3> QED  BY <2>2, <2>5, <3>1, <3>2 DEF TapInv
    <2>6. \A p \in Orders \ {o} :
            /\ tap'[p] # "free" => rev'[p] < MaxRevision /\ status'[p] \in {"confirmed", "approved"}
            /\ status'[p] = "draft" \/ tap'[p] = "quiet" => handover'[p] = "none"
            /\ status'[p] = "draft" => rev'[p] = 0
      BY <2>2 DEF TapInv
    <2> QED  BY <2>3, <2>4, <2>5, <2>6 DEF TapInv
  <1>2. ASSUME PollNext \/ AckNext \/ \E e \in Issued : Sweep(e) PROVE TapInv'
    <2>1. /\ issued' = issued
          /\ UNCHANGED <<status, rev, tap>>
          /\ \A o \in Orders : handover'[o] # handover[o] => handover[o] # "none"
      BY <1>2, ServerHasEffect DEF KeepsRows
    <2>2. \A e \in Tickets :
             \/ lock'[e] = lock[e]
             \/ e \in Issued /\ lock'[e] \notin {"claim", "hand"}
             \/ e \in Issued /\ lock'[e] \in {"claim", "hand"} /\ ticket[e].attempts < MaxAttempts
      BY <1>2, HeldRows
    <2>3. \A e \in Issued : lock'[e] \in {"claim", "hand"} => ticket'[e] = ticket[e]
      BY <1>2, HeldRowsStay
    <2>4. \A e \in Tickets : e > issued => lock'[e] = "free"
      <3>1. \A e \in Tickets : e > issued => lock[e] = "free" /\ e \notin Issued
        BY <1>0 DEF TapInv
      <3> QED  BY <2>2, <3>1
    <2>5. \A e \in Issued : lock'[e] \in {"claim", "hand"} => ticket'[e].attempts < MaxAttempts
      BY <1>0, <2>2, <2>3 DEF TapInv
    <2> QED  BY <2>1, <2>4, <2>5 DEF TapInv
  <1>3. CASE BridgeNext
    BY <1>3, BridgeHasEffect DEF TapInv, orderVars, outboxVars
  <1>4. CASE UNCHANGED vars
    BY <1>4 DEF TapInv, vars, orderVars, outboxVars
  <1> QED  BY <1>1, <1>2, <1>3, <1>4 DEF Next
=============================================================================
