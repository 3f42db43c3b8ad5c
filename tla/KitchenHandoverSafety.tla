----------------------- MODULE KitchenHandoverSafety -----------------------
(***************************************************************************)
(* A green card is true and the paper never runs back: Inv is inductive,   *)
(* and the handover implements the card of KitchenCard.  While the bridge  *)
(* keeps running, no slip comes out twice, and the slip of a cancelled     *)
(* order has its note when answers come in time: NoteInv is inductive.     *)
(***************************************************************************)
EXTENDS KitchenHandoverProofs

USE DEF Tickets, Issued, Revisions, Reasons

ServerNext == PollNext \/ AckNext \/ \E e \in Issued : Sweep(e)

\* The facts about types that the steps below use.
LEMMA Basics ==
    TypeOK => /\ issued \in 0..MaxTickets /\ ticket \in Rows
              /\ lock \in [Tickets -> Locks]
              /\ \A o \in Orders : rev[o] \in Nat
              /\ \A e \in Issued : /\ e \in Tickets /\ ticket[e] \in Ticket
                                   /\ ticket[e].order \in Orders /\ ticket[e].rev \in Nat
                                   /\ ticket[e].attempts \in Nat
              /\ \A a \in acks : a \in Ack /\ a.ticket \in Tickets /\ a.ok \in BOOLEAN
              /\ \A s \in batch : s \in Slip /\ s.order \in Orders /\ s.rev \in Nat
              /\ inHand # NoSlip =>
                    inHand \in Slip /\ inHand.order \in Orders /\ inHand.rev \in Nat
  <1> SUFFICES ASSUME TypeOK
               PROVE  /\ issued \in 0..MaxTickets /\ ticket \in Rows
                      /\ lock \in [Tickets -> Locks]
                      /\ \A o \in Orders : rev[o] \in Nat
                      /\ \A e \in Issued : /\ e \in Tickets /\ ticket[e] \in Ticket
                                           /\ ticket[e].order \in Orders
                                           /\ ticket[e].rev \in Nat
                                           /\ ticket[e].attempts \in Nat
                      /\ \A a \in acks : a \in Ack /\ a.ticket \in Tickets /\ a.ok \in BOOLEAN
                      /\ \A s \in batch : s \in Slip /\ s.order \in Orders /\ s.rev \in Nat
                      /\ inHand # NoSlip =>
                            inHand \in Slip /\ inHand.order \in Orders /\ inHand.rev \in Nat
    OBVIOUS
  <1>1. issued \in 0..MaxTickets /\ ticket \in Rows /\ lock \in [Tickets -> Locks]
    BY DEF TypeOK, OutboxTypes, Rows
  <1>2. \A o \in Orders : rev[o] \in Nat
    BY BoundsAreNat DEF TypeOK, OrderTypes
  <1>3. \A t \in Ticket : t.order \in Orders /\ t.rev \in Nat /\ t.attempts \in Nat
    BY BoundsAreNat DEF Ticket
  <1>4. \A e \in Issued : e \in Tickets /\ ticket[e] \in Ticket
    BY BoundsAreNat DEF TypeOK, OutboxTypes
  <1>5. \A a \in acks : a \in Ack /\ a.ticket \in Tickets /\ a.ok \in BOOLEAN
    BY DEF TypeOK, Ack
  <1>6. \A s \in Slip : s.order \in Orders /\ s.rev \in Nat
    BY BoundsAreNat DEF Slip
  <1>7. batch \subseteq Slip /\ (inHand # NoSlip => inHand \in Slip)
    BY DEF TypeOK, BridgeTypes
  <1> QED  BY <1>1, <1>2, <1>3, <1>4, <1>5, <1>6, <1>7

(* ----------------------------- The paper ------------------------------- *)

\* The last slip of a non-empty paper is a slip.
LEMMA LastType ==
    ASSUME TypeOK, NEW o \in Orders, paper[o] # <<>>
    PROVE  Last(o).rev \in Nat
  <1>1. paper[o] \in Seq([rev : Revisions, reason : Reasons])
    BY DEF TypeOK, BridgeTypes
  <1>2. Len(paper[o]) \in Nat \ {0}
    BY <1>1, EmptySeq
  <1>3. Len(paper[o]) \in 1..Len(paper[o])
    BY <1>2
  <1>4. Last(o) \in [rev : Revisions, reason : Reasons]
    BY <1>1, <1>3, ElementOfSeq DEF Last
  <1> QED  BY <1>4, BoundsAreNat

\* The revision on paper is a number.
LEMMA HaveType == TypeOK => \A o \in Orders : Have[o] \in Nat
  BY LastType DEF Have

\* Where nothing is printed, the last slip stays.
LEMMA SamePaper == UNCHANGED paper => \A o \in Orders : Have'[o] = Have[o] /\ Last(o)' = Last(o)
  BY DEF Have, Last

PaperSlip == [rev : Revisions, reason : Reasons]

\* What a printed slip does to the paper.
LEMMA AfterAppend ==
    ASSUME NEW seq \in Seq(PaperSlip), NEW x \in PaperSlip
    PROVE  /\ Append(seq, x) # <<>>
           /\ Len(Append(seq, x)) = Len(seq) + 1
           /\ Append(seq, x)[Len(Append(seq, x))] = x
           /\ \A i \in 1..Len(seq) : Append(seq, x)[i] = seq[i]
  BY AppendProperties

\* A slip comes out: it is the last one of its order.
LEMMA PaperAfterPrint ==
    ASSUME TypeOK, NEW s \in batch, BridgePrint(s)
    PROVE  /\ Have'[s.order] = s.rev + 1
           /\ paper'[s.order] # <<>> /\ Last(s.order)'.rev = s.rev
           /\ Len(paper'[s.order]) = Len(paper[s.order]) + 1
           /\ paper'[s.order][Len(paper[s.order]) + 1].rev = s.rev
           /\ \A i \in 1..Len(paper[s.order]) : paper'[s.order][i] = paper[s.order][i]
           /\ \A o \in Orders \ {s.order} : paper'[o] = paper[o] /\ Have'[o] = Have[o]
                                            /\ Last(o)' = Last(o)
  <1>1. /\ s.order \in Orders /\ [rev |-> s.rev, reason |-> s.reason] \in PaperSlip
        /\ paper \in [Orders -> Seq(PaperSlip)]
    BY DEF TypeOK, BridgeTypes, Slip, PaperSlip
  <1>2. PICK slip \in PaperSlip :
          /\ slip.rev = s.rev
          /\ paper' = [paper EXCEPT ![s.order] = Append(paper[s.order], slip)]
    BY <1>1 DEF BridgePrint
  <1> DEFINE new == Append(paper[s.order], slip)
  <1>3. /\ new # <<>> /\ Len(new) = Len(paper[s.order]) + 1 /\ new[Len(new)] = slip
        /\ \A i \in 1..Len(paper[s.order]) : new[i] = paper[s.order][i]
    BY <1>1, AfterAppend
  <1>4. paper'[s.order] = new /\ \A p \in Orders \ {s.order} : paper'[p] = paper[p]
    BY <1>1, <1>2
  <1> HIDE DEF new
  <1>5. Last(s.order)'.rev = s.rev
    BY <1>2, <1>3, <1>4 DEF Last
  <1>6. Have'[s.order] = s.rev + 1
    BY <1>1, <1>3, <1>4, <1>5 DEF Have
  <1>7. \A p \in Orders \ {s.order} : Have'[p] = Have[p] /\ Last(p)' = Last(p)
    BY <1>4 DEF Have, Last
  <1> QED  BY <1>2, <1>3, <1>4, <1>5, <1>6, <1>7

\* What the bridge does to the paper, seen from any order.
LEMMA HaveGrows ==
    ASSUME TypeOK, OrderInv, BridgeNext, NEW o \in Orders
    PROVE  Have[o] <= Have'[o]
  <1>1. ASSUME NEW s \in batch, BridgePrint(s) PROVE Have[o] <= Have'[o]
    <2>1. Have[s.order] <= s.rev + 1 /\ Have'[s.order] = s.rev + 1
      BY <1>1, PaperAfterPrint DEF OrderInv
    <2> QED  BY <1>1, <2>1, PaperAfterPrint, HaveType
  <1>2. UNCHANGED paper => Have[o] <= Have'[o]
    BY SamePaper, HaveType
  <1>3. (\A s \in batch : ~BridgePrint(s)) => UNCHANGED paper
    BY DEF BridgeNext, BridgeSkip, BridgePrintError, BridgeRecord, BridgeRestart
  <1> QED  BY <1>1, <1>2, <1>3

(* --------------------- Tickets and their orders ------------------------ *)

\* No ticket gets ahead of its order, and a card keeps its ticket.
LEMMA RevInvStep == TypeOK /\ TapInv /\ RevInv /\ [Next]_vars => RevInv'
  <1> SUFFICES ASSUME TypeOK, TapInv, RevInv, [Next]_vars PROVE RevInv'
    OBVIOUS
  <1>1. ASSUME NEW o \in Orders, TapNext(o) PROVE RevInv'
    <2>1. TapEffect(o)
      BY <1>1, TapHasEffect
    <2>2. /\ rev[o] \in Nat /\ rev'[o] \in Nat /\ rev[o] <= rev'[o]
          /\ \A p \in Orders \ {o} : rev'[p] = rev[p] /\ handover'[p] = handover[p]
          /\ \A p \in Orders : rev[p] \in Nat
      <3>1. TypeOK'
        BY TypeStep
      <3> QED  BY <2>1, <3>1, Basics DEF TapEffect, TypeOK, OrderTypes
    <2>3. ASSUME NEW e \in 1..issued' PROVE ticket'[e].rev <= rev'[ticket'[e].order]
      <3>1. CASE e \in Issued
        <4>1. /\ ticket'[e].order = ticket[e].order /\ ticket[e].order \in Orders
              /\ ticket[e].rev \in Nat
              /\ ticket[e].rev <= rev[ticket[e].order]
              /\ \/ ticket'[e].rev = ticket[e].rev
                 \/ ticket[e].order = o /\ ticket'[e].rev = rev'[o]
          BY <2>1, <3>1, Basics DEF TapEffect, WritesRow, RevInv
        <4> QED  BY <2>2, <4>1
      <3>2. CASE e \notin Issued
        <4>1. ticket'[e].order = o /\ ticket'[e].rev = rev'[o]
          BY <2>1, <3>2, Basics DEF TapEffect, WritesRow
        <4> QED  BY <2>2, <4>1
      <3> QED  BY <3>1, <3>2
    <2>4. ASSUME NEW p \in Orders, handover'[p] # "none"
          PROVE  \E e \in 1..issued' : ticket'[e].order = p /\ ticket'[e].rev = rev'[p]
      <3>1. CASE p # o
        <4>1. PICK e \in Issued : ticket[e].order = p /\ ticket[e].rev = rev[p]
          BY <2>2, <2>4, <3>1 DEF RevInv, TicketsOf
        <4>2. e \in 1..issued' /\ ticket'[e].order = p /\ ticket'[e].rev = ticket[e].rev
          BY <2>1, <3>1, <4>1, Basics DEF TapEffect, WritesRow
        <4> QED  BY <2>2, <3>1, <4>1, <4>2
      <3>2. CASE p = o /\ HasRow(o, rev'[o])
        BY <3>2 DEF HasRow
      <3>3. CASE p = o /\ handover[o] # "none" /\ rev'[o] = rev[o]
        <4>1. PICK e \in Issued : ticket[e].order = p /\ ticket[e].rev = rev[p]
          BY <3>3 DEF RevInv, TicketsOf
        <4>2. e \in 1..issued' /\ ticket'[e].order = p /\ ticket'[e].rev = rev[p]
          BY <2>1, <3>3, <4>1, Basics DEF TapEffect, WritesRow
        <4> QED  BY <3>3, <4>2
      <3> QED  BY <2>1, <2>4, <3>1, <3>2, <3>3 DEF TapEffect
    <2> QED  BY <2>3, <2>4 DEF RevInv, TicketsOf
  <1>2. CASE ServerNext
    <2>1. /\ KeepsRows /\ rev' = rev
          /\ \A o \in Orders : handover'[o] # "none" => handover[o] # "none"
      BY <1>2, ServerHasEffect DEF ServerNext
    <2> QED  BY <2>1 DEF RevInv, KeepsRows, TicketsOf
  <1>3. CASE BridgeNext \/ UNCHANGED vars
    BY <1>3, BridgeHasEffect DEF RevInv, TicketsOf, vars, orderVars, outboxVars
  <1> QED  BY <1>1, <1>2, <1>3 DEF Next, ServerNext

(* ------------------- Tickets that left the server ---------------------- *)

OnTheWay == batch \cup ({inHand} \ {NoSlip})

\* A tap does not write a row that was picked up or is held.
LEMMA TapKeepsRows ==
    ASSUME TypeOK, TapInv, NEW o \in Orders, TapNext(o),
           NEW e \in Issued, ticket[e].attempts > 0 \/ lock[e] # "free"
    PROVE  /\ e \in 1..issued'
           /\ ticket'[e].order = ticket[e].order
           /\ ticket'[e].rev = ticket[e].rev
           /\ ticket'[e].attempts = ticket[e].attempts
  <1>1. TapEffect(o)
    BY TapHasEffect
  <1> QED  BY <1>1, Basics DEF TapEffect, WritesRow

\* Nor does it take one for a poll or an answer.
LEMMA TapLocks ==
    ASSUME TypeOK, TapInv, NEW o \in Orders, TapNext(o),
           NEW e \in 1..issued', lock'[e] \notin {"free", "withdraw"}
    PROVE  e \in Issued /\ lock[e] = lock'[e]
  <1>1. TapEffect(o)
    BY TapHasEffect
  <1>2. e \in Tickets
    BY <1>1, Basics, BoundsAreNat DEF TapEffect, WritesRow
  <1>3. lock[e] = lock'[e]
    BY <1>1, <1>2 DEF TapEffect
  <1> QED  BY <1>2, <1>3, Basics DEF TapInv

\* A row locked by an answer was locked before, or the answer just came.
LEMMA AnswerLocks ==
    ASSUME TypeOK, TapInv, OutInv, ServerNext,
           NEW e \in Issued, lock'[e] \in {"printed", "misprinted"}
    PROVE  \/ lock'[e] = lock[e]
           \/ \E a \in acks : a.ticket = e /\ lock'[e] = IF a.ok THEN "printed" ELSE "misprinted"
  <1> USE BoundsAreNat
  <1>0. lock \in [Tickets -> Locks] /\ e \in Tickets
    BY Basics
  <1>1. CASE ClaimSelect
    BY <1>0, <1>1 DEF ClaimSelect
  <1>2. ASSUME NEW f \in Issued, ClaimCheck(f) PROVE lock'[e] = lock[e]
    BY <1>0, <1>2 DEF ClaimCheck
  <1>3. ASSUME NEW delivered \in BOOLEAN, ClaimCommit(delivered) PROVE lock'[e] = lock[e]
    BY <1>0, <1>3 DEF ClaimCommit
  <1>4. CASE ClaimAbort
    BY <1>0, <1>4 DEF ClaimAbort
  <1>5. ASSUME NEW a \in acks, AckTake(a), lock'[e] # lock[e]
        PROVE  a.ticket = e /\ lock'[e] = IF a.ok THEN "printed" ELSE "misprinted"
    BY <1>0, <1>5, Basics DEF AckTake
  <1>6. ASSUME NEW f \in Issued, AckCommit(f) PROVE lock'[e] = lock[e]
    BY <1>0, <1>6 DEF AckCommit
  <1>7. ASSUME NEW a \in acks, AckLost(a) PROVE lock'[e] = lock[e]
    BY <1>7 DEF AckLost, outboxVars
  <1>8. ASSUME NEW f \in Issued, Sweep(f) PROVE lock'[e] = lock[e]
    BY <1>8 DEF Sweep
  <1> QED  BY <1>1, <1>2, <1>3, <1>4, <1>5, <1>6, <1>7, <1>8 DEF ServerNext, PollNext, AckNext

\* A ticket that left the server is not rewritten by any step.
LEMMA OutInvStep == TypeOK /\ TapInv /\ OutInv /\ [Next]_vars => OutInv'
  <1> SUFFICES ASSUME TypeOK, TapInv, OutInv, [Next]_vars PROVE OutInv'
    OBVIOUS
  <1> USE BoundsAreNat
  <1>1. ASSUME NEW o \in Orders, TapNext(o) PROVE OutInv'
    <2>1. UNCHANGED <<batch, inHand, acks>>
      BY <1>1, TapHasEffect DEF TapEffect, bridgeVars
    <2>2. ASSUME NEW s \in OnTheWay
          PROVE  /\ s.ticket \in 1..issued' /\ ticket'[s.ticket].attempts > 0
                 /\ s.order = ticket'[s.ticket].order /\ s.rev = ticket'[s.ticket].rev
      BY <1>1, TapKeepsRows DEF OutInv, OnTheWay
    <2>3. \A a \in acks : a.ticket \in 1..issued' /\ ticket'[a.ticket].attempts > 0
      BY <1>1, TapKeepsRows DEF OutInv
    <2>4. ASSUME NEW e \in 1..issued', lock'[e] \in {"printed", "misprinted"}
          PROVE  ticket'[e].attempts > 0
      BY <1>1, <2>4, TapLocks, TapKeepsRows DEF OutInv
    <2> QED  BY <2>1, <2>2, <2>3, <2>4 DEF OutInv, OnTheWay
  <1>2. CASE ServerNext
    <2>1. KeepsRows /\ inHand' = inHand
      BY <1>2, ServerHasEffect DEF ServerNext
    <2>2. ASSUME NEW e \in Issued, ticket[e].attempts > 0
          PROVE  /\ e \in 1..issued' /\ ticket'[e].attempts > 0
                 /\ ticket'[e].order = ticket[e].order /\ ticket'[e].rev = ticket[e].rev
      <3>1. ticket'[e] \in Ticket
        <4>1. TypeOK'
          BY TypeStep
        <4> QED  BY <2>1, <4>1 DEF KeepsRows, TypeOK, OutboxTypes
      <3>2. ticket[e].attempts \in Nat /\ ticket'[e].attempts \in Nat
        BY <3>1, Basics DEF Ticket
      <3> QED  BY <2>1, <2>2, <3>2 DEF KeepsRows
    <2>3. ASSUME NEW s \in batch' \cup ({inHand'} \ {NoSlip})
          PROVE  /\ s.ticket \in 1..issued' /\ ticket'[s.ticket].attempts > 0
                 /\ s.order = ticket'[s.ticket].order /\ s.rev = ticket'[s.ticket].rev
      <3>1. CASE s \in OnTheWay
        BY <2>2, <3>1 DEF OutInv, OnTheWay
      <3>2. CASE s \notin OnTheWay
        <4>1. PICK e \in Issued : /\ lock[e] = "hand" /\ s = SlipOf(e)
                                  /\ ticket'[e] = PickedUp(ticket[e])
          <5>1. batch' # batch
            BY <2>1, <2>3, <3>2 DEF OnTheWay
          <5>2. PICK delivered \in BOOLEAN : ClaimCommit(delivered)
            BY <1>2, <5>1 DEF ServerNext, PollNext, AckNext, ClaimSelect, ClaimAbort, ClaimCheck,
                              AckTake, AckLost, AckCommit, Sweep, bridgeVars
          <5> QED  BY <2>1, <2>3, <3>2, <5>1, <5>2, Basics DEF ClaimCommit, Polled, OnTheWay
        <4>2. /\ s.ticket = e /\ s.order = ticket[e].order /\ s.rev = ticket[e].rev
          BY <4>1 DEF SlipOf
        <4>3. ticket'[e].attempts > 0
          BY <4>1, Basics DEF PickedUp, Ticket
        <4> QED  BY <2>1, <4>2, <4>3 DEF KeepsRows
      <3> QED  BY <3>1, <3>2
    <2>4. ASSUME NEW a \in acks' PROVE a.ticket \in 1..issued' /\ ticket'[a.ticket].attempts > 0
      <3>1. a \in acks
        BY <1>2, <2>4 DEF ServerNext, PollNext, AckNext, ClaimSelect, ClaimAbort, ClaimCheck,
                          ClaimCommit, AckTake, AckLost, AckCommit, Sweep
      <3> QED  BY <2>2, <3>1 DEF OutInv
    <2>5. ASSUME NEW e \in 1..issued', lock'[e] \in {"printed", "misprinted"}
          PROVE  ticket'[e].attempts > 0
      <3>1. e \in Issued
        BY <2>1 DEF KeepsRows
      <3>2. lock'[e] = lock[e] \/ \E a \in acks : a.ticket = e
        BY <1>2, <2>5, AnswerLocks, <3>1
      <3> QED  BY <2>2, <2>5, <3>1, <3>2 DEF OutInv
    <2> QED  BY <2>3, <2>4, <2>5 DEF OutInv
  <1>3. CASE BridgeNext
    <2>1. UNCHANGED <<ticket, issued, lock>>
      BY <1>3, BridgeHasEffect DEF outboxVars
    <2>2. batch' \cup ({inHand'} \ {NoSlip}) \subseteq OnTheWay
      BY <1>3 DEF BridgeNext, BridgeSkip, BridgePrint, BridgePrintError, BridgeRecord,
                  BridgeRestart, OnTheWay
    <2>3. ASSUME NEW a \in acks' PROVE a \in acks \/ \E s \in OnTheWay : a.ticket = s.ticket
      <3>1. ASSUME NEW s \in batch, BridgeSkip(s) \/ BridgePrintError(s), a \notin acks
            PROVE  s \in OnTheWay /\ a.ticket = s.ticket
        BY <2>3, <3>1 DEF BridgeSkip, BridgePrintError, OnTheWay
      <3>2. ASSUME NEW saved \in BOOLEAN, BridgeRecord(saved), a \notin acks
            PROVE  inHand \in OnTheWay /\ a.ticket = inHand.ticket
        BY <2>3, <3>2 DEF BridgeRecord, OnTheWay
      <3>3. (\E s \in batch : BridgePrint(s)) \/ BridgeRestart => acks' = acks
        BY DEF BridgePrint, BridgeRestart
      <3> QED  BY <1>3, <2>3, <3>1, <3>2, <3>3 DEF BridgeNext
    <2> QED  BY <2>1, <2>2, <2>3 DEF OutInv, OnTheWay
  <1>4. CASE UNCHANGED vars
    BY <1>4 DEF OutInv, vars, outboxVars, bridgeVars
  <1> QED  BY <1>1, <1>2, <1>3, <1>4 DEF Next, ServerNext

(* --------------------- What the bridge says it did --------------------- *)

\* Whatever says "printed" is on paper, after every step.
LEMMA PrintedInvStep ==
    TypeOK /\ TapInv /\ OutInv /\ PrintedInv /\ OrderInv /\ [Next]_vars => PrintedInv'
  <1> SUFFICES ASSUME TypeOK, TapInv, OutInv, PrintedInv, OrderInv, [Next]_vars
               PROVE  PrintedInv'
    OBVIOUS
  <1>0. /\ \A o \in Orders : Have[o] \in Nat /\ logMem[o] \in Nat /\ logFile[o] \in Nat
        /\ logMem \in [Orders -> Nat] /\ logFile \in [Orders -> Nat]
    <2>1. 0..(MaxRevision + 1) \subseteq Nat
      OBVIOUS
    <2>2. logMem \in [Orders -> Nat] /\ logFile \in [Orders -> Nat]
      BY <2>1 DEF TypeOK, BridgeTypes
    <2> QED  BY <2>2, HaveType
  <1>1. ASSUME NEW o \in Orders, TapNext(o) PROVE PrintedInv'
    <2>1. UNCHANGED <<acks, inHand, logMem, logFile, paper>>
      BY <1>1, TapHasEffect DEF TapEffect, bridgeVars
    <2>2. \A p \in Orders : Have'[p] = Have[p]
      BY <2>1, SamePaper
    <2>3. ASSUME NEW a \in acks, a.ok
          PROVE  ticket'[a.ticket].rev < Have'[ticket'[a.ticket].order]
      <3>1. a.ticket \in Issued /\ ticket[a.ticket].attempts > 0
        BY DEF OutInv
      <3>2. /\ ticket'[a.ticket].order = ticket[a.ticket].order
            /\ ticket'[a.ticket].rev = ticket[a.ticket].rev
        BY <1>1, <3>1, TapKeepsRows
      <3> QED  BY <2>2, <2>3, <3>1, <3>2, Basics DEF PrintedInv
    <2>4. ASSUME NEW e \in 1..issued', lock'[e] = "printed"
          PROVE  ticket'[e].rev < Have'[ticket'[e].order]
      <3>1. e \in Issued /\ lock[e] = "printed"
        BY <1>1, <2>4, TapLocks
      <3>2. ticket'[e].order = ticket[e].order /\ ticket'[e].rev = ticket[e].rev
        BY <1>1, <3>1, TapKeepsRows
      <3> QED  BY <2>2, <3>1, <3>2, Basics DEF PrintedInv
    <2>5. inHand' # NoSlip => inHand'.rev < Have'[inHand'.order]
      BY <2>1, <2>2, Basics DEF PrintedInv
    <2>6. \A p \in Orders : logMem'[p] <= Have'[p] /\ logFile'[p] <= Have'[p]
      BY <2>1, <2>2 DEF PrintedInv
    <2> QED  BY <2>1, <2>3, <2>4, <2>5, <2>6 DEF PrintedInv
  <1>2. CASE ServerNext
    <2>1. KeepsRows /\ UNCHANGED <<inHand, logMem, logFile, paper>>
      BY <1>2, ServerHasEffect DEF ServerNext
    <2>2. \A p \in Orders : Have'[p] = Have[p]
      BY <2>1, SamePaper
    <2>3. acks' \subseteq acks
      BY <1>2 DEF ServerNext, PollNext, AckNext, ClaimSelect, ClaimAbort, ClaimCheck,
                  ClaimCommit, AckTake, AckLost, AckCommit, Sweep
    <2>4. ASSUME NEW a \in acks, a.ok
          PROVE  ticket'[a.ticket].rev < Have'[ticket'[a.ticket].order]
      <3>1. a.ticket \in Issued
        BY DEF OutInv
      <3> QED  BY <2>1, <2>2, <2>4, <3>1, Basics DEF PrintedInv, KeepsRows
    <2>5. ASSUME NEW e \in 1..issued', lock'[e] = "printed"
          PROVE  ticket'[e].rev < Have'[ticket'[e].order]
      <3>1. e \in Issued
        BY <2>1 DEF KeepsRows
      <3>2. lock[e] = "printed" \/ \E a \in acks : a.ticket = e /\ a.ok
        BY <1>2, <2>5, <3>1, AnswerLocks
      <3>3. ticket[e].rev < Have[ticket[e].order]
        BY <3>1, <3>2 DEF PrintedInv
      <3> QED  BY <2>1, <2>2, <3>1, <3>3, Basics DEF KeepsRows
    <2>6. inHand' # NoSlip => inHand'.rev < Have'[inHand'.order]
      BY <2>1, <2>2, Basics DEF PrintedInv
    <2>7. \A p \in Orders : logMem'[p] <= Have'[p] /\ logFile'[p] <= Have'[p]
      BY <2>1, <2>2 DEF PrintedInv
    <2> QED  BY <2>3, <2>4, <2>5, <2>6, <2>7 DEF PrintedInv
  <1>3. CASE BridgeNext
    <2>1. UNCHANGED <<ticket, issued, lock>>
      BY <1>3, BridgeHasEffect DEF outboxVars
    <2>2. \A o \in Orders : Have[o] <= Have'[o] /\ Have'[o] \in Nat
      <3>1. \A o \in Orders : Have'[o] \in Nat
        <4>1. TypeOK'
          BY TypeStep
        <4>2. TypeOK' => (\A o \in Orders : Have[o] \in Nat)'
          BY HaveType, PTL
        <4> QED  BY <4>1, <4>2
      <3> QED  BY <1>3, <3>1, HaveGrows
    <2>3. inHand' # NoSlip => inHand'.rev < Have'[inHand'.order]
      <3>1. ASSUME NEW s \in batch, BridgePrint(s)
            PROVE  inHand'.rev < Have'[inHand'.order]
        <4>1. inHand' = s
          BY <3>1 DEF BridgePrint
        <4> QED  BY <3>1, <4>1, PaperAfterPrint, Basics
      <3>2. CASE inHand' = inHand
        BY <2>2, <3>2, Basics, <1>0 DEF PrintedInv
      <3>3. (\A s \in batch : ~BridgePrint(s)) => inHand' = inHand \/ inHand' = NoSlip
        BY <1>3 DEF BridgeNext, BridgeSkip, BridgePrintError, BridgeRecord, BridgeRestart
      <3> QED  BY <3>1, <3>2, <3>3
    <2>4. \A o \in Orders : logMem'[o] <= Have'[o] /\ logFile'[o] <= Have'[o]
      <3>1. \A o \in Orders : logMem[o] <= Have'[o] /\ logFile[o] <= Have'[o]
        BY <1>0, <2>2 DEF PrintedInv
      <3>2. ASSUME NEW saved \in BOOLEAN, BridgeRecord(saved), NEW o \in Orders
            PROVE  /\ logMem'[o] <= Have'[o]
                   /\ logFile' = logMem' \/ logFile' = logFile
        <4>1. /\ inHand # NoSlip /\ logMem' = [logMem EXCEPT ![inHand.order] = inHand.rev + 1]
              /\ logFile' = logMem' \/ logFile' = logFile
          BY <3>2 DEF BridgeRecord
        <4>2. inHand.rev + 1 <= Have'[inHand.order]
          BY <4>1, <1>0, <2>2, Basics DEF PrintedInv
        <4> QED  BY <3>1, <4>1, <4>2, Basics, <1>0
      <3>3. (\A saved \in BOOLEAN : ~BridgeRecord(saved)) =>
               (logMem' = logMem \/ logMem' = logFile) /\ logFile' = logFile
        BY <1>3 DEF BridgeNext, BridgeSkip, BridgePrint, BridgePrintError, BridgeRestart
      <3> QED  BY <3>1, <3>2, <3>3
    <2>5. ASSUME NEW a \in acks', a.ok
          PROVE  ticket[a.ticket].rev < Have'[ticket[a.ticket].order]
      <3>1. CASE a \in acks
        <4>1. ticket[a.ticket].rev < Have[ticket[a.ticket].order]
          BY <2>5, <3>1 DEF PrintedInv
        <4>2. a.ticket \in Issued
          BY <3>1 DEF OutInv
        <4> QED  BY <1>0, <2>2, <4>1, <4>2, Basics
      <3>2. CASE a \notin acks
        <4>1. PICK s \in OnTheWay : /\ a.ticket = s.ticket /\ s.order \in Orders
                                     /\ s.rev \in Nat /\ s.rev < Have[s.order]
          <5>1. ASSUME NEW s \in batch, BridgeSkip(s)
                PROVE  /\ s \in OnTheWay /\ a.ticket = s.ticket /\ s.order \in Orders
                       /\ s.rev \in Nat /\ s.rev < Have[s.order]
            <6>1. a.ticket = s.ticket /\ logMem[s.order] > s.rev
              BY <2>5, <3>2, <5>1 DEF BridgeSkip, Already
            <6> QED  BY <1>0, <6>1, Basics DEF PrintedInv, OnTheWay
          <5>2. ASSUME NEW saved \in BOOLEAN, BridgeRecord(saved)
                PROVE  /\ inHand \in OnTheWay /\ a.ticket = inHand.ticket
                       /\ inHand.order \in Orders /\ inHand.rev \in Nat
                       /\ inHand.rev < Have[inHand.order]
            BY <2>5, <3>2, <5>2, Basics DEF BridgeRecord, PrintedInv, OnTheWay
          <5>3. ASSUME NEW s \in batch, BridgePrintError(s) PROVE FALSE
            BY <2>5, <3>2, <5>3 DEF BridgePrintError
          <5>4. (\E s \in batch : BridgePrint(s)) \/ BridgeRestart => acks' = acks
            BY DEF BridgePrint, BridgeRestart
          <5> QED  BY <1>3, <3>2, <2>5, <5>1, <5>2, <5>3, <5>4 DEF BridgeNext
        <4>2. s.order = ticket[a.ticket].order /\ s.rev = ticket[a.ticket].rev
          BY <4>1 DEF OutInv, OnTheWay
        <4> QED  BY <1>0, <2>2, <4>1, <4>2
      <3> QED  BY <3>1, <3>2
    <2>6. ASSUME NEW e \in Issued, lock[e] = "printed"
          PROVE  ticket[e].rev < Have'[ticket[e].order]
      BY <1>0, <2>2, <2>6, Basics DEF PrintedInv
    <2> QED  BY <2>1, <2>3, <2>4, <2>5, <2>6 DEF PrintedInv
  <1>4. CASE UNCHANGED vars
    <2>1. \A p \in Orders : Have'[p] = Have[p]
      BY <1>4, SamePaper DEF vars, bridgeVars
    <2>2. UNCHANGED <<ticket, issued, lock, acks, inHand, logMem, logFile>>
      BY <1>4 DEF vars, outboxVars, bridgeVars
    <2> QED  BY <2>1, <2>2, Basics DEF PrintedInv, OutInv
  <1> QED  BY <1>1, <1>2, <1>3, <1>4 DEF Next, ServerNext

(* -------------------------- Nothing older prints ------------------------ *)

\* How a poll, before its commit, comes to hold a row.
LEMMA PollLocks ==
    ASSUME TypeOK, TapInv, OutInv, ServerNext, \A delivered \in BOOLEAN : ~ClaimCommit(delivered),
           NEW e \in Issued, lock'[e] \in {"claim", "hand", "drop"}
    PROVE  /\ \/ lock[e] \in {"claim", "hand", "drop"}
              \/ /\ Idle /\ lock'[e] = "claim" /\ \A f \in Issued : lock'[f] # "hand"
           /\ lock'[e] = "hand" => lock[e] = "hand" \/ (lock[e] = "claim" /\ IsCurrent(e))
           /\ lock'[e] = "claim" => lock[e] = "claim" \/ \A f \in Issued : lock'[f] # "hand"
  <1>0. lock \in [Tickets -> Locks] /\ \A f \in Issued : f \in Tickets
    BY Basics
  <1>1. ASSUME ClaimSelect
        PROVE  Idle /\ lock'[e] = "claim" /\ \A f \in Issued : lock'[f] # "hand"
    <2>1. Idle /\ \A f \in Issued : lock[f] \notin {"claim", "hand", "drop"}
      BY <1>1 DEF ClaimSelect, Polled
    <2>2. \A f \in Issued : lock'[f] = lock[f] \/ lock'[f] = "claim"
      BY <1>0, <1>1 DEF ClaimSelect
    <2> QED  BY <2>1, <2>2
  <1>2. ASSUME NEW f \in Issued, ClaimCheck(f)
        PROVE  /\ lock[e] \in {"claim", "hand", "drop"}
               /\ lock'[e] = "hand" => lock[e] = "hand" \/ (lock[e] = "claim" /\ IsCurrent(e))
               /\ lock'[e] = "claim" => lock[e] = "claim"
    BY <1>0, <1>2 DEF ClaimCheck
  <1>3. CASE ClaimAbort
    BY <1>0, <1>3 DEF ClaimAbort
  <1>4. ASSUME NEW a \in acks, AckTake(a) PROVE lock'[e] = lock[e]
    BY <1>0, <1>4, Basics DEF AckTake
  <1>5. ASSUME NEW f \in Issued, AckCommit(f) PROVE lock'[e] = lock[e]
    BY <1>0, <1>5 DEF AckCommit
  <1>6. ASSUME NEW a \in acks, AckLost(a) PROVE lock'[e] = lock[e]
    BY <1>6 DEF AckLost, outboxVars
  <1>7. ASSUME NEW f \in Issued, Sweep(f) PROVE lock'[e] = lock[e]
    BY <1>7 DEF Sweep
  <1> QED  BY <1>1, <1>2, <1>3, <1>4, <1>5, <1>6, <1>7 DEF ServerNext, PollNext, AckNext

\* What is on its way to the printer is not older than the paper, after every step.
LEMMA OrderInvStep ==
    TypeOK /\ TapInv /\ RevInv /\ OutInv /\ OrderInv /\ [Next]_vars => OrderInv'
  <1> SUFFICES ASSUME TypeOK, TapInv, RevInv, OutInv, OrderInv, [Next]_vars
               PROVE  OrderInv'
    OBVIOUS
  <1>0. /\ \A o \in Orders : Have[o] \in Nat
        /\ \A e \in Tickets : lock[e] # "free" => e \in Issued
    BY HaveType, Basics DEF TapInv
  <1>1. ASSUME NEW o \in Orders, TapNext(o) PROVE OrderInv'
    <2>1. TapEffect(o) /\ UNCHANGED <<batch, inHand, paper>>
      BY <1>1, TapHasEffect DEF TapEffect, bridgeVars
    <2>2. \A p \in Orders : Have'[p] = Have[p]
      BY <2>1, SamePaper
    <2>3. ASSUME NEW p \in Orders, Have[p] > 0
          PROVE  \E e \in 1..issued' : ticket'[e].order = p /\ Have[p] <= ticket'[e].rev + 1
      <3>1. PICK e \in Issued : ticket[e].order = p /\ Have[p] <= ticket[e].rev + 1
        BY <2>3 DEF OrderInv, TicketsOf
      <3>2. /\ e \in 1..issued' /\ ticket'[e].order = p
            /\ \/ ticket'[e].rev = ticket[e].rev
               \/ p = o /\ ticket'[e].rev = rev'[o]
        BY <2>1, <3>1, Basics DEF TapEffect, WritesRow
      <3>3. ticket[e].rev <= rev[p] /\ rev[p] \in Nat /\ ticket[e].rev \in Nat
        BY <3>1, Basics DEF RevInv
      <3>4. rev[o] <= rev'[o] /\ rev'[o] \in Nat
        BY <2>1, TypeStep DEF TapEffect, TypeOK, OrderTypes
      <3> QED  BY <1>0, <3>1, <3>2, <3>3, <3>4
    <2>4. ASSUME NEW e \in 1..issued', lock'[e] \in {"claim", "hand"}
          PROVE  /\ e \in Issued /\ lock[e] = lock'[e]
                 /\ ticket'[e].order = ticket[e].order /\ ticket'[e].rev = ticket[e].rev
                 /\ ticket[e].order \in Orders
      <3>1. e \in Issued /\ lock[e] = lock'[e]
        BY <1>1, <2>4, TapLocks
      <3> QED  BY <1>1, <2>4, <3>1, TapKeepsRows, Basics
    <2>5. \A e \in 1..issued' : lock'[e] = "hand" => Have[ticket'[e].order] <= ticket'[e].rev + 1
      BY <2>4 DEF OrderInv
    <2>6. \A e, f \in 1..issued' : /\ lock'[e] = "hand" /\ lock'[f] \in {"claim", "hand"}
                                    /\ ticket'[e].order = ticket'[f].order
                                    => ticket'[f].rev <= ticket'[e].rev
      BY <2>4 DEF OrderInv
    <2>7. Polled({"claim", "hand", "drop"})' # {} => Idle'
      <3>1. ASSUME NEW e \in 1..issued', lock'[e] \in {"claim", "hand", "drop"}
            PROVE  e \in Issued /\ lock[e] \in {"claim", "hand", "drop"}
        BY <1>1, <3>1, TapLocks
      <3> QED  BY <2>1, <3>1 DEF OrderInv, Polled, Idle
    <2>8. \A e \in 1..issued' : lock'[e] = "hand" => ticket'[e].order \in Orders
      BY <2>4
    <2>9. \A s \in batch' : Have'[s.order] <= s.rev + 1
      BY <2>1, <2>2, Basics DEF OrderInv
    <2> QED  BY <2>1, <2>2, <2>3, <2>5, <2>6, <2>7, <2>8, <2>9 DEF OrderInv, TicketsOf
  <1>2. CASE ServerNext
    <2>1. KeepsRows /\ UNCHANGED <<inHand, paper>>
      BY <1>2, ServerHasEffect DEF ServerNext
    <2>2. \A p \in Orders : Have'[p] = Have[p]
      BY <2>1, SamePaper
    <2>3. \A p \in Orders : Have'[p] > 0 =>
             \E e \in TicketsOf(p)' : Have'[p] <= ticket'[e].rev + 1
      BY <2>1, <2>2 DEF OrderInv, TicketsOf, KeepsRows
    <2>4. CASE \E delivered \in BOOLEAN : ClaimCommit(delivered)
      <3>1. /\ batch' = batch \/ batch' = {SlipOf(e) : e \in Polled({"hand"})}
            /\ \A e \in Issued : lock'[e] \notin {"claim", "hand", "drop"}
        BY <2>4, Basics DEF ClaimCommit, Polled
      <3>2. ASSUME NEW e \in Polled({"hand"})
            PROVE  /\ SlipOf(e).order = ticket[e].order /\ SlipOf(e).rev = ticket[e].rev
                   /\ ticket[e].order \in Orders /\ ticket[e].rev \in Nat
                   /\ e \in Issued /\ lock[e] = "hand"
        BY Basics DEF SlipOf, Polled
      <3>3. \A s \in batch' : Have'[s.order] <= s.rev + 1
        BY <2>2, <3>1, <3>2, Basics DEF OrderInv
      <3>4. \A s, t \in batch' : s.order = t.order => s.rev = t.rev
        <4>1. CASE batch' = batch
          BY <4>1 DEF OrderInv
        <4>2. ASSUME NEW e \in Polled({"hand"}), NEW f \in Polled({"hand"}),
                     ticket[e].order = ticket[f].order
              PROVE  ticket[e].rev = ticket[f].rev
          BY <3>2, <4>2 DEF OrderInv
        <4> QED  BY <3>1, <3>2, <4>1, <4>2
      <3> QED  BY <2>1, <2>3, <3>1, <3>3, <3>4 DEF OrderInv, Polled, KeepsRows
    <2>5. CASE ~\E delivered \in BOOLEAN : ClaimCommit(delivered)
      <3>1. batch' = batch
        BY <1>2, <2>5 DEF ServerNext, PollNext, AckNext, ClaimSelect, ClaimAbort, ClaimCheck,
                          AckTake, AckLost, AckCommit, Sweep, bridgeVars
      <3>2. ASSUME NEW e \in Issued, lock'[e] = "hand"
            PROVE  lock[e] = "hand" \/ (lock[e] = "claim" /\ IsCurrent(e))
        BY <1>2, <2>5, <3>2, PollLocks
      <3>3. ASSUME NEW e \in Issued, lock'[e] \in {"claim", "hand"},
                   NEW f \in Issued, lock'[f] = "hand"
            PROVE  lock[e] \in {"claim", "hand"}
        BY <1>2, <2>5, <3>3, PollLocks
      <3>4. ASSUME NEW e \in Issued, lock'[e] = "hand"
            PROVE  /\ Have[ticket[e].order] <= ticket[e].rev + 1
                   /\ \A f \in Issued : lock'[f] \in {"claim", "hand"}
                                        /\ ticket[e].order = ticket[f].order
                                        => ticket[f].rev <= ticket[e].rev
        <4>1. CASE lock[e] = "hand"
          BY <3>3, <3>4, <4>1 DEF OrderInv
        <4>2. CASE lock[e] = "claim" /\ IsCurrent(e)
          <5>1. \A f \in Issued : ticket[e].order = ticket[f].order => ticket[f].rev <= ticket[e].rev
            BY <4>2 DEF IsCurrent, TicketsOf
          <5>2. CASE Have[ticket[e].order] > 0
            <6>1. PICK f \in Issued : /\ ticket[f].order = ticket[e].order
                                      /\ Have[ticket[e].order] <= ticket[f].rev + 1
              BY <5>2, Basics DEF OrderInv, TicketsOf
            <6> QED  BY <1>0, <5>1, <6>1, Basics
          <5> QED  BY <1>0, <5>1, <5>2, Basics
        <4> QED  BY <3>2, <3>4, <4>1, <4>2
      <3>5. Polled({"claim", "hand", "drop"})' # {} => Idle'
        <4>1. ASSUME NEW e \in Issued, lock'[e] \in {"claim", "hand", "drop"}
              PROVE  Idle
          BY <1>2, <2>5, <4>1, PollLocks DEF OrderInv, Polled
        <4> QED  BY <2>1, <3>1, <4>1 DEF Polled, Idle, KeepsRows
      <3>6. \A s \in batch : Have'[s.order] <= s.rev + 1
        BY <2>2, Basics DEF OrderInv
      <3>7. \A s, t \in batch : s.order = t.order => s.rev = t.rev
        BY DEF OrderInv
      <3>8. \A e \in 1..issued' : /\ e \in Issued /\ ticket'[e].order = ticket[e].order
                                   /\ ticket'[e].rev = ticket[e].rev /\ ticket[e].order \in Orders
        BY <2>1, Basics DEF KeepsRows
      <3>9. /\ \A e \in 1..issued' : lock'[e] = "hand" =>
                  Have'[ticket'[e].order] <= ticket'[e].rev + 1
            /\ \A e, f \in 1..issued' : /\ lock'[e] = "hand" /\ lock'[f] \in {"claim", "hand"}
                                         /\ ticket'[e].order = ticket'[f].order
                                         => ticket'[f].rev <= ticket'[e].rev
        BY <2>2, <3>4, <3>8
      <3> QED  BY <2>3, <3>1, <3>5, <3>6, <3>7, <3>9 DEF OrderInv
    <2> QED  BY <2>4, <2>5
  <1>3. CASE BridgeNext
    <2>1. UNCHANGED <<ticket, issued, lock>>
      BY <1>3, BridgeHasEffect DEF outboxVars
    <2>2. Polled({"claim", "hand", "drop"}) = {}
      <3>1. Idle => inHand = NoSlip /\ batch = {}
        BY DEF Idle
      <3> QED  BY <1>3, <3>1 DEF OrderInv, BridgeNext, BridgeSkip, BridgePrint,
                                BridgePrintError, BridgeRecord, BridgeRestart
    <2>3. \A e \in Issued : lock'[e] \notin {"claim", "hand", "drop"}
      BY <2>1, <2>2 DEF Polled
    <2>4. CASE UNCHANGED paper
      <3>1. batch' \subseteq batch /\ \A p \in Orders : Have'[p] = Have[p]
        BY <1>3, <2>4, SamePaper DEF BridgeNext, BridgeSkip, BridgePrint, BridgePrintError,
                                     BridgeRecord, BridgeRestart
      <3>2. \A s \in batch' : Have'[s.order] <= s.rev + 1
        BY <3>1, Basics DEF OrderInv
      <3>3. \A s, t \in batch' : s.order = t.order => s.rev = t.rev
        BY <3>1 DEF OrderInv
      <3>4. \A p \in Orders : Have'[p] > 0 =>
               \E e \in TicketsOf(p)' : Have'[p] <= ticket'[e].rev + 1
        BY <2>1, <3>1 DEF OrderInv, TicketsOf
      <3> QED  BY <2>1, <2>3, <3>2, <3>3, <3>4 DEF OrderInv, Polled
    <2>5. ASSUME NEW s \in batch, BridgePrint(s) PROVE OrderInv'
      <3>1. /\ batch' \subseteq batch
            /\ Have'[s.order] = s.rev + 1
            /\ \A p \in Orders \ {s.order} : Have'[p] = Have[p]
        BY <2>5, PaperAfterPrint DEF BridgePrint
      <3>2. \A t \in batch' : Have'[t.order] <= t.rev + 1
        BY <3>1, Basics DEF OrderInv
      <3>3. \A t, u \in batch' : t.order = u.order => t.rev = u.rev
        BY <3>1 DEF OrderInv
      <3>4. ASSUME NEW p \in Orders, Have'[p] > 0
            PROVE  \E e \in TicketsOf(p)' : Have'[p] <= ticket'[e].rev + 1
        <4>1. CASE p = s.order
          <5>1. s.ticket \in Issued /\ s.order = ticket[s.ticket].order /\ s.rev = ticket[s.ticket].rev
            BY DEF OutInv
          <5> QED  BY <2>1, <3>1, <4>1, <5>1, Basics DEF TicketsOf
        <4>2. CASE p # s.order
          BY <2>1, <3>1, <3>4, <4>2 DEF OrderInv, TicketsOf
        <4> QED  BY <4>1, <4>2
      <3> QED  BY <2>1, <2>3, <3>2, <3>3, <3>4 DEF OrderInv, Polled
    <2>6. (\A s \in batch : ~BridgePrint(s)) => UNCHANGED paper
      BY <1>3 DEF BridgeNext, BridgeSkip, BridgePrintError, BridgeRecord, BridgeRestart
    <2> QED  BY <2>4, <2>5, <2>6
  <1>4. CASE UNCHANGED vars
    <2>1. UNCHANGED <<ticket, issued, lock, batch, inHand, paper>>
      BY <1>4 DEF vars, outboxVars, bridgeVars
    <2>2. Have' = Have
      BY <2>1 DEF Have, Last
    <2> QED  BY <2>1, <2>2 DEF OrderInv, TicketsOf, Polled, Idle
  <1> QED  BY <1>1, <1>2, <1>3, <1>4 DEF Next, ServerNext

(* ------------------------------ The promises ---------------------------- *)

\* A card turns green only with an answer about the order as it stands.
LEMMA TurnsGreen ==
    ASSUME TypeOK, TapInv, RevInv, OutInv, PrintedInv, OrderInv, ServerNext,
           NEW o \in Orders, handover'[o] = "sent", handover[o] # "sent"
    PROVE  Have[o] = rev[o] + 1
  <1>1. ASSUME NEW e \in Issued, AckCommit(e) PROVE Have[o] = rev[o] + 1
    <2>1. /\ lock[e] = "printed" /\ ticket[e].order = o /\ IsCurrent(e)
          /\ handover[o] \in {"pending", "failed"}
      BY <1>1 DEF AckCommit, ToSent, ToRed, TypeOK, OrderTypes
    <2>2. PICK f \in Issued : ticket[f].order = o /\ ticket[f].rev = rev[o]
      BY <2>1 DEF RevInv, TicketsOf
    <2>3. ticket[e].rev = rev[o]
      <3>1. ticket[f].rev <= ticket[e].rev /\ ticket[e].rev <= rev[o]
        BY <2>1, <2>2 DEF IsCurrent, TicketsOf, RevInv
      <3> QED  BY <2>2, <3>1, Basics
    <2>4. rev[o] < Have[o]
      BY <2>1, <2>3 DEF PrintedInv
    <2>5. PICK g \in Issued : ticket[g].order = o /\ Have[o] <= ticket[g].rev + 1
      <3>1. Have[o] > 0
        BY <2>4, HaveType, Basics
      <3> QED  BY <3>1 DEF OrderInv, TicketsOf
    <2>6. ticket[g].rev <= rev[o]
      BY <2>5 DEF RevInv
    <2>7. Have[o] \in Nat /\ rev[o] \in Nat /\ ticket[g].rev \in Nat
      BY <2>5, HaveType, Basics
    <2> QED  BY ONLY <2>4, <2>5, <2>6, <2>7
  <1>2. ASSUME NEW e \in Issued, Sweep(e) PROVE FALSE
    BY <1>2 DEF Sweep, ToRed, TypeOK, OrderTypes
  <1>3. (\A e \in Issued : ~AckCommit(e) /\ ~Sweep(e)) => handover' = handover
    BY DEF ServerNext, PollNext, AckNext, ClaimSelect, ClaimAbort, ClaimCheck, ClaimCommit,
           AckTake, AckLost, orderVars
  <1> QED  BY <1>1, <1>2, <1>3

\* Something is on paper, and Have is its revision, + 1.
LEMMA HaveMeansLast ==
    ASSUME TypeOK, NEW o \in Orders, NEW r \in Nat
    PROVE  Have[o] = r + 1 => paper[o] # <<>> /\ Last(o).rev = r
  <1>1. CASE paper[o] = <<>>
    <2>1. Have[o] = 0
      BY <1>1 DEF Have
    <2> QED  BY <2>1
  <1>2. CASE paper[o] # <<>>
    <2>1. Last(o).rev \in Nat /\ Have[o] = Last(o).rev + 1
      BY <1>2, LastType DEF Have
    <2> QED  BY <1>2, <2>1
  <1> QED  BY <1>1, <1>2

\* A step leaves no green card over an old slip.
LEMMA GreenStep ==
    Inv /\ [Next]_vars => GreenMeansNewest'
  <1> SUFFICES ASSUME Inv, [Next]_vars, NEW o \in Orders, handover'[o] = "sent"
               PROVE  paper'[o] # <<>> /\ Last(o)'.rev = rev'[o]
    BY DEF GreenMeansNewest
  <1> USE DEF Inv
  <1>0. rev[o] \in Nat
    BY Basics
  <1>1. ASSUME NEW p \in Orders, TapNext(p) PROVE paper'[o] # <<>> /\ Last(o)'.rev = rev'[o]
    <2>1. TapEffect(p) /\ UNCHANGED paper
      BY <1>1, TapHasEffect DEF TapEffect, bridgeVars
    <2>2. handover[o] = "sent" /\ rev'[o] = rev[o]
      BY <2>1 DEF TapEffect
    <2>3. paper[o] # <<>> /\ Last(o).rev = rev[o]
      BY <2>2 DEF GreenMeansNewest
    <2> QED  BY <2>1, <2>2, <2>3, SamePaper
  <1>2. CASE ServerNext
    <2>1. UNCHANGED <<rev, paper>>
      BY <1>2, ServerHasEffect DEF ServerNext
    <2>2. paper[o] # <<>> /\ Last(o).rev = rev[o]
      <3>1. CASE handover[o] = "sent"
        BY <3>1 DEF GreenMeansNewest
      <3>2. CASE handover[o] # "sent"
        BY <1>0, <1>2, <3>2, TurnsGreen, HaveMeansLast
      <3> QED  BY <3>1, <3>2
    <2> QED  BY <2>1, <2>2, SamePaper
  <1>3. CASE BridgeNext
    <2>1. UNCHANGED <<handover, rev>>
      BY <1>3, BridgeHasEffect DEF orderVars
    <2>2. paper[o] # <<>> /\ Last(o).rev = rev[o]
      BY <2>1 DEF GreenMeansNewest
    <2>3. ASSUME NEW s \in batch, BridgePrint(s)
          PROVE  paper'[o] # <<>> /\ Last(o)'.rev = rev'[o]
      <3>1. CASE o = s.order
        <4>1. Have[o] = rev[o] + 1
          BY <2>2 DEF Have
        <4>2. Have[o] <= s.rev + 1
          BY <3>1 DEF OrderInv
        <4>3. s.rev <= rev[o]
          BY <3>1 DEF OutInv, RevInv
        <4>4. s.rev = rev[o]
          BY <1>0, <4>1, <4>2, <4>3, Basics
        <4> QED  BY <2>1, <2>3, <3>1, <4>4, PaperAfterPrint
      <3>2. CASE o # s.order
        BY <2>1, <2>2, <2>3, <3>2, PaperAfterPrint
      <3> QED  BY <3>1, <3>2
    <2>4. (\A s \in batch : ~BridgePrint(s)) => UNCHANGED paper
      BY <1>3 DEF BridgeNext, BridgeSkip, BridgePrintError, BridgeRecord, BridgeRestart
    <2> QED  BY <2>1, <2>2, <2>3, <2>4, SamePaper
  <1>4. CASE UNCHANGED vars
    BY <1>4, SamePaper DEF GreenMeansNewest, vars, orderVars, bridgeVars
  <1> QED  BY <1>1, <1>2, <1>3, <1>4 DEF Next, ServerNext

\* Nothing else comes out of the printer.
LEMMA OnlyPrintPrints ==
    ASSUME Inv, [Next]_vars, \A s \in batch : ~BridgePrint(s)
    PROVE  UNCHANGED paper
  <1> USE DEF Inv
  <1>1. ASSUME NEW o \in Orders, TapNext(o) PROVE UNCHANGED paper
    BY <1>1, TapHasEffect DEF TapEffect, bridgeVars
  <1>2. ServerNext => UNCHANGED paper
    BY ServerHasEffect DEF ServerNext
  <1>3. UNCHANGED vars => UNCHANGED paper
    BY DEF vars, bridgeVars
  <1>4. BridgeNext => UNCHANGED paper
    BY DEF BridgeNext, BridgeSkip, BridgePrintError, BridgeRecord, BridgeRestart
  <1> QED  BY <1>1, <1>2, <1>3, <1>4 DEF Next, ServerNext

\* A step appends no older slip.
LEMMA PaperStep ==
    Inv /\ [Next]_vars => PaperNeverRunsBack'
  <1> SUFFICES ASSUME Inv, [Next]_vars PROVE PaperNeverRunsBack'
    OBVIOUS
  <1> USE DEF Inv
  <1>1. UNCHANGED paper => PaperNeverRunsBack'
    BY DEF PaperNeverRunsBack
  <1>2. ASSUME NEW s \in batch, BridgePrint(s),
               NEW o \in Orders, NEW i \in 1..Len(paper'[o]), NEW j \in 1..Len(paper'[o]), i < j
        PROVE  paper'[o][i].rev <= paper'[o][j].rev
    <2>1. CASE o # s.order
      <3>1. paper'[o] = paper[o]
        BY <1>2, <2>1, PaperAfterPrint
      <3> QED  BY <1>2, <3>1 DEF PaperNeverRunsBack
    <2>2. CASE o = s.order
      <3>1. /\ Len(paper'[o]) = Len(paper[o]) + 1
            /\ paper'[o][Len(paper[o]) + 1].rev = s.rev
            /\ \A k \in 1..Len(paper[o]) : paper'[o][k] = paper[o][k]
        BY <1>2, <2>2, PaperAfterPrint
      <3>2. paper[o] \in Seq(PaperSlip) /\ Len(paper[o]) \in Nat
        <4>1. paper[o] \in Seq(PaperSlip)
          BY DEF TypeOK, BridgeTypes, PaperSlip
        <4> QED  BY <4>1, LenProperties
      <3>3. i \in 1..Len(paper[o])
        BY <1>2, <3>1, <3>2
      <3>4. CASE j \in 1..Len(paper[o])
        BY <1>2, <3>1, <3>3, <3>4 DEF PaperNeverRunsBack
      <3>5. CASE j = Len(paper[o]) + 1
        <4>1. paper[o] # <<>>
          BY <3>2, <3>3, EmptySeq
        <4>2. Last(o).rev <= s.rev
          <5>1. Have[o] = Last(o).rev + 1 /\ Have[o] <= s.rev + 1
            BY <2>2, <4>1 DEF Have, OrderInv
          <5>2. Last(o).rev \in Nat
            BY <4>1, LastType
          <5> QED  BY <5>1, <5>2, Basics
        <4>3. paper[o][i].rev <= Last(o).rev
          <5>1. CASE i = Len(paper[o])
            BY <4>1, <5>1, LastType DEF Last
          <5>2. CASE i # Len(paper[o])
            BY <3>2, <3>3, <5>2 DEF PaperNeverRunsBack, Last
          <5> QED  BY <5>1, <5>2
        <4>4. paper[o][i] \in PaperSlip
          BY <3>2, <3>3, ElementOfSeq
        <4>5. paper[o][i].rev \in Nat
          BY <4>4, BoundsAreNat DEF PaperSlip
        <4>6. Last(o).rev \in Nat
          BY <4>1, LastType
        <4>7. paper'[o][i] = paper[o][i] /\ paper'[o][j].rev = s.rev
          BY <3>1, <3>3, <3>5
        <4>8. s.rev \in Nat
          BY <2>2, Basics
        <4>9. paper[o][i].rev <= s.rev
          BY ONLY <4>2, <4>3, <4>5, <4>6, <4>8
        <4> QED  BY ONLY <4>7, <4>9
      <3> QED  BY <1>2, <3>1, <3>2, <3>4, <3>5
    <2> QED  BY <2>1, <2>2
  <1>3. (\A s \in batch : ~BridgePrint(s)) => UNCHANGED paper
    BY OnlyPrintPrints
  <1> QED  BY <1>1, <1>2, <1>3 DEF PaperNeverRunsBack

(* ------------------------------ Theorems -------------------------------- *)

\* The strengthening holds at the start.
LEMMA InvInit == Init => Inv
  <1> SUFFICES ASSUME Init PROVE Inv
    OBVIOUS
  <1>1. TypeOK /\ TapInv
    BY TypeInit, TapInvInit
  <1>2. \A o \in Orders : /\ handover[o] = "none" /\ paper[o] = <<>> /\ Have[o] = 0
                          /\ logMem[o] = 0 /\ logFile[o] = 0
    BY DEF Init, Have
  <1>3. /\ Issued = {} /\ acks = {} /\ batch = {} /\ inHand = NoSlip
        /\ \A e \in Tickets : lock[e] = "free"
    BY DEF Init
  <1>4. RevInv /\ OutInv /\ PrintedInv /\ OrderInv
    BY <1>2, <1>3 DEF RevInv, OutInv, PrintedInv, OrderInv, TicketsOf, Polled
  <1>5. GreenMeansNewest /\ PaperNeverRunsBack
    BY <1>2 DEF GreenMeansNewest, PaperNeverRunsBack
  <1> QED  BY <1>1, <1>4, <1>5 DEF Inv

\* The strengthening is inductive.
LEMMA InvStep == Inv /\ [Next]_vars => Inv'
  <1> SUFFICES ASSUME Inv, [Next]_vars PROVE Inv'
    OBVIOUS
  <1>1. TypeOK /\ TapInv /\ RevInv /\ OutInv /\ PrintedInv /\ OrderInv
    BY DEF Inv
  <1>2. TypeOK' /\ TapInv'
    BY <1>1, TypeStep, TapInvStep
  <1>3. RevInv' /\ OutInv'
    BY <1>1, RevInvStep, OutInvStep
  <1>4. PrintedInv' /\ OrderInv'
    BY <1>1, PrintedInvStep, OrderInvStep
  <1>5. GreenMeansNewest' /\ PaperNeverRunsBack'
    BY GreenStep, PaperStep
  <1> QED  BY <1>2, <1>3, <1>4, <1>5 DEF Inv

\* The invariant of the handover (tickets, locks, answers, print log, paper) holds
\* in every state, whatever the bounds, failures, restarts and late answers.
THEOREM Invariance == Spec => []Inv
  BY InvInit, InvStep, PTL DEF Spec

\* Every variable keeps its type: no ticket is picked up more than MAX_ATTEMPTS
\* times, no audit count, answer or slip leaves its range (claim_tickets,
\* mark_attempt_failed).
THEOREM Typing == Spec => []TypeOK
  <1>1. Inv => TypeOK
    BY DEF Inv
  <1> QED  BY Invariance, <1>1, PTL

\* A green card is true: the last slip out of the printer is the order as it stands
\* (_to_sent, _is_current, ack_ticket).
THEOREM GreenIsTrue == Spec => []GreenMeansNewest
  <1>1. Inv => GreenMeansNewest
    BY DEF Inv
  <1> QED  BY Invariance, <1>1, PTL

\* The slips of an order come out oldest state first (claim_tickets,
\* PrintedLog.already).
THEOREM PaperInOrder == Spec => []PaperNeverRunsBack
  <1>1. Inv => PaperNeverRunsBack
    BY DEF Inv
  <1> QED  BY Invariance, <1>1, PTL

(* --------------------------- No slip twice ------------------------------ *)

\* Where nothing is printed, recorded or restarted, the log knows what it knew.
LEMMA LogStays ==
    ASSUME LogKnows, UNCHANGED <<paper, inHand, logMem>>, crashes' = 0 => crashes = 0
    PROVE  LogKnows'
  BY SamePaper DEF LogKnows, Have

\* Only the bridge touches its log, and a restart is counted.
LEMMA LogKnowsStep == Inv /\ LogKnows /\ [Next]_vars => LogKnows'
  <1> SUFFICES ASSUME Inv, LogKnows, [Next]_vars, crashes' = 0 PROVE LogKnows'
    BY DEF LogKnows
  <1> USE DEF Inv
  <1>0. crashes \in Nat
    BY BoundsAreNat DEF TypeOK, FaultTypes
  <1>1. ASSUME NEW o \in Orders, TapNext(o) PROVE LogKnows'
    <2>1. UNCHANGED <<bridgeVars, crashes>>
      BY <1>1, TapHasEffect DEF TapEffect, TapNext, Confirm, Approve, Resend, CorrectBegin,
         CorrectCommit, CancelBegin, CancelAsk, CancelCommit, faultVars
    <2> QED  BY <2>1, LogStays DEF bridgeVars
  <1>2. CASE ServerNext
    <2>1. UNCHANGED <<paper, inHand, logMem>>
      BY <1>2 DEF ServerNext, PollNext, AckNext, ClaimSelect, ClaimAbort, ClaimCheck, ClaimCommit,
         AckTake, AckLost, AckCommit, Sweep, bridgeVars
    <2>2. crashes' = 0 => crashes = 0
      BY <1>0, <1>2 DEF ServerNext, PollNext, AckNext, ClaimSelect, ClaimAbort, ClaimCheck,
         ClaimCommit, AckTake, AckLost, AckCommit, Sweep, faultVars
    <2> QED  BY <2>1, <2>2, LogStays
  <1>3. ASSUME NEW s \in batch, BridgeSkip(s) \/ BridgePrintError(s) PROVE LogKnows'
    BY <1>3, LogStays DEF BridgeSkip, BridgePrintError, faultVars
  <1>4. ASSUME NEW s \in batch, BridgePrint(s) PROVE LogKnows'
    <2>1. /\ crashes = 0 /\ inHand = NoSlip /\ inHand' = s /\ logMem' = logMem
      BY <1>4 DEF BridgePrint, NextInBatch, faultVars
    <2>2. \A o \in Orders : Have[o] = logMem[o]
      BY <2>1 DEF LogKnows
    <2>3. Have'[s.order] = s.rev + 1 /\ \A o \in Orders \ {s.order} : Have'[o] = Have[o]
      BY <1>4, PaperAfterPrint
    <2>4. s # NoSlip
      BY DEF TypeOK, BridgeTypes, Slip, NoSlip
    <2> QED  BY <2>1, <2>2, <2>3, <2>4 DEF LogKnows
  <1>5. ASSUME NEW saved \in BOOLEAN, BridgeRecord(saved) PROVE LogKnows'
    <2>1. /\ crashes = 0 /\ inHand # NoSlip /\ inHand' = NoSlip /\ UNCHANGED paper
          /\ logMem' = [logMem EXCEPT ![inHand.order] = inHand.rev + 1]
      BY <1>5 DEF BridgeRecord
    <2>2. \A o \in Orders : Have'[o] = Have[o]
      BY <2>1, SamePaper
    <2>3. inHand.order \in Orders /\ logMem \in [Orders -> 0..(MaxRevision + 1)]
      BY <2>1, Basics DEF TypeOK, BridgeTypes
    <2>4. \A o \in Orders : Have'[o] = logMem'[o]
      BY <2>1, <2>2, <2>3 DEF LogKnows
    <2> QED  BY <2>1, <2>4 DEF LogKnows
  <1>6. CASE BridgeRestart
    BY <1>0, <1>6 DEF BridgeRestart
  <1>7. CASE UNCHANGED vars
    BY <1>7, LogStays DEF vars, bridgeVars, faultVars
  <1> QED  BY <1>1, <1>2, <1>3, <1>4, <1>5, <1>6, <1>7 DEF Next, ServerNext, BridgeNext

\* A bridge that has not restarted after a step had not before.
LEMMA CrashesStay == ASSUME TypeOK, [Next]_vars, crashes' = 0 PROVE crashes = 0
  <1>1. crashes \in Nat
    BY BoundsAreNat DEF TypeOK, FaultTypes
  <1>2. crashes' = crashes \/ crashes' = crashes + 1
    BY DEF Next, TapNext, PollNext, AckNext, BridgeNext, Confirm, Approve, Resend, CorrectBegin,
       CorrectCommit, CancelBegin, CancelAsk, CancelCommit, ClaimSelect, ClaimAbort,
       ClaimCheck, ClaimCommit, AckTake, AckLost, AckCommit, Sweep, BridgeSkip, BridgePrint,
       BridgePrintError, BridgeRecord, BridgeRestart, faultVars, vars
  <1> QED  BY <1>1, <1>2

\* A slip that comes out is newer than every one of its order before.
LEMMA NoSecondSlipStep == Inv /\ LogKnows /\ NoSecondSlip /\ [Next]_vars => NoSecondSlip'
  <1> SUFFICES ASSUME Inv, LogKnows, NoSecondSlip, [Next]_vars, crashes' = 0,
                      NEW o \in Orders, NEW i \in 1..Len(paper'[o]), NEW j \in 1..Len(paper'[o]),
                      i < j
               PROVE  paper'[o][i].rev < paper'[o][j].rev
    BY DEF NoSecondSlip
  <1> USE DEF Inv
  <1>0. crashes = 0
    BY CrashesStay
  <1>1. UNCHANGED paper => paper'[o][i].rev < paper'[o][j].rev
    BY <1>0 DEF NoSecondSlip
  <1>2. ASSUME NEW s \in batch, BridgePrint(s) PROVE paper'[o][i].rev < paper'[o][j].rev
    <2>1. CASE o # s.order
      <3>1. paper'[o] = paper[o]
        BY <1>2, <2>1, PaperAfterPrint
      <3> QED  BY <1>0, <3>1 DEF NoSecondSlip
    <2>2. CASE o = s.order
      <3>1. /\ Len(paper'[o]) = Len(paper[o]) + 1
            /\ paper'[o][Len(paper[o]) + 1].rev = s.rev
            /\ \A k \in 1..Len(paper[o]) : paper'[o][k] = paper[o][k]
        BY <1>2, <2>2, PaperAfterPrint
      <3>2. paper[o] \in Seq(PaperSlip) /\ Len(paper[o]) \in Nat
        <4>1. paper[o] \in Seq(PaperSlip)
          BY DEF TypeOK, BridgeTypes, PaperSlip
        <4> QED  BY <4>1, LenProperties
      <3>3. i \in 1..Len(paper[o])
        BY <3>1, <3>2
      <3>4. CASE j \in 1..Len(paper[o])
        BY <1>0, <3>1, <3>3, <3>4 DEF NoSecondSlip
      <3>5. CASE j = Len(paper[o]) + 1
        <4>1. paper[o] # <<>>
          BY <3>2, <3>3, EmptySeq
        <4>2. Last(o).rev < s.rev
          <5>1. inHand = NoSlip /\ ~(logMem[o] > s.rev)
            BY <1>2, <2>2 DEF BridgePrint, NextInBatch, Already
          <5>2. Have[o] = logMem[o] /\ Have[o] = Last(o).rev + 1
            BY <1>0, <4>1, <5>1 DEF LogKnows, Have
          <5>3. Last(o).rev \in Nat /\ s.rev \in Nat
            BY <4>1, LastType, Basics
          <5> QED  BY <5>1, <5>2, <5>3
        <4>3. paper[o][i].rev <= Last(o).rev
          <5>1. CASE i = Len(paper[o])
            BY <4>1, <5>1, LastType DEF Last
          <5>2. CASE i # Len(paper[o])
            BY <3>2, <3>3, <5>2 DEF PaperNeverRunsBack, Last
          <5> QED  BY <5>1, <5>2
        <4>4. paper[o][i] \in PaperSlip
          BY <3>2, <3>3, ElementOfSeq
        <4>5. paper[o][i].rev \in Nat
          BY <4>4, BoundsAreNat DEF PaperSlip
        <4>6. Last(o).rev \in Nat /\ s.rev \in Nat
          BY <2>2, <4>1, LastType, Basics
        <4>7. paper'[o][i] = paper[o][i] /\ paper'[o][j].rev = s.rev
          BY <3>1, <3>3, <3>5
        <4>8. paper[o][i].rev < s.rev
          BY ONLY <4>2, <4>3, <4>5, <4>6
        <4> QED  BY ONLY <4>7, <4>8
      <3> QED  BY <3>1, <3>2, <3>4, <3>5
    <2> QED  BY <2>1, <2>2
  <1>3. (\A s \in batch : ~BridgePrint(s)) => UNCHANGED paper
    BY OnlyPrintPrints
  <1> QED  BY <1>1, <1>2, <1>3

\* No state of an order comes out of the printer twice while the bridge keeps running
\* (PrintedLog.already, PrintedLog.record).
THEOREM NothingTwice == Spec => []NoSecondSlip
  <1>1. Init => LogKnows /\ NoSecondSlip
    BY DEF Init, LogKnows, NoSecondSlip, Have
  <1>2. Inv /\ LogKnows /\ NoSecondSlip /\ [Next]_vars => LogKnows' /\ NoSecondSlip'
    BY LogKnowsStep, NoSecondSlipStep
  <1> QED  BY <1>1, <1>2, Invariance, PTL DEF Spec

(* ------------------------------- The card ------------------------------ *)

\* The handover implements the card of KitchenCard: each of its steps is a step of the
\* card or leaves it alone.
CardVars == <<rev, Have, handover>>

\* The handover starts as a blank card.
LEMMA CardInit == Init => Card!Init
  BY DEF Init, Card!Init, Have

\* A slip is a slip of the card: not newer than the order, not older than the last.
LEMMA PrintIsSlipOut ==
    ASSUME Inv, NEW s \in batch, BridgePrint(s)
    PROVE  Card!SlipOut(s.order)
  <1> USE DEF Inv
  <1>1. s.order \in Orders /\ s.rev \in Nat /\ Have[s.order] <= s.rev + 1
    BY Basics DEF OrderInv
  <1>2. s.rev <= rev[s.order] /\ rev[s.order] \in Nat
    BY <1>1, Basics DEF OutInv, RevInv
  <1>3. Have' = [Have EXCEPT ![s.order] = s.rev + 1]
    <2>1. /\ Have'[s.order] = s.rev + 1
          /\ \A o \in Orders \ {s.order} : Have'[o] = Have[o]
      BY PaperAfterPrint
    <2>2. /\ Have = [o \in Orders |-> Have[o]]
          /\ Have' = [o \in Orders |-> Have'[o]]
      BY DEF Have
    <2> QED  BY <1>1, <2>1, <2>2
  <1>4. UNCHANGED <<rev, handover>>
    BY DEF BridgePrint, orderVars
  <1>5. Have[s.order] \in Nat
    BY <1>1, HaveType
  <1>6. s.rev \in 0..rev[s.order] /\ s.rev + 1 >= Have[s.order]
    BY <1>1, <1>2, <1>5
  <1> QED  BY <1>3, <1>4, <1>6 DEF Card!SlipOut

\* A tap on the tablet is a step of the card.
LEMMA TapIsCardStep ==
    ASSUME Inv, NEW o \in Orders, TapNext(o)
    PROVE  Card!Send(o) \/ Card!Change(o) \/ UNCHANGED CardVars
  <1> USE DEF Inv
  <1>0. /\ handover \in [Orders -> {"none", "pending", "sent", "failed"}]
        /\ rev \in [Orders -> Revisions]
    BY DEF TypeOK, OrderTypes
  <1>1. UNCHANGED paper => UNCHANGED Have
    BY DEF Have, Last
  <1>2. UNCHANGED Have
    BY <1>1, TapHasEffect DEF TapEffect, bridgeVars
  <1>3. ASSUME NEW direct \in BOOLEAN, Confirm(o, direct) PROVE Card!Send(o) \/ UNCHANGED CardVars
    BY <1>0, <1>2, <1>3 DEF Confirm, Card!Send, CardVars, TapInv
  <1>4. CASE Approve(o)
    BY <1>0, <1>2, <1>4 DEF Approve, Card!Send, CardVars
  <1>5. CASE Resend(o)
    BY <1>0, <1>2, <1>5 DEF Resend, Card!Send, CardVars
  <1>6. CASE CorrectBegin(o) \/ CancelBegin(o) \/ CancelAsk(o)
    BY <1>2, <1>6 DEF CorrectBegin, CancelBegin, CancelAsk, CardVars
  <1>7. ASSUME CorrectCommit(o) \/ CancelCommit(o) PROVE Card!Change(o)
    <2>1. tap[o] # "free" /\ rev[o] < MaxRevision
      BY <1>7 DEF CorrectCommit, CancelCommit, TapInv
    <2>2. rev' = [rev EXCEPT ![o] = @ + 1]
      BY <1>7 DEF CorrectCommit, CancelCommit
    <2>3. \E colour \in {"none", "pending"} : handover' = [handover EXCEPT ![o] = colour]
      <3>1. CASE CorrectCommit(o) /\ tap[o] = "quiet"
        <4>1. handover' = handover /\ handover[o] = "none"
          BY <3>1 DEF CorrectCommit, TapInv
        <4> QED  BY <1>0, <4>1
      <3>2. CASE CorrectCommit(o) /\ tap[o] # "quiet"
        BY <3>2 DEF CorrectCommit
      <3>3. CASE CancelCommit(o)
        BY <3>3 DEF CancelCommit
      <3> QED  BY <1>7, <3>1, <3>2, <3>3
    <2> QED  BY <1>2, <2>1, <2>2, <2>3 DEF Card!Change
  <1> QED  BY <1>3, <1>4, <1>5, <1>6, <1>7 DEF TapNext

\* A poll, an answer or the watchdog is a step of the card or none.
LEMMA ServerIsCardStep ==
    ASSUME Inv, ServerNext
    PROVE  (\E o \in Orders : Card!Arrived(o) \/ Card!Alarm(o)) \/ UNCHANGED CardVars
  <1> USE DEF Inv
  <1>0. handover \in [Orders -> {"none", "pending", "sent", "failed"}]
    BY DEF TypeOK, OrderTypes
  <1>1. UNCHANGED paper => UNCHANGED Have
    BY DEF Have, Last
  <1>2. UNCHANGED <<rev, Have>>
    BY <1>1, ServerHasEffect DEF ServerNext
  <1>3. ASSUME NEW e \in Issued, ToRed(e) PROVE Card!Alarm(ticket[e].order) \/ UNCHANGED CardVars
    BY <1>2, <1>3 DEF ToRed, Card!Alarm, CardVars
  <1>4. ASSUME NEW e \in Issued, AckCommit(e), ToSent(e)
        PROVE  Card!Arrived(ticket[e].order) \/ UNCHANGED CardVars
    <2>1. CASE handover' = handover
      BY <1>2, <2>1 DEF CardVars
    <2>2. CASE handover' # handover
      <3>1. ticket[e].order \in Orders
        BY Basics
      <3>2. /\ handover[ticket[e].order] \in {"pending", "failed"}
            /\ handover' = [handover EXCEPT ![ticket[e].order] = "sent"]
        BY <1>4, <2>2 DEF ToSent
      <3>3. handover'[ticket[e].order] = "sent"
        BY <1>0, <3>1, <3>2
      <3>4. Have[ticket[e].order] = rev[ticket[e].order] + 1
        BY <3>1, <3>2, <3>3, TurnsGreen
      <3> QED  BY <1>2, <3>2, <3>4 DEF Card!Arrived
    <2> QED  BY <2>1, <2>2
  <1>5. ASSUME NEW e \in Issued, AckCommit(e) PROVE ToRed(e) \/ ToSent(e)
    BY <1>5 DEF AckCommit
  <1>6. ASSUME NEW e \in Issued, Sweep(e) PROVE ToRed(e) \/ handover' = handover
    BY <1>6 DEF Sweep
  <1>7. (\A e \in Issued : ~AckCommit(e) /\ ~Sweep(e)) => handover' = handover
    BY DEF ServerNext, PollNext, AckNext, ClaimSelect, ClaimAbort, ClaimCheck, ClaimCommit,
           AckTake, AckLost, orderVars
  <1>8. handover' = handover => UNCHANGED CardVars
    BY <1>2 DEF CardVars
  <1>9. \A e \in Issued : ticket[e].order \in Orders
    BY Basics
  <1> QED  BY <1>3, <1>4, <1>5, <1>6, <1>7, <1>8, <1>9

\* Every step of the handover is a step of the card or none.
LEMMA CardStep == Inv /\ [Next]_vars => [Card!Next]_(Card!cardVars)
  <1> SUFFICES ASSUME Inv, [Next]_vars
               PROVE  Card!Next \/ UNCHANGED CardVars
    BY DEF CardVars, Card!cardVars
  <1>1. ASSUME NEW o \in Orders, TapNext(o) PROVE Card!Next \/ UNCHANGED CardVars
    BY <1>1, TapIsCardStep DEF Card!Next
  <1>2. CASE ServerNext
    BY <1>2, ServerIsCardStep DEF Card!Next
  <1>3. ASSUME NEW s \in batch, BridgePrint(s) PROVE Card!Next
    <2>1. s.order \in Orders
      BY Basics DEF Inv
    <2> QED  BY <1>3, <2>1, PrintIsSlipOut DEF Card!Next
  <1>4. CASE (BridgeNext /\ \A s \in batch : ~BridgePrint(s)) \/ UNCHANGED vars
    <2>1. UNCHANGED <<rev, handover, paper>>
      BY <1>4 DEF BridgeNext, BridgeSkip, BridgePrintError, BridgeRecord, BridgeRestart,
                  vars, orderVars, bridgeVars
    <2> QED  BY <2>1 DEF CardVars, Have, Last
  <1> QED  BY <1>1, <1>2, <1>3, <1>4 DEF Next, ServerNext

\* The handover implements the card's promise: green only with the order as it
\* stands at the printer, red only from yellow, no older slip after a newer one
\* (KitchenCard, which the tablet's cards show).
THEOREM Refinement == Spec => ImplementsCard
  <1>1. Spec => []Inv
    BY Invariance
  <1> QED  BY <1>1, CardInit, CardStep, PTL DEF Spec, ImplementsCard, Card!Spec

(* --------------------- A cancelled slip has a note ---------------------- *)

PollLocked == {"claim", "hand", "drop"}

\* What the poll, an answer or the watchdog may do to a row.
RowOfServer(e) ==
    \/ ticket'[e] = ticket[e] /\ lock'[e] = lock[e]
    \/ /\ ticket'[e] = ticket[e] /\ ticket[e].status = "pending"
       /\ lock[e] = "free" /\ lock'[e] = "claim"
       /\ Idle /\ \A a \in acks : a.ticket # e
    \/ ticket'[e] = ticket[e] /\ lock[e] = "claim" /\ lock'[e] \in {"hand", "drop"}
    \/ ticket'[e] = PickedUp(ticket[e]) /\ lock[e] = "hand" /\ lock'[e] = "free"
    \/ ticket'[e] = Superseded(ticket[e]) /\ lock[e] = "drop" /\ lock'[e] = "free"
    \/ /\ ticket'[e] = ticket[e] /\ ticket[e].status = "pending" /\ lock[e] = "free"
       /\ \E a \in acks : a.ticket = e /\ lock'[e] = IF a.ok THEN "printed" ELSE "misprinted"
    \/ ticket'[e] = MarkSent(ticket[e]) /\ lock[e] = "printed" /\ lock'[e] = "free"
    \/ ticket'[e] = MarkAttemptFailed(ticket[e]) /\ lock[e] = "misprinted" /\ lock'[e] = "free"
    \/ /\ ticket[e].status = "pending" /\ lock[e] = "free" /\ lock'[e] = "free"
       /\ \/ ticket'[e] = [ticket[e] EXCEPT !.status = "failed"]
          \/ ticket'[e] = Superseded(ticket[e])

\* While no poll rolls back and answers come in time, it does nothing else.
LEMMA ServerRows ==
    ASSUME TypeOK, TapInv, OutInv, ~LateAcks, crashes' = 0, ServerNext, NEW e \in Issued
    PROVE  RowOfServer(e)
  <1> USE BoundsAreNat
  <1>0. /\ lock \in [Tickets -> Locks] /\ ticket \in Rows /\ issued \in 0..MaxTickets
        /\ e \in Tickets /\ crashes \in Nat
    BY Basics DEF TypeOK, FaultTypes
  <1>1. CASE ClaimSelect
    <2>1. ticket' = ticket
      BY <1>1 DEF ClaimSelect
    <2>2. PICK rows \in SUBSET Claimable :
             /\ Idle
             /\ lock' = [f \in Tickets |-> IF f \in rows THEN "claim" ELSE lock[f]]
      BY <1>1 DEF ClaimSelect
    <2>3. CASE e \in rows
      <3>1. e \in Claimable
        BY <2>3
      <3>2. ticket[e].status = "pending" /\ TimeIsUp(e) /\ lock[e] = "free"
        BY <3>1 DEF Claimable
      <3>3. \A a \in acks : a.ticket # e
        BY <3>2 DEF TimeIsUp, InFlight
      <3> QED  BY <1>0, <2>1, <2>2, <2>3, <3>2, <3>3 DEF RowOfServer
    <2>4. CASE e \notin rows
      BY <1>0, <2>1, <2>2, <2>4 DEF RowOfServer
    <2> QED  BY <2>3, <2>4
  <1>2. ASSUME NEW f \in Issued, ClaimCheck(f) PROVE RowOfServer(e)
    <2>1. /\ ticket' = ticket /\ lock[f] = "claim"
          /\ lock' = [lock EXCEPT ![f] = IF IsCurrent(f) THEN "hand" ELSE "drop"]
      BY <1>2 DEF ClaimCheck
    <2> QED  BY <1>0, <2>1 DEF RowOfServer
  <1>3. ASSUME NEW delivered \in BOOLEAN, ClaimCommit(delivered) PROVE RowOfServer(e)
    BY <1>0, <1>3 DEF ClaimCommit, RowOfServer
  <1>4. CASE ClaimAbort
    BY <1>0, <1>4 DEF ClaimAbort
  <1>5. ASSUME NEW a \in acks, AckTake(a) PROVE RowOfServer(e)
    <2>1. /\ ticket' = ticket /\ lock[a.ticket] = "free" /\ a.ticket \in Tickets
          /\ lock' = IF ticket[a.ticket].status = "pending"
                     THEN [lock EXCEPT ![a.ticket] = IF a.ok THEN "printed" ELSE "misprinted"]
                     ELSE lock
      BY <1>5, Basics DEF AckTake
    <2>2. CASE a.ticket = e /\ ticket[e].status = "pending"
      <3>1. lock'[e] = IF a.ok THEN "printed" ELSE "misprinted"
        BY <1>0, <2>1, <2>2
      <3> QED  BY <2>1, <2>2, <3>1 DEF RowOfServer
    <2>3. CASE ~(a.ticket = e /\ ticket[e].status = "pending")
      <3>1. lock'[e] = lock[e]
        BY <1>0, <2>1, <2>3
      <3> QED  BY <2>1, <3>1 DEF RowOfServer
    <2> QED  BY <2>2, <2>3
  <1>6. ASSUME NEW f \in Issued, AckCommit(f) PROVE RowOfServer(e)
    <2>1. /\ lock' = [lock EXCEPT ![f] = "free"] /\ f \in Tickets
          /\ \/ lock[f] = "printed" /\ ticket' = [ticket EXCEPT ![f] = MarkSent(ticket[f])]
             \/ lock[f] = "misprinted" /\ ticket' = [ticket EXCEPT ![f] = MarkAttemptFailed(ticket[f])]
      BY <1>6, Basics DEF AckCommit
    <2> QED  BY <1>0, <2>1 DEF RowOfServer, Rows
  <1>7. ASSUME NEW a \in acks, AckLost(a) PROVE RowOfServer(e)
    BY <1>7 DEF AckLost, outboxVars, RowOfServer
  <1>8. ASSUME NEW f \in Issued, Sweep(f) PROVE RowOfServer(e)
    <2>1. /\ lock' = lock /\ lock[f] = "free" /\ ticket[f].status = "pending"
          /\ \/ ticket' = ticket
             \/ ticket' = [ticket EXCEPT ![f] = [ticket[f] EXCEPT !.status = "failed"]]
             \/ ticket' = [ticket EXCEPT ![f] = Superseded(ticket[f])]
      BY <1>8 DEF Sweep
    <2> QED  BY <1>0, <2>1 DEF RowOfServer, Rows
  <1> QED  BY <1>1, <1>2, <1>3, <1>4, <1>5, <1>6, <1>7, <1>8 DEF ServerNext, PollNext, AckNext

\* What marking a ticket does to it.
LEMMA MarkedTickets ==
    ASSUME NEW t \in Ticket
    PROVE  /\ \A m \in {PickedUp(t), Superseded(t), MarkSent(t), MarkAttemptFailed(t),
                        [t EXCEPT !.status = "failed"]} :
                 /\ m.order = t.order /\ m.rev = t.rev /\ m.reason = t.reason
                 /\ m.status = "pending" => m.error \in {t.error, "none", "print"}
           /\ PickedUp(t).attempts > 0 /\ PickedUp(t).error = "none"
           /\ PickedUp(t).status = t.status
           /\ Superseded(t).status = "sent" /\ MarkSent(t).status = "sent"
           /\ Superseded(t).attempts = t.attempts
           /\ t.attempts > 0 /\ t.error = "none" => Superseded(t).error = "unanswered"
           /\ MarkSent(t).attempts = t.attempts /\ MarkSent(t).error = "none"
           /\ MarkAttemptFailed(t).attempts = t.attempts
           /\ MarkAttemptFailed(t).error = "print"
           /\ [t EXCEPT !.status = "failed"].attempts = t.attempts
           /\ [t EXCEPT !.status = "failed"].error = t.error
           /\ [t EXCEPT !.status = "failed"].status = "failed"
  <1>1. t.attempts \in Nat
    BY DEF Ticket
  <1> QED  BY <1>1 DEF Ticket, PickedUp, Superseded, MarkSent, MarkAttemptFailed

\* What the invariants need of a row the server touched.
LEMMA RowKeeps ==
    ASSUME TypeOK, TapInv, OutInv, TicketInv, NEW e \in Issued, RowOfServer(e)
    PROVE  /\ /\ ticket'[e].order = ticket[e].order /\ ticket'[e].rev = ticket[e].rev
              /\ ticket'[e].reason = ticket[e].reason
           /\ ticket'[e].status = "pending" => ticket'[e].error \in {"none", "print"}
           /\ lock'[e] # "free" => ticket'[e] = ticket[e] /\ ticket[e].status = "pending"
           /\ lock'[e] = "withdraw" <=> lock[e] = "withdraw"
           /\ Held(ticket[e]) /\ lock[e] # "misprinted" => Held(ticket'[e])
           /\ lock'[e] = "misprinted" =>
                 lock[e] = "misprinted" \/ \E a \in acks : a.ticket = e /\ ~a.ok
           /\ ~Held(ticket[e]) /\ (ticket[e].status = "pending" => lock[e] = "withdraw") =>
                 ticket'[e] = ticket[e] /\ lock'[e] = lock[e]
           /\ lock'[e] \in PollLocked =>
                 lock[e] \in PollLocked \/ (Idle /\ \A a \in acks : a.ticket # e)
           /\ ticket'[e].status = "pending" /\ ticket'[e].attempts = 0
              /\ lock'[e] \notin PollLocked \cup {"withdraw"} =>
                 /\ ticket[e].status = "pending" /\ ticket[e].attempts = 0
                 /\ lock[e] \notin PollLocked \cup {"withdraw"}
           /\ lock[e] = "free" /\ ~Idle /\ (\A a \in acks : a.ticket # e) => lock'[e] = "free"
  <1>0. /\ ticket[e] \in Ticket /\ ticket[e].attempts \in Nat
        /\ lock[e] \in Locks
        /\ lock[e] # "free" => ticket[e].status = "pending"
        /\ ticket[e].status = "pending" => ticket[e].error \in {"none", "print"}
        /\ lock[e] = "withdraw" => ~Held(ticket[e])
        /\ lock[e] \in {"printed", "misprinted"} => ticket[e].attempts > 0
    BY Basics DEF TicketInv, OutInv
  <1> DEFINE t == ticket[e]
             u == ticket'[e]
  <1>1. CASE u = t /\ lock'[e] = lock[e]
    BY <1>0, <1>1
  <1>2. CASE /\ u = t /\ t.status = "pending" /\ lock[e] = "free" /\ lock'[e] = "claim"
             /\ Idle /\ \A a \in acks : a.ticket # e
    BY <1>0, <1>2 DEF PollLocked
  <1>3. CASE u = t /\ lock[e] = "claim" /\ lock'[e] \in {"hand", "drop"}
    BY <1>0, <1>3 DEF PollLocked
  <1>4. CASE u = PickedUp(t) /\ lock[e] = "hand" /\ lock'[e] = "free"
    BY <1>0, <1>4, MarkedTickets DEF PollLocked, Held
  <1>5. CASE u = Superseded(t) /\ lock[e] = "drop" /\ lock'[e] = "free"
    BY <1>0, <1>5, MarkedTickets DEF PollLocked, Held
  <1>6. CASE /\ u = t /\ t.status = "pending" /\ lock[e] = "free"
             /\ \E a \in acks : a.ticket = e /\ lock'[e] = IF a.ok THEN "printed" ELSE "misprinted"
    BY <1>0, <1>6, Basics DEF PollLocked, OutInv
  <1>7. CASE u = MarkSent(t) /\ lock[e] = "printed" /\ lock'[e] = "free"
    BY <1>0, <1>7, MarkedTickets DEF PollLocked, Held
  <1>8. CASE u = MarkAttemptFailed(t) /\ lock[e] = "misprinted" /\ lock'[e] = "free"
    BY <1>0, <1>8, MarkedTickets DEF PollLocked, Held
  <1>9. CASE /\ t.status = "pending" /\ lock[e] = "free" /\ lock'[e] = "free"
             /\ u = Superseded(t)
    BY <1>0, <1>9, MarkedTickets DEF PollLocked, Held
  <1>10. CASE /\ t.status = "pending" /\ lock[e] = "free" /\ lock'[e] = "free"
              /\ u = [t EXCEPT !.status = "failed"]
    BY <1>0, <1>10, MarkedTickets DEF PollLocked, Held
  <1> QED  BY <1>1, <1>2, <1>3, <1>4, <1>5, <1>6, <1>7, <1>8, <1>9, <1>10 DEF RowOfServer

\* What the server takes in and hands out.
LEMMA ServerWires ==
    ASSUME TypeOK, TapInv, ServerNext
    PROVE  /\ acks' \subseteq acks
           /\ UNCHANGED <<issued, inHand, paper, status, rev, tap>>
           /\ \A o \in Orders : handover'[o] = "none" => handover[o] = "none"
           /\ \/ batch' = batch
              \/ /\ Polled({"hand", "drop"}) # {}
                 /\ batch' = {SlipOf(e) : e \in Polled({"hand"})}
                 /\ \A e \in Polled({"hand"}) :
                       ticket'[e] = PickedUp(ticket[e]) /\ lock'[e] = "free"
  <1> USE BoundsAreNat
  <1>1. acks' \subseteq acks
    BY DEF ServerNext, PollNext, AckNext, ClaimSelect, ClaimAbort, ClaimCheck,
           ClaimCommit, AckTake, AckLost, AckCommit, Sweep
  <1>2. UNCHANGED <<issued, inHand, paper, status, rev, tap>>
    BY ServerHasEffect DEF ServerNext, KeepsRows
  <1>3. ASSUME NEW o \in Orders, handover'[o] = "none" PROVE handover[o] = "none"
    <2>1. handover \in [Orders -> {"none", "pending", "sent", "failed"}]
      BY DEF TypeOK, OrderTypes
    <2>2. \/ handover' = handover
          \/ \E p \in Orders, colour \in {"sent", "failed"} :
                handover' = [handover EXCEPT ![p] = colour]
      BY Basics DEF ServerNext, PollNext, AckNext, ClaimSelect, ClaimAbort, ClaimCheck,
           ClaimCommit, AckTake, AckLost, AckCommit, Sweep, orderVars, ToRed, ToSent
    <2> QED  BY <1>3, <2>1, <2>2
  <1>4. ASSUME NEW delivered \in BOOLEAN, ClaimCommit(delivered), batch' # batch
        PROVE  /\ Polled({"hand", "drop"}) # {}
               /\ batch' = {SlipOf(e) : e \in Polled({"hand"})}
               /\ \A e \in Polled({"hand"}) :
                     ticket'[e] = PickedUp(ticket[e]) /\ lock'[e] = "free"
    BY <1>4, Basics DEF ClaimCommit, Polled
  <1>5. (\A delivered \in BOOLEAN : ~ClaimCommit(delivered)) => batch' = batch
    BY DEF ServerNext, PollNext, AckNext, ClaimSelect, ClaimAbort, ClaimCheck,
           AckTake, AckLost, AckCommit, Sweep, bridgeVars
  <1> QED  BY <1>1, <1>2, <1>3, <1>4, <1>5

\* The poll, the answers and the watchdog keep the note.
LEMMA ServerKeepsNote ==
    ASSUME Inv, TicketInv, PickupInv, SlipInv, GoneInv, ReasonInv,
           ~LateAcks, crashes' = 0, ServerNext
    PROVE  TicketInv' /\ PickupInv' /\ SlipInv' /\ GoneInv' /\ ReasonInv'
  <1> USE DEF Inv
  <1>0. \A e \in Issued : RowOfServer(e)
    BY ServerRows
  <1>1. /\ acks' \subseteq acks
        /\ UNCHANGED <<issued, inHand, paper, status, rev, tap>>
        /\ \A o \in Orders : handover'[o] = "none" => handover[o] = "none"
    BY ServerWires
  <1>2. \A e \in Issued : /\ e \in Tickets /\ ticket[e].order \in Orders
                          /\ ticket'[e].order = ticket[e].order /\ ticket'[e].rev = ticket[e].rev
                          /\ ticket'[e].reason = ticket[e].reason
    BY <1>0, RowKeeps, Basics
  <1>3. TicketInv'
    <2>1. ASSUME NEW e \in Issued
          PROVE  /\ ticket'[e].status = "pending" => ticket'[e].error \in {"none", "print"}
                 /\ lock'[e] # "free" => ticket'[e].status = "pending"
                 /\ lock'[e] = "withdraw" =>
                       tap'[ticket'[e].order] \in {"taken", "note", "gone"} /\ ~Held(ticket'[e])
      <3>1. /\ ticket'[e].status = "pending" => ticket'[e].error \in {"none", "print"}
            /\ lock'[e] # "free" => ticket'[e] = ticket[e] /\ ticket[e].status = "pending"
            /\ lock'[e] = "withdraw" => lock[e] = "withdraw"
        BY <1>0, RowKeeps
      <3> QED  BY <1>1, <3>1 DEF TicketInv
    <2> QED  BY <1>1, <2>1 DEF TicketInv, Held
  <1>4. PickupInv'
    <2>1. ASSUME NEW s \in Handed
          PROVE  /\ s.ticket \in Issued
                 /\ s = SlipOf(s.ticket)' /\ Held(ticket'[s.ticket]) /\ lock'[s.ticket] = "free"
      <3>1. /\ s.ticket \in Issued /\ s = SlipOf(s.ticket)
            /\ Held(ticket[s.ticket]) /\ lock[s.ticket] = "free"
            /\ \A a \in acks : a.ticket # s.ticket
        BY DEF OutInv, PickupInv, Handed
      <3>2. ~Idle
        BY DEF Handed, Idle
      <3>3. lock'[s.ticket] = "free" /\ Held(ticket'[s.ticket])
        BY <1>0, <3>1, <3>2, RowKeeps
      <3> QED  BY <1>2, <3>1, <3>3 DEF SlipOf
    <2>2. CASE batch' = batch
      <3>1. Handed' = Handed
        BY <1>1, <2>2 DEF Handed
      <3>2. ASSUME NEW a \in acks'
            PROVE  lock'[a.ticket] \notin {"claim", "hand", "drop"} /\ \A s \in Handed : s.ticket # a.ticket
        <4>1. a \in acks /\ a.ticket \in Issued /\ lock[a.ticket] \notin PollLocked
          BY <1>1 DEF PickupInv, PollLocked, OutInv
        <4>2. lock'[a.ticket] \notin PollLocked
          BY <1>0, <4>1, RowKeeps
        <4> QED  BY <4>1, <4>2 DEF PickupInv, PollLocked
      <3> QED  BY <1>1, <2>1, <2>2, <3>1, <3>2 DEF PickupInv
    <2>3. CASE batch' # batch
      <3>1. /\ batch' = {SlipOf(e) : e \in Polled({"hand"})} /\ Idle
            /\ \A e \in Polled({"hand"}) : /\ e \in Issued /\ lock[e] = "hand"
                                           /\ ticket'[e] = PickedUp(ticket[e]) /\ lock'[e] = "free"
        BY <2>3, ServerWires DEF OrderInv, Polled
      <3>2. inHand' = NoSlip /\ Handed' = batch'
        <4>1. NoSlip \notin batch'
          BY <3>1 DEF SlipOf, NoSlip
        <4> QED  BY <1>1, <3>1, <4>1 DEF Handed, Idle
      <3>3. ASSUME NEW e \in Polled({"hand"})
            PROVE  /\ SlipOf(e).ticket = e /\ SlipOf(e) = SlipOf(e)'
                   /\ Held(ticket'[e]) /\ lock'[e] = "free" /\ SlipOf(e) # NoSlip
        <4>1. e \in Issued /\ ticket[e] \in Ticket
          BY <3>1, Basics
        <4>2. Held(ticket'[e])
          BY <3>1, <4>1, MarkedTickets DEF Held
        <4> QED  BY <1>2, <3>1, <4>1, <4>2 DEF SlipOf, NoSlip
      <3>4. ASSUME NEW a \in acks'
            PROVE  lock'[a.ticket] \notin {"claim", "hand", "drop"} /\ \A s \in batch' : s.ticket # a.ticket
        <4>1. a \in acks /\ a.ticket \in Issued /\ lock[a.ticket] \notin PollLocked
          BY <1>1 DEF PickupInv, PollLocked, OutInv
        <4>2. lock'[a.ticket] \notin PollLocked
          BY <1>0, <4>1, RowKeeps
        <4> QED  BY <3>1, <3>3, <4>1, <4>2 DEF PollLocked
      <3>5. inHand' \notin batch'
        BY <3>1, <3>2, <3>3
      <3> QED  BY <3>1, <3>2, <3>3, <3>4, <3>5 DEF PickupInv
    <2> QED  BY <2>2, <2>3
  <1>5. SlipInv'
    <2>1. \A o \in Orders : Have'[o] = Have[o]
      BY <1>1, SamePaper
    <2>2. ASSUME NEW o \in Orders, Have[o] > 0
          PROVE  \E e \in Issued : /\ ticket'[e].order = o
                                   /\ Held(ticket'[e]) /\ ticket'[e].rev < Have[o]
                                   /\ lock'[e] # "misprinted"
                                   /\ \A a \in acks' : a.ticket = e => a.ok
      <3>1. PICK e \in Issued : /\ ticket[e].order = o
                                /\ Held(ticket[e]) /\ ticket[e].rev < Have[o]
                                /\ lock[e] # "misprinted"
                                /\ \A a \in acks : a.ticket = e => a.ok
        BY <2>2 DEF SlipInv, TicketsOf
      <3>2. Held(ticket'[e]) /\ lock'[e] # "misprinted"
        BY <1>0, <3>1, RowKeeps
      <3> QED  BY <1>1, <1>2, <3>1, <3>2
    <2> QED  BY <1>1, <2>1, <2>2 DEF SlipInv, TicketsOf
  <1>6. GoneInv'
    <2>1. ASSUME NEW o \in Orders,
                 tap'[o] = "gone" \/ (status'[o] = "cancelled" /\ handover'[o] = "none"),
                 NEW e \in Issued, ticket'[e].order = o
          PROVE  ~Held(ticket'[e]) /\ (ticket'[e].status = "pending" => lock'[e] = "withdraw")
      <3>1. ~Held(ticket[e]) /\ (ticket[e].status = "pending" => lock[e] = "withdraw")
        BY <1>1, <1>2, <2>1 DEF GoneInv, TicketsOf
      <3>2. ticket'[e] = ticket[e] /\ lock'[e] = lock[e]
        BY <1>0, <3>1, RowKeeps
      <3> QED  BY <3>1, <3>2
    <2> QED  BY <1>1, <2>1 DEF GoneInv, TicketsOf, Held
  <1>7. ReasonInv'
    <2>1. \A e \in Issued : ticket'[e].reason = "cancelled" <=>
             status'[ticket'[e].order] = "cancelled" /\ ticket'[e].rev = rev'[ticket'[e].order]
      BY <1>1, <1>2 DEF ReasonInv
    <2>2. ASSUME NEW o \in Orders, tap[o] \in {"taken", "note", "gone"} \/ status[o] = "cancelled",
                 NEW e \in Issued, ticket[e].order = o, ticket'[e].status = "pending",
                 ticket'[e].attempts = 0, ticket[e].reason # "cancelled"
          PROVE  lock'[e] \in {"claim", "hand", "drop", "withdraw"}
      <3>1. ticket[e].status = "pending" /\ ticket[e].attempts = 0 =>
               lock[e] \in PollLocked \cup {"withdraw"}
        BY <2>2 DEF ReasonInv, TicketsOf, PollLocked
      <3>2. lock'[e] \in PollLocked \cup {"withdraw"}
        BY <1>0, <2>2, <3>1, RowKeeps
      <3> QED  BY <3>2 DEF PollLocked
    <2> QED  BY <1>1, <1>2, <2>1, <2>2 DEF ReasonInv, TicketsOf
  <1> QED  BY <1>3, <1>4, <1>5, <1>6, <1>7

\* An answer goes out about a slip the bridge has, and only a slip not printed yet is
\* called a misprint.
LEMMA BridgeAnswers ==
    ASSUME Inv, LogKnows, PickupInv, crashes' = 0, BridgeNext
    PROVE  /\ Handed' \subseteq Handed /\ inHand' \notin batch'
           /\ \A a \in acks' : \/ a \in acks
                               \/ \E s \in Handed \ Handed' :
                                     /\ a.ticket = s.ticket
                                     /\ a.ok \/ Have[s.order] <= s.rev
  <1> USE DEF Inv
  <1>0. /\ crashes = 0
        /\ \A s \in batch : s # NoSlip
    <2>1. crashes \in Nat
      BY BoundsAreNat DEF TypeOK, FaultTypes
    <2>2. crashes' = crashes \/ crashes' = crashes + 1
      BY DEF BridgeNext, BridgeSkip, BridgePrint, BridgePrintError, BridgeRecord, BridgeRestart,
             faultVars
    <2>3. \A s \in batch : s # NoSlip
      BY Basics DEF Slip, NoSlip
    <2> QED  BY <2>1, <2>2, <2>3
  <1>1. ASSUME NEW s \in batch, BridgeSkip(s) \/ BridgePrintError(s)
        PROVE  /\ Handed' \subseteq Handed /\ inHand' \notin batch'
               /\ \A a \in acks' : \/ a \in acks
                                   \/ \E u \in Handed \ Handed' :
                                         a.ticket = u.ticket /\ (a.ok \/ Have[u.order] <= u.rev)
    <2>1. /\ inHand = NoSlip /\ inHand' = NoSlip /\ batch' = batch \ {s}
          /\ \/ acks' = acks \cup {[ticket |-> s.ticket, ok |-> TRUE]}
             \/ acks' = acks \cup {[ticket |-> s.ticket, ok |-> FALSE]} /\ ~Already(s)
      BY <1>1 DEF BridgeSkip, BridgePrintError, NextInBatch
    <2>2. Handed = batch /\ Handed' = batch \ {s}
      BY <2>1 DEF Handed
    <2>3. ~Already(s) => Have[s.order] <= s.rev
      <3>1. s.order \in Orders /\ s.rev \in Nat /\ Have[s.order] \in Nat
        BY Basics, HaveType
      <3>2. Have[s.order] = logMem[s.order]
        BY <1>0, <2>1, <3>1 DEF LogKnows
      <3> QED  BY <3>1, <3>2 DEF Already
    <2>4. \A b \in BOOLEAN : /\ [ticket |-> s.ticket, ok |-> b].ticket = s.ticket
                             /\ [ticket |-> s.ticket, ok |-> b].ok = b
      OBVIOUS
    <2>5. s \in Handed \ Handed' /\ NoSlip \notin batch'
      BY <1>0, <2>1, <2>2
    <2> QED  BY <2>1, <2>2, <2>3, <2>4, <2>5
  <1>2. ASSUME NEW s \in batch, BridgePrint(s)
        PROVE  Handed' \subseteq Handed /\ inHand' \notin batch' /\ acks' = acks
    BY <1>2 DEF BridgePrint, NextInBatch, Handed
  <1>3. ASSUME NEW saved \in BOOLEAN, BridgeRecord(saved)
        PROVE  /\ Handed' \subseteq Handed /\ inHand' \notin batch'
               /\ \A a \in acks' : \/ a \in acks
                                   \/ \E u \in Handed \ Handed' : a.ticket = u.ticket /\ a.ok
    <2>1. /\ inHand # NoSlip /\ inHand' = NoSlip /\ batch' = batch
          /\ acks' = acks \cup {[ticket |-> inHand.ticket, ok |-> TRUE]}
      BY <1>3 DEF BridgeRecord
    <2>2. inHand \in Handed \ Handed' /\ Handed' \subseteq Handed
      BY <1>0, <2>1 DEF Handed, PickupInv
    <2> QED  BY <1>0, <2>1, <2>2
  <1>4. CASE BridgeRestart
    BY <1>0, <1>4 DEF BridgeRestart
  <1> QED  BY <1>1, <1>2, <1>3, <1>4 DEF BridgeNext

\* The bridge keeps the note.
LEMMA BridgeKeepsNote ==
    ASSUME Inv, LogKnows, TicketInv, PickupInv, SlipInv, GoneInv, ReasonInv,
           crashes' = 0, BridgeNext
    PROVE  TicketInv' /\ PickupInv' /\ SlipInv' /\ GoneInv' /\ ReasonInv'
  <1> USE DEF Inv
  <1>1. UNCHANGED <<ticket, issued, lock, status, handover, rev, tap>>
    BY BridgeHasEffect DEF orderVars, outboxVars
  <1>2. TicketInv' /\ GoneInv' /\ ReasonInv'
    BY <1>1 DEF TicketInv, GoneInv, ReasonInv, TicketsOf
  <1>3. /\ Handed' \subseteq Handed /\ inHand' \notin batch'
        /\ \A a \in acks' : \/ a \in acks
                            \/ \E s \in Handed \ Handed' :
                                  /\ a.ticket = s.ticket
                                  /\ a.ok \/ Have[s.order] <= s.rev
    BY BridgeAnswers
  <1>4. PickupInv'
    <2>1. ASSUME NEW s \in Handed'
          PROVE  s = SlipOf(s.ticket)' /\ Held(ticket'[s.ticket]) /\ lock'[s.ticket] = "free"
      BY <1>1, <1>3 DEF PickupInv, SlipOf
    <2>2. ASSUME NEW a \in acks'
          PROVE  lock'[a.ticket] \notin {"claim", "hand", "drop"} /\ \A s \in Handed' : s.ticket # a.ticket
      <3>1. CASE a \in acks
        BY <1>1, <1>3, <3>1 DEF PickupInv
      <3>2. ASSUME NEW s \in Handed \ Handed', a.ticket = s.ticket
            PROVE  lock'[a.ticket] = "free" /\ \A u \in Handed' : u.ticket # a.ticket
        BY <1>1, <1>3, <3>2 DEF PickupInv
      <3> QED  BY <1>3, <3>1, <3>2
    <2> QED  BY <1>1, <1>3, <2>1, <2>2 DEF PickupInv
  <1>5. SlipInv'
    <2> SUFFICES ASSUME NEW o \in Orders, Have'[o] > 0
                 PROVE  \E e \in Issued : /\ ticket[e].order = o
                                          /\ Held(ticket[e]) /\ ticket[e].rev < Have'[o]
                                          /\ lock[e] # "misprinted"
                                          /\ \A a \in acks' : a.ticket = e => a.ok
      BY <1>1 DEF SlipInv, TicketsOf
    <2>1. CASE Have'[o] = Have[o]
      <3>1. PICK e \in Issued : /\ ticket[e].order = o
                                /\ Held(ticket[e]) /\ ticket[e].rev < Have[o]
                                /\ lock[e] # "misprinted"
                                /\ \A a \in acks : a.ticket = e => a.ok
        BY <2>1 DEF SlipInv, TicketsOf
      <3>2. ASSUME NEW a \in acks', a.ticket = e PROVE a.ok
        <4>1. CASE a \in acks
          BY <3>1, <3>2, <4>1
        <4>2. ASSUME NEW s \in Handed, a.ticket = s.ticket, Have[s.order] <= s.rev PROVE FALSE
          <5>1. s.order = ticket[e].order /\ s.rev = ticket[e].rev
            BY <3>2, <4>2 DEF OutInv, Handed
          <5> QED  BY <3>1, <4>2, <5>1, HaveType, Basics
        <4> QED  BY <1>3, <4>1, <4>2
      <3> QED  BY <2>1, <3>1, <3>2
    <2>2. CASE Have'[o] # Have[o]
      <3>1. PICK s \in batch : BridgePrint(s) /\ s.order = o
        <4>1. (\A s \in batch : ~BridgePrint(s)) => Have'[o] = Have[o]
          BY SamePaper DEF BridgeNext, BridgeSkip, BridgePrintError, BridgeRecord, BridgeRestart
        <4> QED  BY <2>2, <4>1, PaperAfterPrint
      <3>2. /\ s.ticket \in Issued /\ ticket[s.ticket].order = o /\ ticket[s.ticket].rev = s.rev
            /\ Held(ticket[s.ticket]) /\ lock[s.ticket] = "free"
            /\ \A a \in acks : s.ticket # a.ticket
        <4>1. s \in Handed
          BY DEF Handed
        <4> QED  BY <3>1, <4>1 DEF OutInv, PickupInv
      <3>3. acks' = acks /\ s.rev < Have'[o]
        <4>1. acks' = acks
          BY <3>1 DEF BridgePrint
        <4>2. Have'[o] = s.rev + 1 /\ s.rev \in Nat
          BY <3>1, PaperAfterPrint, Basics
        <4> QED  BY <4>1, <4>2
      <3> QED  BY <3>2, <3>3
    <2> QED  BY <2>1, <2>2
  <1> QED  BY <1>2, <1>4, <1>5

\* A ticket rewritten by send_ticket, and one taken back by a cancellation.
Rewritten(t, r, why) ==
    [t EXCEPT !.rev = r, !.reason = IF t.reason = "none" THEN "none" ELSE why]

TakenBack(t) == [t EXCEPT !.status = "sent", !.error = "withdrawn"]

\* What a tap on o may do to a row: r and why are what its ticket says.
RowOfTap(o, e, r, why) ==
    \/ ticket'[e] = ticket[e] /\ lock'[e] = lock[e]
    \/ /\ ticket[e].order = o /\ ticket[e].status = "pending" /\ ticket[e].attempts = 0
       /\ lock[e] = "free" /\ lock'[e] = "free"
       /\ ticket'[e] = Rewritten(ticket[e], r, why)
    \/ /\ ticket[e].order = o /\ ticket[e].status = "pending"
       /\ ticket[e].attempts = 0 \/ ticket[e].error # "none"
       /\ lock[e] = "free" /\ lock'[e] = "withdraw" /\ tap'[o] \in {"taken", "note", "gone"}
       /\ ticket'[e] = ticket[e]
    \/ /\ ticket[e].order = o /\ lock[e] = "withdraw" /\ lock'[e] = "free"
       /\ ticket'[e] = TakenBack(ticket[e])

NewRows(o, r, why) ==
    /\ issued' \in 0..MaxTickets /\ issued <= issued'
    /\ \A e \in 1..issued' : e > issued => ticket'[e] = NewTicket(o, r, why) /\ lock'[e] = "free"

\* A tap that says "cancelled" on its ticket if and only if the order is by then.
TapWrites(o, why) ==
    /\ why = "cancelled" <=> status'[o] = "cancelled"
    /\ \A e \in Issued : RowOfTap(o, e, rev'[o], why)
    /\ NewRows(o, rev'[o], why)

\* send_ticket writes a new row or rewrites one.
LEMMA SendTicketWrites ==
    ASSUME TypeOK, TapInv, NEW o \in Orders, NEW r, NEW why, NEW rows,
           DOMAIN rows = Tickets, SendTicket(rows, o, r, why)
    PROVE  /\ issued' \in 0..MaxTickets /\ issued <= issued'
           /\ \A e \in 1..issued' : e > issued => e \in Tickets /\ ticket'[e] = NewTicket(o, r, why)
           /\ \A e \in Issued : \/ ticket'[e] = rows[e]
                                \/ e \in Unsent(rows, o) /\ ticket'[e] = Rewritten(rows[e], r, why)
  <1> USE BoundsAreNat
  <1>0. issued \in 0..MaxTickets
    BY Basics
  <1>1. CASE /\ issued < MaxTickets
             /\ issued' = issued + 1
             /\ ticket' = [rows EXCEPT ![issued + 1] = NewTicket(o, r, why)]
    BY <1>0, <1>1
  <1>2. ASSUME NEW e \in Unsent(rows, o), issued' = issued,
               ticket' = [rows EXCEPT
                ![e].rev    = r,
                ![e].reason = IF rows[e].reason = "none" THEN "none" ELSE why]
        PROVE  /\ e \in Tickets /\ ticket'[e] = Rewritten(rows[e], r, why)
               /\ \A f \in Issued : f # e => ticket'[f] = rows[f]
    <2>1. e \in Tickets
      BY <1>0 DEF Unsent, TicketsOf
    <2> QED  BY <1>0, <1>2, <2>1 DEF Rewritten
  <1>3. CASE \E e \in Unsent(rows, o) :
                /\ issued' = issued
                /\ ticket' = [rows EXCEPT
                    ![e].rev    = r,
                    ![e].reason = IF rows[e].reason = "none" THEN "none" ELSE why]
    <2>1. PICK e \in Unsent(rows, o) :
             /\ issued' = issued
             /\ ticket' = [rows EXCEPT
                 ![e].rev    = r,
                 ![e].reason = IF rows[e].reason = "none" THEN "none" ELSE why]
      BY <1>3
    <2>2. /\ ticket'[e] = Rewritten(rows[e], r, why)
          /\ \A f \in Issued : f # e => ticket'[f] = rows[f]
      BY <1>2, <2>1
    <2>3. issued' = issued /\ ~\E f \in 1..issued' : f > issued
      BY <1>0, <2>1
    <2> QED  BY <1>0, <2>2, <2>3
  <1> QED  BY <1>1, <1>3 DEF SendTicket

\* Each tap is a part of a cancellation, or leaves what is cancelled and what
\* is being cancelled as it was.
PlainTap(o) ==
    /\ tap[o] \notin {"taken", "note", "gone"} /\ tap'[o] \notin {"taken", "note", "gone"}
    /\ status'[o] = "cancelled" <=> status[o] = "cancelled"
    /\ status[o] = "cancelled" => rev'[o] = rev[o] /\ handover'[o] = "pending"
    /\ lock' = lock

LEMMA TapKinds ==
    ASSUME TypeOK, TapInv, NEW o \in Orders, TapNext(o)
    PROVE  PlainTap(o) \/ CancelBegin(o) \/ CancelAsk(o) \/ CancelCommit(o)
  <1>0. /\ status   \in [Orders -> {"draft", "confirmed", "approved", "cancelled"}]
        /\ handover \in [Orders -> {"none", "pending", "sent", "failed"}]
        /\ rev \in [Orders -> Revisions] /\ tap \in [Orders -> Taps]
    BY DEF TypeOK, OrderTypes
  <1>1. ASSUME NEW direct \in BOOLEAN, Confirm(o, direct) PROVE PlainTap(o)
    BY <1>0, <1>1 DEF Confirm, PlainTap, TapInv
  <1>2. CASE Approve(o)
    BY <1>0, <1>2 DEF Approve, PlainTap
  <1>3. CASE Resend(o)
    BY <1>0, <1>3 DEF Resend, PlainTap
  <1>4. CASE CorrectBegin(o)
    BY <1>0, <1>4 DEF CorrectBegin, PlainTap, outboxVars
  <1>5. CASE CorrectCommit(o)
    BY <1>0, <1>5 DEF CorrectCommit, PlainTap
  <1> QED  BY <1>1, <1>2, <1>3, <1>4, <1>5 DEF TapNext

\* The question of a cancellation only tells it what to write.
LEMMA AskStays ==
    ASSUME TypeOK, NEW o \in Orders, CancelAsk(o)
    PROVE  /\ UNCHANGED <<status, handover, rev, ticket, issued, lock>>
           /\ tap[o] = "taken" /\ tap'[o] \in {"note", "gone"}
  BY DEF CancelAsk, outboxVars, TypeOK, OrderTypes

\* What a plain tap writes.
LEMMA PlainRows ==
    ASSUME TypeOK, TapInv, ReasonInv, NEW o \in Orders, TapNext(o), PlainTap(o),
           ~CancelBegin(o), ~CancelAsk(o), ~CancelCommit(o)
    PROVE  \E why \in Reasons : TapWrites(o, why)
  <1> USE BoundsAreNat
  <1>0. /\ issued \in 0..MaxTickets /\ ticket \in Rows /\ DOMAIN ticket = Tickets
        /\ status \in [Orders -> {"draft", "confirmed", "approved", "cancelled"}]
        /\ \A e \in Issued : e \in Tickets /\ ticket[e] \in Ticket
        /\ lock' = lock /\ \A e \in Tickets : e > issued => lock[e] = "free"
        /\ rev \in [Orders -> Revisions]
    BY Basics DEF TypeOK, OrderTypes, PlainTap, Rows, TapInv
  <1>1. UNCHANGED <<ticket, issued>> => \E why \in Reasons : TapWrites(o, why)
    <2> DEFINE why == IF status'[o] = "cancelled" THEN "cancelled" ELSE "none"
    <2>1. UNCHANGED <<ticket, issued>> => why \in Reasons /\ TapWrites(o, why)
      BY <1>0 DEF RowOfTap, NewRows, TapWrites
    <2> QED  BY <2>1
  <1>2. ASSUME NEW why \in Reasons, SendTicket(ticket, o, rev'[o], why),
               why = "cancelled" <=> status'[o] = "cancelled"
        PROVE  TapWrites(o, why)
    <2>1. NewRows(o, rev'[o], why)
      <3>1. /\ issued' \in 0..MaxTickets /\ issued <= issued'
            /\ \A e \in 1..issued' : e > issued =>
                  e \in Tickets /\ ticket'[e] = NewTicket(o, rev'[o], why)
        BY <1>0, <1>2, SendTicketWrites
      <3> QED  BY <1>0, <3>1 DEF NewRows
    <2>2. ASSUME NEW e \in Issued PROVE RowOfTap(o, e, rev'[o], why)
      <3>1. \/ ticket'[e] = ticket[e]
            \/ e \in Unsent(ticket, o) /\ ticket'[e] = Rewritten(ticket[e], rev'[o], why)
        BY <1>0, <1>2, SendTicketWrites
      <3> QED  BY <1>0, <3>1 DEF RowOfTap, Unsent, TicketsOf
    <2> QED  BY <1>2, <2>1, <2>2 DEF TapWrites
  <1>3. ASSUME NEW direct \in BOOLEAN, Confirm(o, direct) PROVE \E why \in Reasons : TapWrites(o, why)
    <2>1. CASE direct
      <3>1. /\ issued < MaxTickets /\ issued' = issued + 1
            /\ ticket' = [ticket EXCEPT ![issued + 1] = NewTicket(o, 0, "none")]
            /\ rev'[o] = 0 /\ status'[o] = "confirmed"
        BY <1>0, <1>3, <2>1 DEF Confirm, TapInv
      <3>2. NewRows(o, rev'[o], "none") /\ \A e \in Issued : ticket'[e] = ticket[e]
        BY <1>0, <3>1 DEF NewRows
      <3> QED  BY <1>0, <3>1, <3>2 DEF TapWrites, RowOfTap
    <2>2. CASE ~direct
      BY <1>1, <1>3, <2>2 DEF Confirm
    <2> QED  BY <2>1, <2>2
  <1>4. CASE Approve(o)
    <2>1. rev'[o] = rev[o] /\ status'[o] = "approved"
      BY <1>0, <1>4 DEF Approve
    <2>2. CASE handover[o] = "none"
      BY <1>2, <1>4, <2>1, <2>2 DEF Approve
    <2>3. CASE handover[o] # "none"
      BY <1>1, <1>4, <2>3 DEF Approve
    <2> QED  BY <2>2, <2>3
  <1>5. CASE Resend(o)
    <2>1. rev'[o] = rev[o] /\ status' = status
      BY <1>5 DEF Resend
    <2>2. PICK why \in IF status[o] = "cancelled" THEN {"cancelled"} ELSE LastReason(o) :
             SendTicket(ticket, o, rev'[o], why)
      BY <1>5, <2>1 DEF Resend
    <2>3. why \in Reasons /\ (why = "cancelled" <=> status'[o] = "cancelled")
      <3>1. CASE status[o] = "cancelled"
        BY <2>1, <2>2, <3>1
      <3>2. CASE status[o] # "cancelled"
        <4>1. PICK e \in TicketsOf(o) : why = ticket[e].reason
          BY <2>2, <3>2 DEF LastReason
        <4>2. ticket[e].reason \in Reasons /\ ticket[e].reason # "cancelled"
          BY <1>0, <3>2, <4>1 DEF ReasonInv, TicketsOf, Ticket
        <4> QED  BY <2>1, <3>2, <4>1, <4>2
      <3> QED  BY <3>1, <3>2
    <2> QED  BY <1>2, <2>2, <2>3
  <1>6. CASE CorrectBegin(o)
    BY <1>1, <1>6 DEF CorrectBegin, outboxVars
  <1>7. CASE CorrectCommit(o)
    <2>1. CASE tap[o] = "quiet"
      BY <1>1, <1>7, <2>1 DEF CorrectCommit
    <2>2. CASE tap[o] # "quiet"
      <3>1. rev'[o] = rev[o] + 1 /\ status'[o] # "cancelled"
        BY <1>0, <1>7 DEF CorrectCommit
      <3>2. SendTicket(ticket, o, rev'[o], IF tap[o] = "replaces" THEN "correction" ELSE "none")
        BY <1>7, <2>2, <3>1 DEF CorrectCommit
      <3> QED  BY <1>2, <3>1, <3>2
    <2> QED  BY <2>1, <2>2
  <1> QED  BY <1>3, <1>4, <1>5, <1>6, <1>7 DEF TapNext

\* What any tap writes.
LEMMA TapRows ==
    ASSUME TypeOK, TapInv, ReasonInv, NEW o \in Orders, TapNext(o)
    PROVE  \E why \in Reasons : TapWrites(o, why)
  <1> USE BoundsAreNat
  <1>0. /\ issued \in 0..MaxTickets /\ lock \in [Tickets -> Locks]
        /\ status \in [Orders -> {"draft", "confirmed", "approved", "cancelled"}]
        /\ rev \in [Orders -> Revisions] /\ tap \in [Orders -> Taps]
        /\ \A e \in Issued : e \in Tickets
        /\ \A e \in Tickets : e > issued => lock[e] = "free"
    BY Basics DEF TypeOK, OrderTypes, TapInv
  <1>1. CASE CancelBegin(o)
    <2>1. status'[o] # "cancelled" /\ ticket' = ticket /\ issued' = issued
      BY <1>0, <1>1 DEF CancelBegin
    <2>2. ASSUME NEW e \in Tickets
          PROVE  \/ lock'[e] = lock[e]
                 \/ /\ ticket[e].order = o /\ ticket[e].status = "pending" /\ e \in Issued
                    /\ ticket[e].attempts = 0 \/ ticket[e].error # "none"
                    /\ lock[e] = "free" /\ lock'[e] = "withdraw" /\ tap'[o] \in {"taken", "note", "gone"}
      BY <1>0, <1>1 DEF CancelBegin, TicketsOf
    <2>3. \A e \in Issued : RowOfTap(o, e, rev'[o], "none")
      BY <1>0, <2>1, <2>2 DEF RowOfTap
    <2>4. NewRows(o, rev'[o], "none")
      BY <1>0, <2>1 DEF NewRows
    <2> QED  BY <2>1, <2>3, <2>4 DEF TapWrites
  <1>2. CASE CancelCommit(o)
    <2>1. /\ status'[o] = "cancelled" /\ rev'[o] = rev[o] + 1
          /\ lock' = [e \in Tickets |-> IF e \in TicketsOf(o) /\ lock[e] = "withdraw"
                                        THEN "free" ELSE lock[e]]
      BY <1>0, <1>2 DEF CancelCommit
    <2>2. /\ DOMAIN Withdrawn(o) = Tickets
          /\ \A e \in Issued : Withdrawn(o)[e] = IF ticket[e].order = o /\ lock[e] = "withdraw"
                                                 THEN TakenBack(ticket[e]) ELSE ticket[e]
      BY <1>0 DEF Withdrawn, TicketsOf, TakenBack
    <2>3. ASSUME NEW e \in Issued, ticket'[e] = Withdrawn(o)[e]
          PROVE  RowOfTap(o, e, rev'[o], "cancelled")
      BY <1>0, <2>1, <2>2, <2>3 DEF RowOfTap, TicketsOf
    <2>4. CASE tap[o] = "note"
      <3>1. SendTicket(Withdrawn(o), o, rev'[o], "cancelled")
        BY <1>2, <2>1, <2>4 DEF CancelCommit
      <3>2. /\ issued' \in 0..MaxTickets /\ issued <= issued'
            /\ \A e \in 1..issued' : e > issued =>
                  e \in Tickets /\ ticket'[e] = NewTicket(o, rev'[o], "cancelled")
            /\ \A e \in Issued : \/ ticket'[e] = Withdrawn(o)[e]
                                 \/ /\ e \in Unsent(Withdrawn(o), o)
                                    /\ ticket'[e] = Rewritten(Withdrawn(o)[e], rev'[o], "cancelled")
        BY <2>2, <3>1, SendTicketWrites
      <3>3. ASSUME NEW e \in Unsent(Withdrawn(o), o), e \in Issued,
                   ticket'[e] = Rewritten(Withdrawn(o)[e], rev'[o], "cancelled")
            PROVE  RowOfTap(o, e, rev'[o], "cancelled")
        <4>1. /\ ticket[e].order = o /\ lock[e] = "free" /\ lock'[e] = "free"
              /\ Withdrawn(o)[e] = ticket[e]
              /\ Withdrawn(o)[e].status = "pending" /\ Withdrawn(o)[e].attempts = 0
          BY <1>0, <2>1, <2>2, <3>3 DEF Unsent, TicketsOf
        <4> QED  BY <3>3, <4>1 DEF RowOfTap
      <3>4. NewRows(o, rev'[o], "cancelled")
        BY <1>0, <2>1, <3>2 DEF NewRows
      <3>5. \A e \in Issued : RowOfTap(o, e, rev'[o], "cancelled")
        BY <2>3, <3>2, <3>3
      <3> QED  BY <2>1, <3>4, <3>5 DEF TapWrites
    <2>5. CASE tap[o] # "note"
      <3>1. ticket' = Withdrawn(o) /\ issued' = issued
        BY <1>2, <2>5 DEF CancelCommit
      <3>2. NewRows(o, rev'[o], "cancelled")
        BY <1>0, <3>1 DEF NewRows
      <3> QED  BY <2>1, <2>3, <3>1, <3>2 DEF TapWrites
    <2> QED  BY <2>4, <2>5
  <1>3. CASE CancelAsk(o)
    <2>1. UNCHANGED <<status, ticket, issued, lock>> /\ tap[o] = "taken"
      BY <1>3, AskStays
    <2>2. status[o] # "cancelled"
      BY <2>1 DEF TapInv
    <2> QED  BY <1>0, <2>1, <2>2 DEF RowOfTap, NewRows, TapWrites
  <1>4. CASE ~CancelBegin(o) /\ ~CancelAsk(o) /\ ~CancelCommit(o)
    BY <1>4, TapKinds, PlainRows
  <1> QED  BY <1>1, <1>2, <1>3, <1>4

\* What the invariants need of a row a tap touched.
LEMMA TapRowKeeps ==
    ASSUME TypeOK, TapInv, TicketInv, NEW o \in Orders, NEW e \in Issued,
           NEW r, NEW why \in Reasons, RowOfTap(o, e, r, why)
    PROVE  /\ ticket'[e].order = ticket[e].order /\ ticket'[e].attempts = ticket[e].attempts
           /\ ticket'[e].status = "pending" =>
                 ticket[e].status = "pending" /\ ticket'[e].error \in {"none", "print"}
           /\ lock'[e] # "free" => ticket'[e] = ticket[e] /\ ticket[e].status = "pending"
           /\ Held(ticket[e]) => ticket'[e] = ticket[e] /\ lock'[e] = lock[e]
           /\ ~Held(ticket[e]) => ~Held(ticket'[e])
           /\ lock'[e] \notin {"free", "withdraw"} => lock'[e] = lock[e]
           /\ lock'[e] = "withdraw" => \/ lock[e] = "withdraw"
                                       \/ /\ ticket[e].order = o /\ ~Held(ticket[e])
                                          /\ tap'[o] \in {"taken", "note", "gone"}
           /\ ticket[e].order # o => ticket'[e] = ticket[e] /\ lock'[e] = lock[e]
  <1>0. /\ ticket[e] \in Ticket /\ ticket[e].attempts \in Nat
        /\ lock[e] # "free" => ticket[e].status = "pending"
        /\ ticket[e].status = "pending" => ticket[e].error \in {"none", "print"}
        /\ lock[e] = "withdraw" => ~Held(ticket[e])
    BY Basics DEF TicketInv
  <1>1. CASE ticket'[e] = ticket[e] /\ lock'[e] = lock[e]
    BY <1>0, <1>1
  <1>2. CASE /\ ticket[e].order = o /\ ticket[e].status = "pending" /\ ticket[e].attempts = 0
             /\ lock[e] = "free" /\ lock'[e] = "free"
             /\ ticket'[e] = Rewritten(ticket[e], r, why)
    <2>1. LET u == Rewritten(ticket[e], r, why)
          IN  /\ u.order = ticket[e].order /\ u.attempts = ticket[e].attempts
              /\ u.status = ticket[e].status /\ u.error = ticket[e].error
      BY <1>0 DEF Rewritten, Ticket
    <2> QED  BY <1>0, <1>2, <2>1 DEF Held
  <1>3. CASE /\ ticket[e].order = o /\ ticket[e].status = "pending"
             /\ ticket[e].attempts = 0 \/ ticket[e].error # "none"
             /\ lock[e] = "free" /\ lock'[e] = "withdraw" /\ tap'[o] \in {"taken", "note", "gone"}
             /\ ticket'[e] = ticket[e]
    BY <1>0, <1>3 DEF Held
  <1>4. CASE /\ ticket[e].order = o /\ lock[e] = "withdraw" /\ lock'[e] = "free"
             /\ ticket'[e] = TakenBack(ticket[e])
    <2>1. LET u == TakenBack(ticket[e])
          IN  /\ u.order = ticket[e].order /\ u.attempts = ticket[e].attempts
              /\ u.status = "sent" /\ u.error = "withdrawn"
      BY <1>0 DEF TakenBack, Ticket
    <2> QED  BY <1>0, <1>4, <2>1 DEF Held
  <1> QED  BY <1>1, <1>2, <1>3, <1>4 DEF RowOfTap

\* A tap keeps what the server knows of the tickets it handed out.
LEMMA TapKeepsSlips ==
    ASSUME Inv, TicketInv, PickupInv, SlipInv, ReasonInv, NEW o \in Orders, TapNext(o)
    PROVE  TicketInv' /\ PickupInv' /\ SlipInv'
  <1> USE BoundsAreNat DEF Inv
  <1>0. /\ issued \in 0..MaxTickets /\ issued' \in 0..MaxTickets /\ issued <= issued'
        /\ UNCHANGED <<acks, batch, inHand, paper>>
        /\ \A p \in Orders \ {o} : tap'[p] = tap[p]
        /\ \A e \in Issued : ticket[e].order \in Orders /\ e \in Tickets
    BY TapHasEffect, Basics DEF TapEffect, WritesRow, bridgeVars
  <1>1. PICK why \in Reasons : TapWrites(o, why)
    BY TapRows
  <1>2. ASSUME NEW e \in Issued
        PROVE  /\ ticket'[e].order = ticket[e].order
               /\ ticket'[e].status = "pending" => ticket'[e].error \in {"none", "print"}
               /\ lock'[e] # "free" => ticket'[e] = ticket[e] /\ ticket[e].status = "pending"
               /\ Held(ticket[e]) => ticket'[e] = ticket[e] /\ lock'[e] = lock[e]
               /\ lock'[e] \notin {"free", "withdraw"} => lock'[e] = lock[e]
               /\ lock'[e] = "withdraw" => \/ lock[e] = "withdraw"
                                           \/ /\ ticket[e].order = o /\ ~Held(ticket[e])
                                              /\ tap'[o] \in {"taken", "note", "gone"}
    BY <1>1, TapRowKeeps DEF TapWrites
  <1>3. ASSUME NEW e \in 1..issued', e \notin Issued
        PROVE  /\ ticket'[e].order = o /\ ticket'[e].error = "none" /\ lock'[e] = "free"
    <2>1. ticket'[e] = NewTicket(o, rev'[o], why) /\ lock'[e] = "free"
      BY <1>0, <1>1, <1>3 DEF TapWrites, NewRows
    <2> QED  BY <2>1 DEF NewTicket
  <1>4. ASSUME NEW e \in Issued, lock'[e] = "withdraw"
        PROVE  tap'[ticket[e].order] \in {"taken", "note", "gone"} /\ ~Held(ticket[e])
    <2>1. CASE lock[e] # "withdraw"
      BY <1>2, <1>4, <2>1
    <2>2. CASE lock[e] = "withdraw"
      <3>1. tap[ticket[e].order] \in {"taken", "note", "gone"} /\ ~Held(ticket[e])
        BY <2>2 DEF TicketInv
      <3>2. CASE ticket[e].order # o
        BY <1>0, <3>1, <3>2
      <3>3. CASE ticket[e].order = o
        <4>1. CASE CancelCommit(o)
          <5>1. lock'[e] = "free"
            BY <1>0, <2>2, <3>3, <4>1 DEF CancelCommit, TicketsOf
          <5> QED  BY <1>4, <5>1
        <4>2. CASE CancelBegin(o)
          BY <3>1, <3>3, <4>2 DEF CancelBegin
        <4>3. CASE PlainTap(o)
          BY <3>1, <3>3, <4>3 DEF PlainTap
        <4>4. CASE CancelAsk(o)
          BY <3>1, <3>3, <4>4, AskStays
        <4> QED  BY <4>1, <4>2, <4>3, <4>4, TapKinds
      <3> QED  BY <3>2, <3>3
    <2> QED  BY <2>1, <2>2
  <1>5. TicketInv'
    <2>1. ASSUME NEW e \in 1..issued'
          PROVE  /\ ticket'[e].status = "pending" => ticket'[e].error \in {"none", "print"}
                 /\ lock'[e] # "free" => ticket'[e].status = "pending"
                 /\ lock'[e] = "withdraw" =>
                       tap'[ticket'[e].order] \in {"taken", "note", "gone"} /\ ~Held(ticket'[e])
      <3>1. CASE e \in Issued
        BY <1>2, <1>4, <3>1
      <3>2. CASE e \notin Issued
        BY <1>3, <3>2
      <3> QED  BY <3>1, <3>2
    <2> QED  BY <2>1 DEF TicketInv, Held
  <1>6. PickupInv'
    <2>1. Handed' = Handed
      BY <1>0 DEF Handed
    <2>2. ASSUME NEW s \in Handed
          PROVE  s = SlipOf(s.ticket)' /\ Held(ticket'[s.ticket]) /\ lock'[s.ticket] = "free"
      <3>1. /\ s.ticket \in Issued /\ s = SlipOf(s.ticket)
            /\ Held(ticket[s.ticket]) /\ lock[s.ticket] = "free"
        BY DEF OutInv, PickupInv, Handed
      <3>2. ticket'[s.ticket] = ticket[s.ticket] /\ lock'[s.ticket] = lock[s.ticket]
        BY <1>2, <3>1
      <3> QED  BY <3>1, <3>2 DEF SlipOf
    <2>3. ASSUME NEW a \in acks PROVE lock'[a.ticket] \notin {"claim", "hand", "drop"}
      <3>1. a.ticket \in Issued /\ lock[a.ticket] \notin {"claim", "hand", "drop"}
        BY DEF OutInv, PickupInv
      <3> QED  BY <1>2, <3>1
    <2> QED  BY <1>0, <2>1, <2>2, <2>3 DEF PickupInv
  <1>7. SlipInv'
    <2>1. \A p \in Orders : Have'[p] = Have[p]
      BY <1>0, SamePaper
    <2>2. ASSUME NEW p \in Orders, Have[p] > 0
          PROVE  \E e \in 1..issued' : /\ ticket'[e].order = p
                                       /\ Held(ticket'[e]) /\ ticket'[e].rev < Have[p]
                                       /\ lock'[e] # "misprinted"
                                       /\ \A a \in acks : a.ticket = e => a.ok
      <3>1. PICK e \in Issued : /\ ticket[e].order = p
                                /\ Held(ticket[e]) /\ ticket[e].rev < Have[p]
                                /\ lock[e] # "misprinted"
                                /\ \A a \in acks : a.ticket = e => a.ok
        BY <2>2 DEF SlipInv, TicketsOf
      <3>2. ticket'[e] = ticket[e] /\ lock'[e] = lock[e]
        BY <1>2, <3>1
      <3>3. e \in 1..issued'
        BY <1>0
      <3> QED  BY <3>1, <3>2, <3>3
    <2> QED  BY <1>0, <2>1, <2>2 DEF SlipInv, TicketsOf
  <1> QED  BY <1>5, <1>6, <1>7

\* A cancellation without a note leaves no ticket the kitchen may still get.
LEMMA TapKeepsGone ==
    ASSUME Inv, TicketInv, GoneInv, ReasonInv, NEW o \in Orders, TapNext(o)
    PROVE  GoneInv'
  <1> USE BoundsAreNat DEF Inv
  <1>0. /\ issued \in 0..MaxTickets /\ issued' \in 0..MaxTickets /\ issued <= issued'
        /\ \A p \in Orders \ {o} : /\ tap'[p] = tap[p] /\ status'[p] = status[p]
                                   /\ handover'[p] = handover[p]
        /\ \A e \in Issued : ticket[e].order \in Orders /\ e \in Tickets
        /\ lock \in [Tickets -> Locks]
        /\ status \in [Orders -> {"draft", "confirmed", "approved", "cancelled"}]
        /\ tap \in [Orders -> Taps]
        /\ handover \in [Orders -> {"none", "pending", "sent", "failed"}]
    BY TapHasEffect, Basics DEF TapEffect, WritesRow, TypeOK, OrderTypes
  <1>1. PICK why \in Reasons : TapWrites(o, why)
    BY TapRows
  <1> SUFFICES ASSUME NEW p \in Orders,
                      tap'[p] = "gone" \/ (status'[p] = "cancelled" /\ handover'[p] = "none"),
                      NEW e \in 1..issued', ticket'[e].order = p
               PROVE  ~Held(ticket'[e]) /\ (ticket'[e].status = "pending" => lock'[e] = "withdraw")
    BY DEF GoneInv, TicketsOf, Held
  <1>2. ASSUME e \notin Issued PROVE p = o /\ issued' # issued
    <2>1. ticket'[e] = NewTicket(o, rev'[o], why)
      BY <1>0, <1>1, <1>2 DEF TapWrites, NewRows
    <2> QED  BY <1>2, <2>1 DEF NewTicket
  <1>3. ASSUME e \in Issued
        PROVE  /\ ticket'[e].order = ticket[e].order
               /\ ~Held(ticket[e]) => ~Held(ticket'[e])
               /\ ticket[e].order # o => ticket'[e] = ticket[e] /\ lock'[e] = lock[e]
    BY <1>1, <1>3, TapRowKeeps DEF TapWrites
  <1>4. CASE p # o
    <2>1. e \in Issued /\ ticket[e].order = p /\ ticket'[e] = ticket[e] /\ lock'[e] = lock[e]
      BY <1>2, <1>3, <1>4
    <2> QED  BY <1>0, <1>4, <2>1 DEF GoneInv, TicketsOf
  <1>5. CASE p = o /\ PlainTap(o)
    BY <1>5 DEF PlainTap
  <1>6. CASE p = o /\ CancelBegin(o)
    BY <1>0, <1>6 DEF CancelBegin
  <1>8. CASE p = o /\ CancelAsk(o)
    <2>1. UNCHANGED <<ticket, issued, lock, status>> /\ tap[o] = "taken"
      BY <1>8, AskStays
    <2>2. tap'[o] = "gone" /\ e \in TicketsOf(o)
      BY <1>8, <2>1 DEF TapInv, TicketsOf
    <2>3. ~MayHoldASlip(ticket, o) /\ (ticket[e].status = "pending" => lock[e] = "withdraw")
      BY <1>0, <1>8, <2>1, <2>2 DEF CancelAsk
    <2>4. ~Held(ticket[e])
      BY <2>2, <2>3 DEF MayHoldASlip
    <2> QED  BY <2>1, <2>3, <2>4
  <1>7. CASE p = o /\ CancelCommit(o)
    <2>1. tap'[o] = "free" /\ handover'[o] = "none"
      BY <1>0, <1>7 DEF CancelCommit
    <2>2. tap[o] = "gone" /\ ticket' = Withdrawn(o) /\ issued' = issued
      BY <1>0, <1>7, <2>1 DEF CancelCommit
    <2>3. e \in Issued /\ ticket[e].order = o
      BY <1>2, <1>3, <1>7, <2>2
    <2>4. ~Held(ticket[e]) /\ (ticket[e].status = "pending" => lock[e] = "withdraw")
      BY <2>2, <2>3 DEF GoneInv, TicketsOf
    <2>5. ticket'[e].status # "pending"
      <3>1. CASE lock[e] = "withdraw"
        <4>1. ticket'[e] = [ticket[e] EXCEPT !.status = "sent", !.error = "withdrawn"]
          BY <1>0, <2>2, <2>3, <3>1 DEF Withdrawn, TicketsOf
        <4> QED  BY <2>3, <4>1, Basics DEF Ticket
      <3>2. CASE lock[e] # "withdraw"
        BY <1>0, <2>2, <2>3, <2>4, <3>2 DEF Withdrawn
      <3> QED  BY <3>1, <3>2
    <2> QED  BY <1>3, <2>3, <2>4, <2>5
  <1> QED  BY <1>4, <1>5, <1>6, <1>7, <1>8, TapKinds

\* What a rewritten ticket and a new one say.
LEMMA WrittenReasons ==
    ASSUME NEW o, NEW t \in Ticket, NEW r, NEW why
    PROVE  /\ LET u == Rewritten(t, r, why)
              IN  /\ u.rev = r
                  /\ u.reason = IF t.reason = "none" THEN "none" ELSE why
           /\ LET u == TakenBack(t)
              IN  u.rev = t.rev /\ u.reason = t.reason /\ u.status = "sent"
           /\ NewTicket(o, r, why).rev = r /\ NewTicket(o, r, why).reason = why
  BY DEF Rewritten, TakenBack, NewTicket, Ticket

\* A cancellation is for good, and a revision of its own.
CancelsOrNot(o) ==
    \/ status[o] = "cancelled" /\ status'[o] = "cancelled" /\ rev'[o] = rev[o]
    \/ status[o] # "cancelled" /\ status'[o] # "cancelled"
    \/ status[o] # "cancelled" /\ rev'[o] = rev[o] + 1

LEMMA TapCancels ==
    ASSUME TypeOK, TapInv, NEW o \in Orders, TapNext(o)
    PROVE  CancelsOrNot(o)
  <1>0. /\ status \in [Orders -> {"draft", "confirmed", "approved", "cancelled"}]
        /\ rev[o] \in Nat
    BY Basics DEF TypeOK, OrderTypes
  <1>1. CASE CancelBegin(o)
    BY <1>0, <1>1 DEF CancelBegin, CancelsOrNot
  <1>2. CASE CancelCommit(o)
    <2>1. status[o] # "cancelled" /\ rev'[o] = rev[o] + 1
      BY <1>0, <1>2 DEF CancelCommit, TapInv, TypeOK, OrderTypes
    <2> QED  BY <1>0, <2>1 DEF CancelsOrNot
  <1>3. CASE PlainTap(o)
    BY <1>3 DEF PlainTap, CancelsOrNot
  <1>4. CASE CancelAsk(o)
    BY <1>4, AskStays DEF CancelsOrNot
  <1> QED  BY <1>1, <1>2, <1>3, <1>4, TapKinds

\* Only the note of a cancelled order says so.
LEMMA TapKeepsReasons ==
    ASSUME Inv, TicketInv, ReasonInv, NEW o \in Orders, TapNext(o)
    PROVE  ReasonInv'
  <1> USE BoundsAreNat DEF Inv
  <1>0. /\ issued \in 0..MaxTickets /\ issued' \in 0..MaxTickets /\ issued <= issued'
        /\ \A p \in Orders \ {o} : /\ tap'[p] = tap[p] /\ status'[p] = status[p]
                                   /\ rev'[p] = rev[p]
        /\ \A e \in Issued : /\ ticket[e].order \in Orders /\ e \in Tickets
                             /\ ticket[e] \in Ticket /\ ticket[e].rev \in Nat
                             /\ lock[e] \in Locks
        /\ status \in [Orders -> {"draft", "confirmed", "approved", "cancelled"}]
        /\ tap \in [Orders -> Taps]
        /\ rev[o] \in Nat
    BY TapHasEffect, Basics DEF TapEffect, WritesRow, TypeOK, OrderTypes
  <1>1. PICK why \in Reasons : TapWrites(o, why)
    BY TapRows
  <1>2. why = "cancelled" <=> status'[o] = "cancelled"
    BY <1>1 DEF TapWrites
  <1>3. ASSUME NEW e \in 1..issued', e \notin Issued
        PROVE  /\ ticket'[e].order = o /\ ticket'[e].rev = rev'[o] /\ ticket'[e].reason = why
    <2>1. ticket'[e] = NewTicket(o, rev'[o], why)
      BY <1>0, <1>1, <1>3 DEF TapWrites, NewRows
    <2> QED  BY <2>1 DEF NewTicket
  <1>4. ASSUME NEW e \in Issued
        PROVE  /\ ticket'[e].order = ticket[e].order
               /\ ticket[e].order # o => ticket'[e] = ticket[e] /\ lock'[e] = lock[e]
               /\ RowOfTap(o, e, rev'[o], why)
    BY <1>1, TapRowKeeps DEF TapWrites
  \* A ticket of an order that is or gets cancelled, free and not picked up, is the note.
  <1>5. ASSUME NEW e \in Issued, ticket[e].order = o, ticket[e].status = "pending",
               ticket[e].attempts = 0, lock[e] = "free",
               status'[o] = "cancelled"
        PROVE  ticket[e].reason = "cancelled" /\ status[o] = "cancelled"
    <2>1. tap[o] \in {"taken", "note", "gone"} \/ status[o] = "cancelled"
      <3>1. CASE CancelBegin(o)
        BY <1>0, <1>5, <3>1 DEF CancelBegin
      <3>2. CASE CancelCommit(o)
        BY <3>2 DEF CancelCommit
      <3>3. CASE PlainTap(o)
        BY <1>5, <3>3 DEF PlainTap
      <3>4. CASE CancelAsk(o)
        BY <3>4, AskStays
      <3> QED  BY <3>1, <3>2, <3>3, <3>4, TapKinds
    <2>2. ticket[e].reason = "cancelled"
      BY <1>5, <2>1 DEF ReasonInv, TicketsOf
    <2> QED  BY <1>5, <2>2 DEF ReasonInv
  <1>6. CancelsOrNot(o)
    BY TapCancels
  <1>7. ASSUME NEW e \in 1..issued'
        PROVE  ticket'[e].reason = "cancelled" <=>
                  status'[ticket'[e].order] = "cancelled" /\ ticket'[e].rev = rev'[ticket'[e].order]
    <2>1. CASE e \notin Issued
      BY <1>2, <1>3, <2>1
    <2>2. CASE e \in Issued /\ ticket[e].order # o
      BY <1>0, <1>4, <2>2 DEF ReasonInv
    <2>3. CASE e \in Issued /\ ticket[e].order = o
      <3>1. /\ ticket[e].reason = "cancelled" <=> status[o] = "cancelled" /\ ticket[e].rev = rev[o]
            /\ ticket[e].rev <= rev[o]
        BY <2>3 DEF ReasonInv, RevInv
      <3>2. CASE /\ ticket[e].status = "pending" /\ ticket[e].attempts = 0
                 /\ lock[e] = "free" /\ ticket'[e] = Rewritten(ticket[e], rev'[o], why)
        <4>1. ticket[e] \in Ticket
          BY <1>0, <2>3
        <4>2. LET u == Rewritten(ticket[e], rev'[o], why)
              IN  u.rev = rev'[o] /\ u.reason = IF ticket[e].reason = "none" THEN "none" ELSE why
          BY ONLY <4>1, WrittenReasons
        <4>3. status'[o] = "cancelled" => ticket[e].reason = "cancelled"
          BY <1>5, <2>3, <3>2
        <4>4. ticket'[e].order = o
          BY <1>4, <2>3
        <4> QED  BY ONLY <1>2, <3>2, <4>2, <4>3, <4>4
      <3>3. CASE ticket'[e] = ticket[e] \/ ticket'[e] = TakenBack(ticket[e])
        <4>1. ticket'[e].rev = ticket[e].rev /\ ticket'[e].reason = ticket[e].reason
          <5>1. ticket[e] \in Ticket
            BY <1>0, <2>3
          <5>2. /\ TakenBack(ticket[e]).rev = ticket[e].rev
                /\ TakenBack(ticket[e]).reason = ticket[e].reason
            BY ONLY <5>1, WrittenReasons
          <5> QED  BY ONLY <3>3, <5>2
        <4>2. ticket'[e].order = o
          BY <1>4, <2>3
        <4> QED  BY <1>0, <1>6, <2>3, <3>1, <4>1, <4>2 DEF CancelsOrNot
      <3> QED  BY <1>4, <2>3, <3>2, <3>3 DEF RowOfTap
    <2> QED  BY <2>1, <2>2, <2>3
  <1>8. ASSUME NEW p \in Orders, tap'[p] \in {"taken", "note", "gone"} \/ status'[p] = "cancelled",
               NEW e \in 1..issued', ticket'[e].order = p,
               ticket'[e].status = "pending", ticket'[e].attempts = 0,
               ticket'[e].reason # "cancelled"
        PROVE  lock'[e] \in {"claim", "hand", "drop", "withdraw"}
    <2>1. CASE p # o
      <3>1. e \in Issued
        BY <1>3, <1>8, <2>1
      <3>2. ticket[e].order = p /\ ticket'[e] = ticket[e] /\ lock'[e] = lock[e]
        BY <1>4, <1>8, <2>1, <3>1
      <3> QED  BY <1>0, <1>8, <2>1, <3>1, <3>2 DEF ReasonInv, TicketsOf
    <2>2. CASE p = o /\ CancelBegin(o)
      <3>1. ticket' = ticket /\ issued' = issued /\ e \in TicketsOf(o)
        BY <1>8, <2>2 DEF CancelBegin, TicketsOf
      <3>2. CASE lock[e] = "free"
        BY <1>0, <1>8, <2>2, <3>1, <3>2 DEF CancelBegin, TicketsOf
      <3>3. CASE lock[e] # "free"
        <4>1. lock'[e] = lock[e]
          BY <1>0, <2>2, <3>1, <3>3 DEF CancelBegin, TicketsOf
        <4>2. lock[e] \notin {"printed", "misprinted"}
          BY <1>8, <3>1 DEF OutInv, TicketsOf
        <4> QED  BY <1>0, <3>1, <3>3, <4>1, <4>2 DEF Locks, TicketsOf
      <3> QED  BY <3>2, <3>3
    <2>4. CASE p = o /\ CancelAsk(o)
      <3>1. UNCHANGED <<ticket, issued, lock>> /\ tap[o] = "taken"
        BY <2>4, AskStays
      <3> QED  BY <1>8, <2>4, <3>1 DEF ReasonInv, TicketsOf
    <2>3. CASE p = o /\ ~CancelBegin(o) /\ ~CancelAsk(o)
      <3>1. status'[o] = "cancelled" /\ (tap[o] \in {"taken", "note", "gone"} \/ status[o] = "cancelled")
        <4>1. CASE CancelCommit(o)
          BY <1>0, <4>1 DEF CancelCommit
        <4>2. CASE PlainTap(o)
          BY <1>8, <2>3, <4>2 DEF PlainTap
        <4> QED  BY <2>3, <4>1, <4>2, TapKinds
      <3>2. e \in Issued /\ ticket[e].order = o
        BY <1>2, <1>3, <1>4, <1>8, <2>3, <3>1
      <3>3. CASE /\ ticket[e].status = "pending" /\ ticket[e].attempts = 0
                 /\ lock[e] = "free" /\ ticket'[e] = Rewritten(ticket[e], rev'[o], why)
        <4>1. ticket'[e].reason = "cancelled"
          BY <1>0, <1>2, <1>5, <3>1, <3>2, <3>3, WrittenReasons
        <4> QED  BY <1>8, <4>1
      <3>4. CASE ticket'[e] = ticket[e] /\ lock'[e] = lock[e]
        BY <1>8, <3>1, <3>2, <3>4 DEF ReasonInv, TicketsOf
      <3>5. CASE lock'[e] = "withdraw"
        BY <3>5
      <3>6. CASE ticket'[e] = TakenBack(ticket[e])
        BY <1>0, <1>8, <3>2, <3>6, WrittenReasons
      <3> QED  BY <1>4, <3>2, <3>3, <3>4, <3>5, <3>6 DEF RowOfTap
    <2> QED  BY <2>1, <2>2, <2>3, <2>4
  <1> QED  BY <1>7, <1>8 DEF ReasonInv, TicketsOf

\* Every step keeps the note, while the bridge keeps running and answers in time.
LEMMA NoteStep == Inv /\ LogKnows /\ NoteInv /\ [Next]_vars => NoteInv'
  <1> SUFFICES ASSUME Inv, LogKnows, NoteInv, [Next]_vars, crashes' = 0, ~LateAcks
               PROVE  TicketInv' /\ PickupInv' /\ SlipInv' /\ GoneInv' /\ ReasonInv'
    BY DEF NoteInv
  <1>1. TicketInv /\ PickupInv /\ SlipInv /\ GoneInv /\ ReasonInv
    BY CrashesStay DEF NoteInv, Inv
  <1>2. ASSUME NEW o \in Orders, TapNext(o)
        PROVE  TicketInv' /\ PickupInv' /\ SlipInv' /\ GoneInv' /\ ReasonInv'
    BY <1>1, <1>2, TapKeepsSlips, TapKeepsGone, TapKeepsReasons
  <1>3. CASE ServerNext
    BY <1>1, <1>3, ServerKeepsNote
  <1>4. CASE BridgeNext
    BY <1>1, <1>4, BridgeKeepsNote
  <1>5. CASE UNCHANGED vars
    <2>1. UNCHANGED <<ticket, issued, lock, acks, batch, inHand, paper, status, handover, rev, tap>>
      BY <1>5 DEF vars, orderVars, outboxVars, bridgeVars
    <2>2. \A o \in Orders : Have'[o] = Have[o]
      BY <2>1, SamePaper
    <2>3. SlipInv'
      BY <1>1, <2>1, <2>2 DEF SlipInv, TicketsOf
    <2>4. TicketInv' /\ GoneInv' /\ ReasonInv' /\ PickupInv'
      BY <1>1, <2>1 DEF TicketInv, GoneInv, ReasonInv, PickupInv, TicketsOf, Held, SlipOf, Handed
    <2> QED  BY <2>3, <2>4
  <1> QED  BY <1>2, <1>3, <1>4, <1>5 DEF Next, ServerNext

LEMMA NoteInit == Init => NoteInv
  <1> SUFFICES ASSUME Init PROVE TicketInv /\ PickupInv /\ SlipInv /\ GoneInv /\ ReasonInv
    BY DEF NoteInv
  <1>1. /\ Issued = {} /\ acks = {} /\ batch = {} /\ inHand = NoSlip
        /\ \A o \in Orders : paper[o] = <<>>
    BY DEF Init
  <1>2. \A o \in Orders : Have[o] = 0 /\ TicketsOf(o) = {}
    BY <1>1 DEF Have, TicketsOf
  <1> QED  BY <1>1, <1>2 DEF TicketInv, PickupInv, SlipInv, GoneInv, ReasonInv, Handed

\* What the slips of an order say: the second half of CancelledSlipHasNote.
NotesOnPaper ==
    crashes = 0 =>
        \A o \in Orders : \A i \in 1..Len(paper[o]) :
            paper[o][i].reason = "cancelled" <=>
                status[o] = "cancelled" /\ paper[o][i].rev = rev[o]

\* No slip is ahead of its order.
LEMMA PaperBehind ==
    ASSUME Inv, NEW o \in Orders, NEW i \in 1..Len(paper[o])
    PROVE  paper[o][i].rev \in Nat /\ paper[o][i].rev <= rev[o]
  <1> USE DEF Inv
  <1>1. paper[o] \in Seq(PaperSlip) /\ Len(paper[o]) \in Nat
    <2>1. paper[o] \in Seq(PaperSlip)
      BY DEF TypeOK, BridgeTypes, PaperSlip
    <2> QED  BY <2>1, LenProperties
  <1>2. paper[o] # <<>> /\ Len(paper[o]) \in 1..Len(paper[o])
    BY <1>1, EmptySeq
  <1>3. \A j \in 1..Len(paper[o]) : paper[o][j].rev \in Nat
    <2>1. \A j \in 1..Len(paper[o]) : paper[o][j] \in PaperSlip
      BY <1>1, ElementOfSeq
    <2> QED  BY <2>1, BoundsAreNat DEF PaperSlip
  <1>4. paper[o][i].rev <= Last(o).rev
    <2>1. CASE i = Len(paper[o])
      BY <1>3, <2>1 DEF Last
    <2>2. CASE i # Len(paper[o])
      BY <1>1, <1>2, <2>2 DEF PaperNeverRunsBack, Last
    <2> QED  BY <2>1, <2>2
  <1>5. Have[o] = Last(o).rev + 1 /\ Last(o).rev \in Nat
    BY <1>2, LastType DEF Have
  <1>6. PICK e \in Issued : ticket[e].order = o /\ Have[o] <= ticket[e].rev + 1
    <2>1. Have[o] > 0
      BY ONLY <1>5
    <2> QED  BY <2>1 DEF OrderInv, TicketsOf
  <1>7. ticket[e].rev <= rev[o] /\ ticket[e].rev \in Nat /\ rev[o] \in Nat
    BY <1>6, Basics DEF RevInv
  <1>8. paper[o][i].rev \in Nat
    BY <1>3
  <1>9. Last(o).rev <= ticket[e].rev
    BY ONLY <1>5, <1>6, <1>7
  <1>10. paper[o][i].rev <= ticket[e].rev
    BY ONLY <1>4, <1>5, <1>7, <1>8, <1>9
  <1>11. paper[o][i].rev <= rev[o]
    BY ONLY <1>7, <1>8, <1>10
  <1> QED  BY <1>8, <1>11

\* What comes out is what the slip says.
LEMMA PrintedSlip ==
    ASSUME TypeOK, NEW s \in batch, BridgePrint(s)
    PROVE  paper'[s.order][Len(paper[s.order]) + 1] = [rev |-> s.rev, reason |-> s.reason]
  <1>1. /\ s.order \in Orders /\ [rev |-> s.rev, reason |-> s.reason] \in PaperSlip
        /\ paper \in [Orders -> Seq(PaperSlip)]
    BY DEF TypeOK, BridgeTypes, Slip, PaperSlip
  <1>2. paper'[s.order] = Append(paper[s.order], [rev |-> s.rev, reason |-> s.reason])
    BY <1>1 DEF BridgePrint
  <1> QED  BY <1>1, <1>2, AfterAppend

\* A slip comes out with the reason of its ticket; a cancellation comes after what is
\* on paper.
LEMMA NotesOnPaperStep ==
    ASSUME Inv, NoteInv, NotesOnPaper, ~LateAcks, [Next]_vars
    PROVE  NotesOnPaper'
  <1> SUFFICES ASSUME crashes' = 0, NEW o \in Orders, NEW i \in 1..Len(paper'[o])
               PROVE  paper'[o][i].reason = "cancelled" <=>
                         status'[o] = "cancelled" /\ paper'[o][i].rev = rev'[o]
    BY DEF NotesOnPaper
  <1> USE DEF Inv
  <1>0. crashes = 0 /\ TicketInv /\ PickupInv /\ ReasonInv
    BY CrashesStay DEF NoteInv
  <1>1. ASSUME NEW p \in Orders, TapNext(p)
        PROVE  paper'[o][i].reason = "cancelled" <=>
                  status'[o] = "cancelled" /\ paper'[o][i].rev = rev'[o]
    <2>1. /\ paper' = paper
          /\ \A q \in Orders \ {p} : status'[q] = status[q] /\ rev'[q] = rev[q]
      BY <1>1, TapHasEffect DEF TapEffect, bridgeVars
    <2>2. i \in 1..Len(paper[o])
      BY <2>1
    <2>3. /\ paper[o][i].reason = "cancelled" <=>
                status[o] = "cancelled" /\ paper[o][i].rev = rev[o]
          /\ paper[o][i].rev \in Nat /\ paper[o][i].rev <= rev[o]
      BY <1>0, <2>2, PaperBehind DEF NotesOnPaper
    <2>4. CASE o # p
      BY <2>1, <2>3, <2>4
    <2>5. CASE o = p
      <3>1. rev[o] \in Nat /\ CancelsOrNot(o)
        BY <1>1, <2>5, TapCancels, Basics
      <3> QED  BY <2>1, <2>3, <3>1 DEF CancelsOrNot
    <2> QED  BY <2>4, <2>5
  <1>2. CASE UNCHANGED <<paper, status, rev>>
    BY <1>0, <1>2 DEF NotesOnPaper
  <1>3. ASSUME NEW s \in batch, BridgePrint(s)
        PROVE  paper'[o][i].reason = "cancelled" <=>
                  status'[o] = "cancelled" /\ paper'[o][i].rev = rev'[o]
    <2>1. UNCHANGED <<status, rev>>
      BY <1>3 DEF BridgePrint, orderVars
    <2>2. CASE o # s.order
      <3>1. paper'[o] = paper[o]
        BY <1>3, <2>2, PaperAfterPrint
      <3> QED  BY <1>0, <2>1, <3>1 DEF NotesOnPaper
    <2>3. CASE o = s.order
      <3>1. /\ Len(paper'[o]) = Len(paper[o]) + 1
            /\ \A k \in 1..Len(paper[o]) : paper'[o][k] = paper[o][k]
            /\ paper'[o][Len(paper[o]) + 1] = [rev |-> s.rev, reason |-> s.reason]
        BY <1>3, <2>3, PrintedSlip, PaperAfterPrint
      <3>2. Len(paper[o]) \in Nat
        <4>1. paper[o] \in Seq(PaperSlip)
          BY DEF TypeOK, BridgeTypes, PaperSlip
        <4> QED  BY <4>1, LenProperties
      <3>3. CASE i \in 1..Len(paper[o])
        BY <1>0, <2>1, <3>1, <3>3 DEF NotesOnPaper
      <3>4. CASE i = Len(paper[o]) + 1
        <4>1. paper'[o][i].rev = s.rev /\ paper'[o][i].reason = s.reason
          BY <3>1, <3>4
        <4>2. s \in Handed /\ s.ticket \in Issued /\ s = SlipOf(s.ticket)
          BY <1>0, <1>3 DEF Handed, OutInv, PickupInv
        <4>3. /\ s.order = ticket[s.ticket].order /\ s.rev = ticket[s.ticket].rev
              /\ s.reason = ticket[s.ticket].reason
          BY <4>2 DEF SlipOf
        <4> QED  BY <1>0, <2>1, <2>3, <4>1, <4>2, <4>3 DEF ReasonInv
      <3> QED  BY <3>1, <3>2, <3>3, <3>4
    <2> QED  BY <2>2, <2>3
  <1>4. CASE ServerNext
    <2>1. UNCHANGED <<paper, status, rev>>
      BY <1>4, ServerWires
    <2> QED  BY <1>2, <2>1
  <1>5. CASE BridgeNext /\ \A s \in batch : ~BridgePrint(s)
    <2>1. UNCHANGED paper
      BY <1>5, OnlyPrintPrints
    <2>2. UNCHANGED <<status, rev>>
      BY <1>5, BridgeHasEffect DEF orderVars
    <2> QED  BY <1>2, <2>1, <2>2
  <1>6. CASE UNCHANGED vars
    BY <1>2, <1>6 DEF vars, orderVars, bridgeVars
  <1> QED  BY <1>1, <1>3, <1>4, <1>5, <1>6 DEF Next, ServerNext

\* What the kitchen has, the server knows: no cancellation without a note.
LEMMA NoteBehindSlip ==
    ASSUME Inv, NoteInv, NotesOnPaper, ~LateAcks
    PROVE  CancelledSlipHasNote
  <1> SUFFICES ASSUME crashes = 0, NEW o \in Orders, status[o] = "cancelled",
                      paper[o] # <<>>, handover[o] = "none"
               PROVE  FALSE
    BY DEF NotesOnPaper, CancelledSlipHasNote
  <1>1. SlipInv /\ GoneInv
    BY DEF NoteInv
  <1>2. Have[o] > 0
    BY LastType DEF Have, Inv
  <1>3. PICK e \in TicketsOf(o) : Held(ticket[e])
    BY <1>1, <1>2 DEF SlipInv
  <1> QED  BY <1>1, <1>3 DEF GoneInv

\* While the bridge keeps running and every answer arrives within the lease of its
\* pickup, a slip of a cancelled order has its note (cancel_order, withdraw_tickets).
THEOREM CancelledSlipsHaveNotes == ~LateAcks => (Spec => []CancelledSlipHasNote)
  <1> SUFFICES ASSUME ~LateAcks PROVE Spec => []CancelledSlipHasNote
    OBVIOUS
  <1>1. Init => LogKnows /\ NoteInv /\ NotesOnPaper
    <2>1. Init => LogKnows /\ NotesOnPaper
      BY DEF Init, LogKnows, NotesOnPaper, Have
    <2> QED  BY <2>1, NoteInit
  <1>2. /\ Inv /\ LogKnows /\ NoteInv /\ NotesOnPaper /\ [Next]_vars
        => LogKnows' /\ NoteInv' /\ NotesOnPaper'
    BY LogKnowsStep, NoteStep, NotesOnPaperStep
  <1>3. Inv /\ NoteInv /\ NotesOnPaper => CancelledSlipHasNote
    BY NoteBehindSlip
  <1> QED  BY <1>1, <1>2, <1>3, Invariance, PTL DEF Spec
=============================================================================
