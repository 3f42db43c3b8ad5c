---------------------------- MODULE KitchenCard ----------------------------
(***************************************************************************)
(* What the handover promises the team about one card on the tablet.       *)
(*                                                                         *)
(* `want` is the revision the order stands at, `have` the revision of the  *)
(* last slip at the printer (0: none, r + 1: revision r), `card` the       *)
(* colour of the card.  Green is a claim about the printer: the last slip  *)
(* there shows the order as it stands.  A slip is never older than the one *)
(* before it, and a green card changes only because the order does.        *)
(***************************************************************************)
EXTENDS Naturals

CONSTANTS Orders,       \* the orders of the restaurant
          MaxRevision   \* most changes of one order

VARIABLES want, have, card

cardVars == <<want, have, card>>

Colours == {"none", "pending", "sent", "failed"}

Init ==
    /\ want = [o \in Orders |-> 0]
    /\ have = [o \in Orders |-> 0]
    /\ card = [o \in Orders |-> "none"]

\* The order goes to the kitchen: confirmed, released, or sent again when red.
Send(o) ==
    /\ card[o] \in {"none", "failed"}
    /\ card' = [card EXCEPT ![o] = "pending"]
    /\ UNCHANGED <<want, have>>

\* The team changes the order: the kitchen needs a new slip, or none at all (an
\* order still held back, or cancelled before anything was printed).
Change(o) ==
    /\ want[o] < MaxRevision
    /\ want' = [want EXCEPT ![o] = @ + 1]
    /\ \E colour \in {"none", "pending"} : card' = [card EXCEPT ![o] = colour]
    /\ UNCHANGED have

\* A slip comes out of the printer.
SlipOut(o) ==
    /\ \E r \in 0..want[o] : r + 1 >= have[o] /\ have' = [have EXCEPT ![o] = r + 1]
    /\ UNCHANGED <<want, card>>

\* The kitchen has the order as it stands.
Arrived(o) ==
    /\ card[o] \in {"pending", "failed"}
    /\ have[o] = want[o] + 1
    /\ card' = [card EXCEPT ![o] = "sent"]
    /\ UNCHANGED <<want, have>>

\* It does not, or nobody knows.
Alarm(o) ==
    /\ card[o] = "pending"
    /\ card' = [card EXCEPT ![o] = "failed"]
    /\ UNCHANGED <<want, have>>

Next == \E o \in Orders : Send(o) \/ Change(o) \/ SlipOut(o) \/ Arrived(o) \/ Alarm(o)

Spec == Init /\ [][Next]_cardVars
=============================================================================
