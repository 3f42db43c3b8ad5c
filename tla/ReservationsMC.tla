--------------------------- MODULE ReservationsMC ---------------------------
(* Small instances of Reservations: an evening window that reaches past     *)
(* midnight, so that its two times lock different pairs of days.            *)
EXTENDS Reservations, TLC

CONSTANTS r1, r2, r3, m1, m2, c1, c2, t1, t2, t3, ta, tb

Times   == {"23:30", "00:30"}
Evening == [s \in Times |-> IF s = "23:30" THEN 1 ELSE 2]
OneTurn == [s \in Times |-> "evening"]

\* The last time lies outside every window.
LateTimes   == Times \cup {"02:30"}
LateEvening == [s \in LateTimes |-> IF s = "23:30" THEN 1 ELSE 2]
SomeTurn    == [s \in LateTimes |-> IF s = "02:30" THEN NoWindow ELSE "evening"]

OneTable  == {{}, {ta}}
TwoTables == {{}, {ta}, {ta, tb}}

Symmetry == Permutations(Txns)
=============================================================================
