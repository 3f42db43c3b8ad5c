---------------------------- MODULE FloorPlanMC ----------------------------
(* Two tablets have the dining room open, one of them the terrace as well;  *)
(* a reservation is confirmed with the two tables of the dining room.  The  *)
(* team lets those two swap their names, gives one a name that the terrace  *)
(* may take at the same time, or takes it off the plan.                    *)
EXTENDS FloorPlan, TLC

CONSTANTS s1, s2, s3, hall, terrace, t1, t2, t3, n1, n2, n3, b1

OpenRooms  == s1 :> hall @@ s2 :> hall @@ s3 :> terrace
Rooms      == t1 :> hall @@ t2 :> hall @@ t3 :> terrace
Furnished  == t1 :> n1 @@ t2 :> n2 @@ t3 :> NoName
Drawn      == {Furnished,
               t1 :> n2 @@ t2 :> n1 @@ t3 :> n3,
               t1 :> n1 @@ t2 :> n3 @@ t3 :> n3,
               t1 :> n1 @@ t2 :> NoName @@ t3 :> n2}
BothTables == b1 :> {t1, t2}
=============================================================================
