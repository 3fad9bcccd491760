--------------------------- MODULE MCEventPickup ---------------------------
(* EventPickup.tla for three or four events in two rooms, the fourth of    *)
(* which goes nowhere.                                                     *)
EXTENDS EventPickup

CONSTANTS RoomA, RoomB, Near

Alternating == [o \in Orderings |-> IF o % 2 = 1 THEN RoomA ELSE RoomB]

AllButTheLast == [o \in Orderings |-> IF o = 4 THEN {} ELSE Servers]
=============================================================================
