----------------------------- MODULE MCCatchUp -----------------------------
(* CatchUp.tla for two or three events in one room or in two.              *)
EXTENDS CatchUp

OneRoom == [so \in Orderings |-> CHOOSE r \in Rooms : TRUE]

CONSTANTS RoomA, RoomB

Alternating == [so \in Orderings |-> IF so % 2 = 1 THEN RoomA ELSE RoomB]
=============================================================================
