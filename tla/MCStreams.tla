------------------------------ MODULE MCStreams ------------------------------
(* Small instances of the replication streams and of the typing sender.     *)
EXTENDS Streams

CONSTANTS Typist, Persister, RoomA, RoomB, alice, bob

WritesTo == [w \in Writers |->
               IF w = Typist THEN "typing" ELSE "events"]

OneEach == [r \in Rooms |-> IF r = RoomA THEN {alice} ELSE {bob}]

Batches == [s \in Streams |-> IF s = "typing" THEN 2 ELSE 1]
=============================================================================
