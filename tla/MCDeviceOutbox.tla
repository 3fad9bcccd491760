--------------------------- MODULE MCDeviceOutbox ---------------------------
(* Three rows in the two tables, two goroutines, one failure of each kind. *)
EXTENDS DeviceOutbox, TLC

Symmetry == Permutations(Readers)
=============================================================================
