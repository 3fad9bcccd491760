--------------------------- MODULE MCDestination ---------------------------
(* Destination.tla on small instances; each .cfg picks which producers     *)
(* run, how the remote may answer and how far the bounds reach.            *)
EXTENDS Destination, TLC

(* Receipts and presence treat their slots alike.                          *)
Symmetry == Permutations(Users) \cup Permutations(Readers) \cup Permutations(Keys)
              \cup Permutations(Threads)
=============================================================================
