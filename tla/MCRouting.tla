----------------------------- MODULE MCRouting -----------------------------
(* Routing.tla with one user of ours and one user of each server of two remote  *)
(* servers, of which this worker has both.                                 *)
EXTENDS Routing

CONSTANTS us, amber, blue, worker, other

MCUsers == {"u", "a", "b"}
MCDomain == ("u" :> us) @@ ("a" :> amber) @@ ("b" :> blue)
MCHash == (us :> 0) @@ (amber :> 4) @@ (blue :> 7)
MCInstances == <<other, worker, other>>
=============================================================================
