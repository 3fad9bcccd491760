---------------------------- MODULE MCHttpSink ----------------------------
(* HttpSink.tla with durations of eight bits, in which 4^3 seconds wrap,   *)
(* and cache periods in the order of the code's.                           *)
EXTENDS HttpSink
=============================================================================
