------------------------- MODULE MCEventSubIngress -------------------------
(***************************************************************************)
(* EventSubIngress on a small instance.  Guards and rows are kept per      *)
(* message and messages share only the dispatch switch and the process, so *)
(* that one message with several deliveries meets every case.              *)
(***************************************************************************)
EXTENDS EventSubIngress

CONSTANT m1

OneMessage == {m1}
=============================================================================
