--------------------------- MODULE MCEventPipeline ---------------------------
(***************************************************************************)
(* EventPipeline on a small instance.  Guards and rows are kept per        *)
(* message and messages share only the dispatch switch, the process and    *)
(* the workers, so that one message with several deliveries meets every    *)
(* case; there is a work for every delivery that may write one.            *)
(***************************************************************************)
EXTENDS EventPipeline, TLC

CONSTANTS m1, k1, k2, w1, w2

OneMessage == {m1}
TwoWorks   == {k1, k2}
TwoWorkers == {w1, w2}

(* Works are interchangeable: no definition names one. *)
WorkSymmetry == Permutations(Works)
=============================================================================
