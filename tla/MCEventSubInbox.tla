-------------------------- MODULE MCEventSubInbox --------------------------
(***************************************************************************)
(* EventSubInbox on small instances.                                       *)
(***************************************************************************)
EXTENDS EventSubInbox, TLC

CONSTANTS k1, k2, w1, w2

TwoWorks   == {k1, k2}
OneWork    == {k1}
TwoWorkers == {w1, w2}
OneWorker  == {w1}

(* Workers are interchangeable: no definition names one. *)
WorkerSymmetry == Permutations(Workers)
=============================================================================
