--------------------------- MODULE MCDeployQueue ---------------------------
(***************************************************************************)
(* DeployQueue with one urgent ticket, for the first commit of main.       *)
(***************************************************************************)
EXTENDS DeployQueue

CONSTANT a

OneTicket == {a}
FirstCommit == [t \in Tickets |-> 1]
=============================================================================
