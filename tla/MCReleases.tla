----------------------------- MODULE MCReleases -----------------------------
(***************************************************************************)
(* Releases on a small instance: ticket a for the first commit of main,    *)
(* submitted with --now, and ticket b for the second.  The first commit    *)
(* changes the bot and a script of the dashboard, the second nothing that  *)
(* a release holds, the third reverts the script: so there can be nothing  *)
(* to deploy, and a release that is put back after a ticket was deployed.  *)
(***************************************************************************)
EXTENDS Releases

CONSTANTS a, b, bot, dashboard, tb_bot, tb_dashboard, script

TwoTickets == {a, b}
Urgent     == {a}
CommitsOfTickets == [t \in Tickets |-> IF t = a THEN 1 ELSE 2]

AllArtifacts == {tb_bot, tb_dashboard, script}
Restarted == [x \in Artifacts |-> IF x = tb_bot THEN {bot} ELSE {dashboard}]
Binary    == [s \in Services |-> IF s = bot THEN tb_bot ELSE tb_dashboard]

Versions(c, x) ==
    CASE x = tb_bot       -> IF c = 0 THEN 0 ELSE 1
      [] x = script       -> IF c \in {1, 2} THEN 1 ELSE 0
      [] x = tb_dashboard -> 0
InputsByCommit == [c \in Commits |-> [x \in Artifacts |-> Versions(c, x)]]
=============================================================================
