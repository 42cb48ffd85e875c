----------------------------- MODULE TicketDesk -----------------------------
(***************************************************************************)
(* What the deploy queue promises to the agents that submit tickets: a     *)
(* ticket is taken up once, gets one outcome, and its thread is told that  *)
(* outcome and no other.  The live release may go back as well as forward, *)
(* but a ticket whose outcome is "deployed" has its commit in it for ever. *)
(* Agents see nothing of batches, crashes, wrappers and compaction.        *)
(***************************************************************************)
EXTENDS Integers

CONSTANTS Tickets, Commit

VARIABLES
    status,  \* of a ticket: where it is, or its outcome
    live,    \* the live release
    told     \* the outcomes a ticket's thread was told

deskVars == <<status, live, told>>

Verdicts == {"deployed", "no_deploy_needed", "failed"}

Init ==
    /\ status = [t \in Tickets |-> "absent"]
    /\ live = 0
    /\ told = [t \in Tickets |-> {}]

Submit(t) ==
    /\ status[t] = "absent"
    /\ status' = [status EXCEPT ![t] = "pending"]
    /\ UNCHANGED <<live, told>>

(* Tickets are taken up together, ... *)
Start(S) ==
    /\ \A t \in S : status[t] = "pending"
    /\ status' = [t \in Tickets |-> IF t \in S THEN "running" ELSE status[t]]
    /\ UNCHANGED <<live, told>>

(* Another release becomes the live one. *)
Release ==
    /\ live' \in Nat
    /\ \A t \in Tickets : status[t] = "deployed" => Commit[t] <= live'
    /\ UNCHANGED <<status, told>>

(* ... and decided together, though not all alike. *)
Decide(S) ==
    /\ \A t \in S :
        /\ status[t] = "running"
        /\ status'[t] \in Verdicts
        /\ status'[t] = "deployed" => Commit[t] <= live
    /\ status' \in [Tickets -> Verdicts \cup {"absent", "pending", "running"}]
    /\ \A t \in Tickets \ S : status'[t] = status[t]
    /\ UNCHANGED <<live, told>>

Tell(t) ==
    /\ status[t] \in Verdicts
    /\ told' = [told EXCEPT ![t] = @ \cup {status[t]}]
    /\ UNCHANGED <<status, live>>

Next ==
    \/ \E t \in Tickets : Submit(t) \/ Tell(t)
    \/ \E S \in SUBSET Tickets : Start(S) \/ Decide(S)
    \/ Release

Spec == Init /\ [][Next]_deskVars
=============================================================================
