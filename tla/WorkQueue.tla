----------------------------- MODULE WorkQueue -----------------------------
(***************************************************************************)
(* What the EventSub processing inbox promises to the transports that fill *)
(* it: a submitted work is pending until it is either delivered or given   *)
(* up as a dead letter; a delivered work is finished for good; a dead      *)
(* letter stays one until an administrator puts it back.                   *)
(***************************************************************************)
CONSTANT Works

VARIABLE status

Status == {"absent", "pending", "delivered", "dead"}

Init == status = [k \in Works |-> "absent"]

Move(k, from, to) ==
    /\ status[k] = from
    /\ status' = [status EXCEPT ![k] = to]

Submit(k)  == Move(k, "absent", "pending")
Deliver(k) == Move(k, "pending", "delivered")
GiveUp(k)  == Move(k, "pending", "dead")
Requeue(k) == Move(k, "dead", "pending")

Next == \E k \in Works : Submit(k) \/ Deliver(k) \/ GiveUp(k) \/ Requeue(k)

Spec == Init /\ [][Next]_status

(* Every pending work is settled one way or the other. *)
Fairness == \A k \in Works : WF_status(Deliver(k) \/ GiveUp(k))

FairSpec == Spec /\ Fairness
=============================================================================
