-------------------------- MODULE GuardedEffects --------------------------
(***************************************************************************)
(* What the business-effect guards promise for the effects of a message:   *)
(* an effect is taken up by one handler at a time.  One that went wrong    *)
(* may be taken up again; one that was completed is closed, and so is, as  *)
(* the price, one whose handler died or could not give its guard back.     *)
(* What is closed stays closed until its guard is forgotten.               *)
(***************************************************************************)
EXTENDS Integers

CONSTANT Keys

VARIABLES
    effect,  \* of a key: "free", "running" or "closed"
    times    \* how often it was completed

effectVars == <<effect, times>>

Init ==
    /\ effect = [k \in Keys |-> "free"]
    /\ times = [k \in Keys |-> 0]

Move(k, from, to) ==
    /\ effect[k] = from
    /\ effect' = [effect EXCEPT ![k] = to]

TakeUp(k) == Move(k, "free", "running") /\ UNCHANGED times

Finish(k) ==
    /\ Move(k, "running", "closed")
    /\ times' = [times EXCEPT ![k] = @ + 1]

GiveBack(k) == Move(k, "running", "free") /\ UNCHANGED times

Forget(k) == Move(k, "closed", "free") /\ UNCHANGED times

(* A crash ends several effects at once, and completes none. *)
Lose ==
    /\ effect' \in [Keys -> {"free", "running", "closed"}]
    /\ \A k \in Keys : \/ effect'[k] = effect[k]
                       \/ effect[k] = "running" /\ effect'[k] = "closed"
    /\ UNCHANGED times

Next ==
    \/ Lose
    \/ \E k \in Keys : TakeUp(k) \/ Finish(k) \/ GiveBack(k) \/ Forget(k)

Spec == Init /\ [][Next]_effectVars
=============================================================================
