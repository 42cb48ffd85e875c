-------------------------- MODULE EventSubIngress --------------------------
(***************************************************************************)
(* How a notification gets from Twitch into the processing inbox: the      *)
(* webhook callback (webhook_receiver.rs), the dispatcher with its         *)
(* message-id guard (dispatch.rs, guard.rs) and Twitch, which delivers a   *)
(* message again until it is answered with a 2xx.                          *)
(*                                                                         *)
(* A delivery is one HTTP request.  Its signature, headers and body are    *)
(* well formed; the core types (CORE_DELIVERY_TYPES) are meant, whose only *)
(* effect in here is a row in the inbox.  Guards are kept as remaining     *)
(* times, 0 for an expired or missing row; `claim` treats both alike.      *)
(***************************************************************************)
EXTENDS Integers, FiniteSets

CONSTANTS
    Messages,                   \* message ids
    MaxDeliveries,              \* bound on the deliveries of one message
    MESSAGE_DEDUP_TTL_SECONDS,  \* life of a message guard
    MAX_MESSAGE_AGE_SECONDS,    \* oldest timestamp the callback accepts
    MaxSkew,                    \* how far Twitch's clock may be ahead of ours
    MaxFaults                   \* bound on crashes, cut claims, failed releases

ASSUME IngressAssumption ==
    /\ MaxDeliveries \in Nat \ {0}
    /\ MESSAGE_DEDUP_TTL_SECONDS \in Nat \ {0}
    /\ MAX_MESSAGE_AGE_SECONDS \in Nat
    /\ MESSAGE_DEDUP_TTL_SECONDS <= MAX_MESSAGE_AGE_SECONDS + 1
    /\ MaxSkew \in Nat
    /\ MaxFaults \in Nat

Deliveries == 1 .. MaxDeliveries

(* Where a delivery is; "cut" means that the process died or the           *)
(* connection closed before there was an answer.                           *)
Answers == {"204", "503", "403", "cut"}
Stages  == {"unused", "received", "admitted", "claimed", "refused"} \cup Answers

VARIABLES
    req,      \* stage of every delivery
    age,      \* our clock minus the message's timestamp, cut off when too old
    guard,    \* remaining life of the message guard
    copies,   \* inbox rows enqueued for the message
    acked,    \* messages for which Twitch got a 204
    active,   \* dispatch_active
    faults,   \* faults left
    late,     \* history: enqueues that failed after their row was written
    troubled  \* history: messages with a cut or overlapping delivery, or
              \* with a guard that could not be released

vars == <<req, age, guard, copies, acked, active, faults, late, troubled>>

Sent(m) == req[m][1] # "unused"
Pending(m) == {i \in Deliveries :
                 req[m][i] \in {"received", "admitted", "claimed", "refused"}}

Init ==
    /\ req = [m \in Messages |-> [i \in Deliveries |-> "unused"]]
    /\ age \in [Messages -> -MaxSkew .. 0]
    /\ guard = [m \in Messages |-> 0]
    /\ copies = [m \in Messages |-> 0]
    /\ acked = {}
    /\ active = TRUE
    /\ faults = MaxFaults
    /\ late = [m \in Messages |-> 0]
    /\ troubled = {}

Moves(m, i, from, to) ==
    /\ req[m][i] = from
    /\ req' = [req EXCEPT ![m][i] = to]

(* Twitch delivers the message, or delivers it again: it has not seen a    *)
(* 2xx.  It need not wait for an answer that is slow.                      *)
Deliver(m, i) ==
    /\ Moves(m, i, "unused", "received")
    /\ i > 1 => req[m][i - 1] # "unused" /\ m \notin acked
    /\ troubled' = IF Pending(m) # {} THEN troubled \cup {m} ELSE troubled
    /\ UNCHANGED <<age, guard, copies, acked, active, faults, late>>

TooOld(m) == age[m] > MAX_MESSAGE_AGE_SECONDS \/ age[m] < -MAX_MESSAGE_AGE_SECONDS

(* handle_callback up to the dispatch: the age of the timestamp, then      *)
(* ensure_dispatch_ready.                                                  *)
Reject(m, i) ==
    /\ TooOld(m)
    /\ Moves(m, i, "received", "403")
    /\ UNCHANGED <<age, guard, copies, acked, active, faults, late, troubled>>

NotReady(m, i) ==
    /\ ~TooOld(m) /\ ~active
    /\ Moves(m, i, "received", "503")
    /\ UNCHANGED <<age, guard, copies, acked, active, faults, late, troubled>>

Admit(m, i) ==
    /\ ~TooOld(m) /\ active
    /\ Moves(m, i, "received", "admitted")
    /\ UNCHANGED <<age, guard, copies, acked, active, faults, late, troubled>>

(* Mutant of ClaimGuard: the row expires too early. *)
ClaimShort(m) ==
    /\ guard[m] = 0
    /\ guard' = [guard EXCEPT ![m] = MESSAGE_DEDUP_TTL_SECONDS - 1]

(* GuardStore::claim wins when no unexpired row exists, by the clock that  *)
(* dispatch read right before it.                                          *)
ClaimGuard(m) ==
    /\ guard[m] = 0
    /\ guard' = [guard EXCEPT ![m] = MESSAGE_DEDUP_TTL_SECONDS]

(* The 204 may reach Twitch, or too late for it to count. *)
Acknowledge(m) == acked' \in {acked, acked \cup {m}}

(* dispatch: the claim is won and the task that routes the message starts, *)
Claim(m, i) ==
    /\ Moves(m, i, "admitted", "claimed")
    /\ ClaimGuard(m)
    /\ UNCHANGED <<age, copies, acked, active, faults, late, troubled>>

(* or it is lost and the message is answered as a duplicate,               *)
Duplicate(m, i) ==
    /\ guard[m] > 0
    /\ Moves(m, i, "admitted", "204")
    /\ Acknowledge(m)
    /\ UNCHANGED <<age, guard, copies, active, faults, late, troubled>>

(* or the database fails, and there is nothing to release.                 *)
ClaimFails(m, i) ==
    /\ Moves(m, i, "admitted", "503")
    /\ UNCHANGED <<age, guard, copies, acked, active, faults, late, troubled>>

(* or the connection closes during the claim: the request's future is      *)
(* dropped before the task starts, and nobody releases the guard.          *)
ClaimCut(m, i) ==
    /\ faults > 0
    /\ Moves(m, i, "admitted", "cut")
    /\ ClaimGuard(m)
    /\ faults' = faults - 1
    /\ troubled' = troubled \cup {m}
    /\ UNCHANGED <<age, copies, acked, active, late>>

(* route and complete: the row is in the inbox and the answer is 204.      *)
Enqueue(m, i) ==
    /\ Moves(m, i, "claimed", "204")
    /\ copies' = [copies EXCEPT ![m] = @ + 1]
    /\ Acknowledge(m)
    /\ UNCHANGED <<age, guard, active, faults, late, troubled>>

(* Mutant of RouteFails: the error is swallowed. *)
RouteFailsQuietly(m, i) ==
    /\ Moves(m, i, "claimed", "204")
    /\ Acknowledge(m)
    /\ UNCHANGED <<age, guard, copies, active, faults, late, troubled>>

(* route fails or panics before the row is written: the login could not be *)
(* reconciled, the broadcaster is missing, the insert failed.              *)
RouteFails(m, i) ==
    /\ Moves(m, i, "claimed", "refused")
    /\ UNCHANGED <<age, guard, copies, acked, active, faults, late, troubled>>

(* The insert is committed but reported as an error. *)
EnqueueLate(m, i) ==
    /\ Moves(m, i, "claimed", "refused")
    /\ copies' = [copies EXCEPT ![m] = @ + 1]
    /\ late' = [late EXCEPT ![m] = @ + 1]
    /\ UNCHANGED <<age, guard, acked, active, faults, troubled>>

(* Mutant of Release: the guard stays. *)
ReleaseForgotten(m, i) ==
    /\ Moves(m, i, "refused", "503")
    /\ UNCHANGED <<age, guard, copies, acked, active, faults, late, troubled>>

(* release_message_guard deletes the row whoever claimed it, then 503.     *)
Release(m, i) ==
    /\ Moves(m, i, "refused", "503")
    /\ guard' = [guard EXCEPT ![m] = 0]
    /\ UNCHANGED <<age, copies, acked, active, faults, late, troubled>>

(* A failed release is only logged. *)
ReleaseFails(m, i) ==
    /\ faults > 0
    /\ Moves(m, i, "refused", "503")
    /\ faults' = faults - 1
    /\ troubled' = troubled \cup {m}
    /\ UNCHANGED <<age, guard, copies, acked, active, late>>

(* set_dispatch_active *)
SetDispatchActive ==
    /\ active' = ~active
    /\ UNCHANGED <<req, age, guard, copies, acked, faults, late, troubled>>

(* The process dies and starts again: open requests get no answer, the     *)
(* database keeps guards and rows, and EventSubDispatcher::new accepts.    *)
Crash ==
    /\ faults > 0
    /\ faults' = faults - 1
    /\ req' = [m \in Messages |-> [i \in Deliveries |->
                    IF i \in Pending(m) THEN "cut" ELSE req[m][i]]]
    /\ troubled' = troubled \cup {m \in Messages : Pending(m) # {}}
    /\ active' = TRUE
    /\ UNCHANGED <<age, guard, copies, acked, late>>

(* One unit of time.  A message that was not sent yet has no age. *)
Tick ==
    /\ guard' = [m \in Messages |-> IF guard[m] > 0 THEN guard[m] - 1 ELSE 0]
    /\ age' = [m \in Messages |->
                 IF Sent(m) /\ age[m] <= MAX_MESSAGE_AGE_SECONDS
                 THEN age[m] + 1 ELSE age[m]]
    /\ UNCHANGED <<req, copies, acked, active, faults, late, troubled>>

(* The steps that write a row to the inbox, *)
Insert(m, i) == Enqueue(m, i) \/ EnqueueLate(m, i)

(* and those that do not. *)
Serve(m, i) ==
    \/ Reject(m, i) \/ NotReady(m, i) \/ Admit(m, i)
    \/ Claim(m, i) \/ Duplicate(m, i) \/ ClaimFails(m, i) \/ ClaimCut(m, i)
    \/ RouteFails(m, i)
    \/ Release(m, i) \/ ReleaseFails(m, i)

Handle(m, i) == Serve(m, i) \/ Insert(m, i)

Next ==
    \/ \E m \in Messages, i \in Deliveries : Deliver(m, i) \/ Handle(m, i)
    \/ SetDispatchActive
    \/ Crash
    \/ Tick

Spec == Init /\ [][Next]_vars

-----------------------------------------------------------------------------
(* Properties. *)

(* Every variable keeps its type. *)
TypeOK ==
    /\ req \in [Messages -> [Deliveries -> Stages]]
    /\ age \in [Messages -> -MaxSkew .. MAX_MESSAGE_AGE_SECONDS + 1]
    /\ guard \in [Messages -> 0 .. MESSAGE_DEDUP_TTL_SECONDS]
    /\ copies \in [Messages -> Nat]
    /\ acked \subseteq Messages
    /\ active \in BOOLEAN
    /\ faults \in Nat
    /\ late \in [Messages -> Nat]
    /\ troubled \subseteq Messages

(* The message guard keeps a message out of the inbox a second time while  *)
(* it is younger than the guard's life, however its deliveries overlap and *)
(* wherever the process dies.  Only an insert that was written and yet     *)
(* reported as failed lets a second row in.                                *)
DedupWhileYoung ==
    \A m \in Messages :
        age[m] < MESSAGE_DEDUP_TTL_SECONDS - MaxSkew => copies[m] <= 1 + late[m]

(* A message Twitch was answered 204 for, and will not deliver again, is   *)
(* in the inbox.  This is the part of the claim below that the code keeps: *)
(* no delivery of the message was cut off by a crash, overlapped another,  *)
(* or left its guard behind.                                               *)
AckedUnlessTroubled == \A m \in acked \ troubled : copies[m] > 0

(* dispatch.rs: core types go to the durable inbox, and after an Err the   *)
(* guard is released so that the retry is taken.                           *)
AckedIsDurable ==
    \A m \in acked : Pending(m) = {} => copies[m] > 0

(* After an error the retry is taken: a message whose deliveries have all  *)
(* been answered with an error can still be claimed.                       *)
RetryNotBlocked ==
    \A m \in Messages \ troubled :
        (Pending(m) = {} /\ copies[m] = 0) => guard[m] = 0
=============================================================================
