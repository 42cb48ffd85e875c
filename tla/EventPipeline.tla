---------------------------- MODULE EventPipeline ----------------------------
(***************************************************************************)
(* A notification from Twitch to its handler: the ingress of tb-bot        *)
(* (EventSubIngress, extended) and the processing inbox with its workers   *)
(* (EventSubInbox, instantiated as Box) over the row that joins them, as   *)
(* main.rs wires the dispatcher to the inbox's enqueuer.                   *)
(*                                                                         *)
(* The ingress and the worker Own live in one process and die together;    *)
(* the other workers are processes of their own that share the tables.     *)
(* There is one time for all.                                              *)
(***************************************************************************)
EXTENDS EventSubIngress

CONSTANTS
    Works, Workers,
    Own,                 \* the worker of the process that has the ingress
    INBOX_BATCH_SIZE, INBOX_LEASE_SECONDS, INBOX_MAX_ATTEMPTS,
    INBOX_RETRY_BASE_SECONDS, INBOX_RETRY_MAX_SECONDS,
    Timely,
    MaxBoxFaults,        \* the inbox's MaxFaults
    MaxRequeues,
    NoMessage            \* the message of a work that was not written yet

VARIABLES
    inbox, dead, queued, due, attempts, inserts,
    pc, held, cur, leaseLeft, stop,
    boxFaults, requeues,
    submitted, handled, fails,
    message              \* message_id of a work

Box == INSTANCE EventSubInbox WITH MaxFaults <- MaxBoxFaults, faults <- boxFaults

ASSUME PipelineAssumption == Own \in Workers /\ NoMessage \notin Messages

ASSUME BoxAssumption ==
    Box!WorkerAssumption /\ Box!InboxAssumption /\ Box!DelayAssumption

boxVars == <<inbox, dead, queued, due, attempts, inserts, pc, held, cur,
             leaseLeft, stop, boxFaults, requeues, submitted, handled, fails>>

pipelineVars == <<vars, boxVars, message>>

PipelineInit ==
    /\ Init
    /\ Box!Init
    /\ message = [k \in Works |-> NoMessage]

(* Mutant of Write: the row does not carry the message. *)
WriteUnnamed(m, i, k) ==
    /\ Insert(m, i)
    /\ Box!Enqueue(k)
    /\ UNCHANGED message

(* route hands the message to the inbox: the row is written under a fresh  *)
(* work_id, whether or not the ingress learns of it.                       *)
Write(m, i, k) ==
    /\ Insert(m, i)
    /\ Box!Enqueue(k)
    /\ message' = [message EXCEPT ![k] = m]

(* The process dies, with its requests and with its worker's batch. *)
ProcessCrash ==
    /\ Crash
    /\ Box!Crash(Own) \/ (pc[Own] = "off" /\ UNCHANGED boxVars)
    /\ UNCHANGED message

(* A step of the ingress alone, *)
IngressStep ==
    /\ \/ \E m \in Messages, i \in Deliveries : Deliver(m, i) \/ Serve(m, i)
       \/ SetDispatchActive
    /\ UNCHANGED <<boxVars, message>>

(* and of the inbox alone.  tb-bot never sends its worker a stop signal.   *)
BoxStep ==
    /\ \/ \E k \in Works : Box!RequeueDeadLetter(k)
       \/ \E w \in Workers : Box!Progress(w) \/ Box!MarkFails(w)
       \/ \E w \in Workers \ {Own} : Box!Shutdown(w) \/ Box!Crash(w)
    /\ UNCHANGED <<vars, message>>

PipelineTick == Tick /\ Box!Tick /\ UNCHANGED message

PipelineNext ==
    \/ \E m \in Messages, i \in Deliveries, k \in Works : Write(m, i, k)
    \/ ProcessCrash
    \/ IngressStep
    \/ BoxStep
    \/ PipelineTick

PipelineSpec == PipelineInit /\ [][PipelineNext]_pipelineVars

-----------------------------------------------------------------------------
(* Properties. *)

(* The works that were written for message m. *)
WorksOf(m) == {k \in submitted : message[k] = m}

(* The parts keep their types, and every submitted work has its message.   *)
PipelineTypeOK ==
    /\ TypeOK
    /\ Box!TypeOK
    /\ message \in [Works -> Messages \cup {NoMessage}]
    /\ submitted = {k \in Works : message[k] \in Messages}

(* "Notifications landen erst in der durable Inbox [...] Ein abstürzender  *)
(* Handler verliert nichts" (docs/architecture/monitoring.md): a message   *)
(* that Twitch was answered 204 for has been handled, or waits in the      *)
(* inbox, or is a dead letter, wherever the process died and whatever the  *)
(* workers did.  Excepted are the messages whose deliveries overlapped,    *)
(* were cut off, or left their guard behind.                               *)
AckedIsKept ==
    \A m \in acked \ troubled :
        WorksOf(m) \cap (inbox \cup dead \cup handled) # {}

(* Young enough for its guard to live, and never written by an insert that *)
(* was reported as failed.                                                 *)
Fresh(m) == age[m] < MESSAGE_DEDUP_TTL_SECONDS - MaxSkew /\ late[m] = 0

InHandOf(w, m) == \E k \in WorksOf(m) : Box!InHand(w, k)

(* A work of m was delivered. *)
Done(m) == WorksOf(m) \ (inbox \cup dead) # {}

(* The handler of worker w is called for a work of message m. *)
HandlerStarts(w, m) ==
    /\ pc[w] = "batch" /\ pc'[w] = "handling"
    /\ \E r \in cur'[w] : r.work \in WorksOf(m)

(* "verhindert Doppelverarbeitung": no handler is started for a fresh      *)
(* message that another worker has in hand or that was already delivered,  *)
(* however often Twitch sends it.                                          *)
StartsAlone ==
    [][\A w \in Workers, m \in Messages :
         HandlerStarts(w, m) /\ Fresh(m) =>
            /\ \A v \in Workers \ {w} : ~InHandOf(v, m)
            /\ ~Done(m)]_pipelineVars
=============================================================================
