--------------------------- MODULE EventSubInbox ---------------------------
(***************************************************************************)
(* The durable processing inbox of tb-monitoring: the two tables behind    *)
(* ProcessingInboxStore (inbox_store/mod.rs) and the workers that lease,   *)
(* handle and settle their rows (inbox_runtime.rs).                        *)
(*                                                                         *)
(* Times are remaining times: due[k] is next_attempt_at - now, cut off at  *)
(* 0, and leaseLeft[w] is what is left of the lease of w's batch.  A row   *)
(* is due exactly when its remaining time is 0, so a Tick that takes one   *)
(* unit from every remaining time is the passing of that unit.             *)
(*                                                                         *)
(* A worker is one InboxRuntime; several run when two processes share the  *)
(* tables (the module comment of inbox_store/mod.rs allows it).            *)
(***************************************************************************)
EXTENDS Integers, FiniteSets

CONSTANTS
    Works,               \* work_ids (fresh UUIDs)
    Workers,             \* InboxRuntime instances
    INBOX_BATCH_SIZE,
    INBOX_LEASE_SECONDS,
    INBOX_MAX_ATTEMPTS,
    INBOX_RETRY_BASE_SECONDS,
    INBOX_RETRY_MAX_SECONDS,
    Timely,              \* TRUE: a batch is finished before its lease ends
    MaxFaults,           \* bound on crashes, shutdowns and failed writes
    MaxRequeues          \* bound on an administrator's requeues

(* retry_delay_seconds: doubles with every attempt, capped. *)
RetryDelay(n) ==
    LET scaled == INBOX_RETRY_BASE_SECONDS * 2 ^ (IF n > 1 THEN n - 1 ELSE 0)
    IN  IF scaled < INBOX_RETRY_MAX_SECONDS
        THEN scaled
        ELSE INBOX_RETRY_MAX_SECONDS

ASSUME WorkerAssumption ==
    /\ Timely \in BOOLEAN
    /\ MaxFaults \in Nat
    /\ MaxRequeues \in Nat

ASSUME InboxAssumption ==
    /\ INBOX_BATCH_SIZE \in Nat \ {0}
    /\ INBOX_LEASE_SECONDS \in Nat \ {0}
    /\ INBOX_MAX_ATTEMPTS \in Nat \ {0}

ASSUME DelayAssumption ==
    \A n \in 1 .. INBOX_MAX_ATTEMPTS : RetryDelay(n) \in Nat \ {0}

Attempts == 0 .. INBOX_MAX_ATTEMPTS - 1

(* What lease_due returns of a row: its id and the attempt_count it read. *)
LeasedWork == [work : Works, attempts : Attempts]

Phases == {"off", "idle", "batch", "handling", "succeeded", "failed"}

VARIABLES
    inbox,      \* work_ids with a row in ..._processing_inbox
    dead,       \* work_ids with a row in ..._processing_dead_letter
    queued,     \* queued_at of an inbox row (the order of insertion)
    due,        \* time until next_attempt_at of an inbox row
    attempts,   \* attempt_count of an inbox row
    pc,         \* where each worker is
    held,       \* the leased works of a worker's batch not yet started
    cur,        \* the leased work a worker processes (a set of at most one)
    leaseLeft,  \* what is left of the lease of a worker's batch
    stop,       \* a worker's stop signal
    inserts,    \* number of inserts so far (gives queued_at its order)
    faults,     \* faults left
    requeues,   \* requeues left
    submitted,  \* history: work_ids that were ever enqueued
    handled,    \* history: work_ids whose handler returned Ok at least once
    fails       \* history: handler errors per work since it was last
                \* queued, counted up to the limit

tables  == <<inbox, dead, queued, due, attempts, inserts>>
workers == <<pc, held, cur, leaseLeft, stop>>
bounds  == <<faults, requeues>>
history == <<submitted, handled, fails>>
vars    == <<tables, workers, bounds, history>>

(* What worker w has leased and not yet settled. *)
Holding(w) == held[w] \cup cur[w]

InHand(w, k) == \E r \in Holding(w) : r.work = k

Init ==
    /\ inbox = {} /\ dead = {}
    /\ queued = [k \in Works |-> 0]
    /\ due = [k \in Works |-> 0]
    /\ attempts = [k \in Works |-> 0]
    /\ pc = [w \in Workers |-> "off"]
    /\ held = [w \in Workers |-> {}]
    /\ cur = [w \in Workers |-> {}]
    /\ leaseLeft = [w \in Workers |-> 0]
    /\ stop = [w \in Workers |-> FALSE]
    /\ inserts = 0
    /\ faults = MaxFaults /\ requeues = MaxRequeues
    /\ submitted = {} /\ handled = {}
    /\ fails = [k \in Works |-> 0]

-----------------------------------------------------------------------------
(* The tables. *)

(* INSERT of an inbox row: due now, no attempts, queued behind all others. *)
InsertRow(k) ==
    /\ inbox' = inbox \cup {k}
    /\ inserts' = inserts + 1
    /\ queued' = [queued EXCEPT ![k] = inserts + 1]
    /\ due' = [due EXCEPT ![k] = 0]
    /\ attempts' = [attempts EXCEPT ![k] = 0]
    /\ fails' = [fails EXCEPT ![k] = 0]

(* DELETE of an inbox row, if it is there. *)
DeleteRow(k) ==
    /\ inbox' = inbox \ {k}
    /\ queued' = [queued EXCEPT ![k] = 0]
    /\ due' = [due EXCEPT ![k] = 0]
    /\ attempts' = [attempts EXCEPT ![k] = 0]
    /\ UNCHANGED inserts

(* enqueue: a transport adds a work under a fresh id. *)
Enqueue(k) ==
    /\ k \notin submitted
    /\ InsertRow(k)
    /\ submitted' = submitted \cup {k}
    /\ UNCHANGED <<dead, workers, bounds, handled>>

(* Mutant of RequeueDeadLetter: the dead letter goes, no row comes. *)
RequeueDrops(k) ==
    /\ requeues > 0
    /\ k \in dead
    /\ dead' = dead \ {k}
    /\ requeues' = requeues - 1
    /\ UNCHANGED <<inbox, queued, due, attempts, inserts, workers, faults, history>>

(* requeue_dead_letter: one transaction moves the row back. *)
RequeueDeadLetter(k) ==
    /\ requeues > 0
    /\ k \in dead
    /\ dead' = dead \ {k}
    /\ InsertRow(k)
    /\ requeues' = requeues - 1
    /\ UNCHANGED <<workers, faults, submitted, handled>>

Due == {k \in inbox : due[k] = 0}

(* The rows `ORDER BY queued_at ASC LIMIT n` selects from S. *)
Oldest(S, n) ==
    {T \in SUBSET S :
        /\ Cardinality(T) = (IF Cardinality(S) < n THEN Cardinality(S) ELSE n)
        /\ \A i \in T, j \in S \ T : queued[i] <= queued[j]}

-----------------------------------------------------------------------------
(* The worker. *)

Start(w) ==
    /\ pc[w] = "off"
    /\ pc' = [pc EXCEPT ![w] = "idle"]
    /\ UNCHANGED <<tables, held, cur, leaseLeft, stop, bounds, history>>

(* What a lease of the works T makes of worker w. *)
TakeBatch(w, T) ==
    /\ held' = [held EXCEPT ![w] = {[work |-> k, attempts |-> attempts[k]] : k \in T}]
    /\ leaseLeft' = [leaseLeft EXCEPT ![w] = INBOX_LEASE_SECONDS]
    /\ pc' = [pc EXCEPT ![w] = "batch"]
    /\ UNCHANGED <<cur, stop>>

(* Mutant of Lease: the rows stay due. *)
LeaseUnmarked(w) ==
    /\ pc[w] = "idle" /\ ~stop[w] /\ Due # {}
    /\ \E T \in Oldest(Due, INBOX_BATCH_SIZE) : TakeBatch(w, T)
    /\ UNCHANGED <<tables, bounds, history>>

(* Mutant of Lease: the rows are removed as they are read. *)
LeaseRemoves(w) ==
    /\ pc[w] = "idle" /\ ~stop[w] /\ Due # {}
    /\ \E T \in Oldest(Due, INBOX_BATCH_SIZE) :
        /\ inbox' = inbox \ T
        /\ TakeBatch(w, T)
    /\ UNCHANGED <<dead, queued, due, attempts, inserts, bounds, history>>

(* lease_due: the oldest due rows become not due for the lease's length.   *)
(* The worker remembers the attempt_count it read.                         *)
Lease(w) ==
    /\ pc[w] = "idle" /\ ~stop[w]
    /\ Due # {}
    /\ \E T \in Oldest(Due, INBOX_BATCH_SIZE) :
        /\ due' = [k \in Works |-> IF k \in T THEN INBOX_LEASE_SECONDS ELSE due[k]]
        /\ TakeBatch(w, T)
    /\ UNCHANGED <<inbox, dead, queued, attempts, inserts, bounds, history>>

(* The for loop of process_due_batch takes its next work ... *)
NextWork(w) ==
    /\ pc[w] = "batch" /\ ~stop[w]
    /\ \E r \in held[w] :
        /\ cur' = [cur EXCEPT ![w] = {r}]
        /\ held' = [held EXCEPT ![w] = @ \ {r}]
    /\ pc' = [pc EXCEPT ![w] = "handling"]
    /\ UNCHANGED <<tables, leaseLeft, stop, bounds, history>>

(* ... or returns, leaving what a stop signal cut off to the leases' end.  *)
EndBatch(w) ==
    /\ pc[w] = "batch"
    /\ held[w] = {} \/ stop[w]
    /\ held' = [held EXCEPT ![w] = {}]
    /\ leaseLeft' = [leaseLeft EXCEPT ![w] = 0]
    /\ pc' = [pc EXCEPT ![w] = "idle"]
    /\ UNCHANGED <<tables, cur, stop, bounds, history>>

(* handler.handle returned Ok. *)
HandlerOk(w) ==
    /\ pc[w] = "handling"
    /\ pc' = [pc EXCEPT ![w] = "succeeded"]
    /\ handled' = handled \cup {r.work : r \in cur[w]}
    /\ UNCHANGED <<tables, held, cur, leaseLeft, stop, bounds, submitted, fails>>

(* handler.handle returned Err or panicked, or the payload did not parse.  *)
HandlerErr(w) ==
    /\ pc[w] = "handling"
    /\ pc' = [pc EXCEPT ![w] = "failed"]
    /\ fails' = [k \in Works |->
                    IF (\E r \in cur[w] : r.work = k) /\ fails[k] < INBOX_MAX_ATTEMPTS
                    THEN fails[k] + 1
                    ELSE fails[k]]
    /\ UNCHANGED <<tables, held, cur, leaseLeft, stop, bounds, submitted, handled>>

(* process_one is over; the loop looks at the rest of the batch. *)
Settled(w) ==
    /\ pc' = [pc EXCEPT ![w] = "batch"]
    /\ cur' = [cur EXCEPT ![w] = {}]
    /\ UNCHANGED <<held, leaseLeft, stop>>

MarkDelivered(w) ==
    /\ pc[w] = "succeeded"
    /\ \E r \in cur[w] : DeleteRow(r.work)
    /\ Settled(w)
    /\ UNCHANGED <<dead, bounds, history>>

(* Mutant of MarkRetry: the limit is not looked at. *)
MarkRetryUnlimited(w) ==
    /\ pc[w] = "failed"
    /\ \E r \in cur[w] :
        /\ r.work \in inbox
        /\ attempts' = [attempts EXCEPT ![r.work] = r.attempts + 1]
        /\ due' = [due EXCEPT ![r.work] = RetryDelay(r.attempts + 1)]
    /\ Settled(w)
    /\ UNCHANGED <<inbox, dead, queued, inserts, bounds, history>>

(* Mutant of MarkRetry: the attempt is not counted. *)
MarkRetryUncounted(w) ==
    /\ pc[w] = "failed"
    /\ \E r \in cur[w] :
        /\ r.attempts + 1 < INBOX_MAX_ATTEMPTS
        /\ due' = IF r.work \in inbox
                  THEN [due EXCEPT ![r.work] = RetryDelay(r.attempts + 1)] ELSE due
    /\ Settled(w)
    /\ UNCHANGED <<inbox, dead, queued, attempts, inserts, bounds, history>>

(* Mutant of MarkRetry: the attempts start again. *)
MarkRetryResets(w) ==
    /\ pc[w] = "failed"
    /\ \E r \in cur[w] :
        /\ r.attempts + 1 < INBOX_MAX_ATTEMPTS /\ r.work \in inbox
        /\ attempts' = [attempts EXCEPT ![r.work] = IF @ = 0 THEN 1 ELSE 0]
        /\ due' = [due EXCEPT ![r.work] = RetryDelay(r.attempts + 1)]
    /\ Settled(w)
    /\ UNCHANGED <<inbox, dead, queued, inserts, bounds, history>>

(* handle_failure below the limit.  The UPDATE is by work_id alone: it     *)
(* writes the attempt number of the worker's own snapshot, and does        *)
(* nothing when the row is gone.                                           *)
MarkRetry(w) ==
    /\ pc[w] = "failed"
    /\ \E r \in cur[w] :
        LET next == r.attempts + 1 IN
        /\ next < INBOX_MAX_ATTEMPTS
        /\ IF r.work \in inbox
           THEN /\ attempts' = [attempts EXCEPT ![r.work] = next]
                /\ due' = [due EXCEPT ![r.work] = RetryDelay(next)]
           ELSE UNCHANGED <<attempts, due>>
    /\ Settled(w)
    /\ UNCHANGED <<inbox, dead, queued, inserts, bounds, history>>

(* Mutant of MarkDeadLetter: one attempt too early. *)
MarkDeadLetterEarly(w) ==
    /\ pc[w] = "failed"
    /\ \E r \in cur[w] :
        /\ r.attempts + 2 >= INBOX_MAX_ATTEMPTS
        /\ dead' = dead \cup {r.work}
        /\ DeleteRow(r.work)
    /\ Settled(w)
    /\ UNCHANGED <<bounds, history>>

(* Mutant of MarkDeadLetter: the inbox row is left behind. *)
MarkDeadLetterCopies(w) ==
    /\ pc[w] = "failed"
    /\ \E r \in cur[w] :
        /\ r.attempts + 1 >= INBOX_MAX_ATTEMPTS
        /\ dead' = dead \cup {r.work}
    /\ Settled(w)
    /\ UNCHANGED <<inbox, queued, due, attempts, inserts, bounds, history>>

(* handle_failure at the limit.  One transaction upserts the dead letter   *)
(* and deletes the row, whether or not there still was one.                *)
MarkDeadLetter(w) ==
    /\ pc[w] = "failed"
    /\ \E r \in cur[w] :
        /\ r.attempts + 1 >= INBOX_MAX_ATTEMPTS
        /\ dead' = dead \cup {r.work}
        /\ DeleteRow(r.work)
    /\ Settled(w)
    /\ UNCHANGED <<bounds, history>>

(* The write that should have settled the work failed for good: the error  *)
(* is logged and the row stays as it is.                                   *)
MarkFails(w) ==
    /\ pc[w] \in {"succeeded", "failed"}
    /\ faults > 0
    /\ faults' = faults - 1
    /\ Settled(w)
    /\ UNCHANGED <<tables, requeues, history>>

(* shutdown sends the stop signal; the loop ends before its next lease. *)
Shutdown(w) ==
    /\ pc[w] # "off" /\ ~stop[w]
    /\ faults > 0
    /\ faults' = faults - 1
    /\ stop' = [stop EXCEPT ![w] = TRUE]
    /\ UNCHANGED <<tables, pc, held, cur, leaseLeft, requeues, history>>

Stopped(w) ==
    /\ pc[w] = "idle" /\ stop[w]
    /\ pc' = [pc EXCEPT ![w] = "off"]
    /\ stop' = [stop EXCEPT ![w] = FALSE]
    /\ UNCHANGED <<tables, held, cur, leaseLeft, bounds, history>>

(* The process dies and forgets its batch; the tables survive. *)
Crash(w) ==
    /\ pc[w] # "off"
    /\ faults > 0
    /\ faults' = faults - 1
    /\ pc' = [pc EXCEPT ![w] = "off"]
    /\ held' = [held EXCEPT ![w] = {}]
    /\ cur' = [cur EXCEPT ![w] = {}]
    /\ leaseLeft' = [leaseLeft EXCEPT ![w] = 0]
    /\ stop' = [stop EXCEPT ![w] = FALSE]
    /\ UNCHANGED <<tables, requeues, history>>

-----------------------------------------------------------------------------
Less(t) == IF t > 0 THEN t - 1 ELSE 0

(* One unit of time.  Nothing in the code stops a handler from outlasting  *)
(* the lease; Timely restricts the model to the runs in which none does.   *)
Tick ==
    /\ Timely => \A w \in Workers : Holding(w) # {} => leaseLeft[w] > 1
    /\ due' = [k \in Works |-> Less(due[k])]
    /\ leaseLeft' = [w \in Workers |-> Less(leaseLeft[w])]
    /\ UNCHANGED <<inbox, dead, queued, attempts, inserts, pc, held, cur, stop,
                   bounds, history>>

Settle(w) == MarkDelivered(w) \/ MarkRetry(w) \/ MarkDeadLetter(w)

Progress(w) ==
    \/ Start(w) \/ Lease(w) \/ NextWork(w) \/ EndBatch(w)
    \/ HandlerOk(w) \/ HandlerErr(w)
    \/ Settle(w) \/ Stopped(w)

Fault(w) == MarkFails(w) \/ Shutdown(w) \/ Crash(w)

Next ==
    \/ \E k \in Works : Enqueue(k) \/ RequeueDeadLetter(k)
    \/ \E w \in Workers : Progress(w) \/ Fault(w)
    \/ Tick

Spec == Init /\ [][Next]_vars

(* Time passes, and a worker that can take its next step takes it: the     *)
(* worker's loop has no wait without a timeout, and every handler returns. *)
(* The number of faults is bounded, as a process that dies for ever        *)
(* delivers nothing.                                                       *)
Fairness == WF_vars(Tick) /\ \A w \in Workers : WF_vars(Progress(w))

FairSpec == Spec /\ Fairness

-----------------------------------------------------------------------------
(* Properties. *)

(* Every variable keeps its type; a worker holds works only while it is in *)
(* a batch and processes at most one of them.                              *)
TypeOK ==
    /\ inbox \subseteq Works /\ dead \subseteq Works
    /\ queued \in [Works -> Nat] /\ due \in [Works -> Nat]
    /\ attempts \in [Works -> Attempts]
    /\ pc \in [Workers -> Phases]
    /\ held \in [Workers -> SUBSET LeasedWork]
    /\ cur \in [Workers -> SUBSET LeasedWork]
    /\ leaseLeft \in [Workers -> Nat]
    /\ stop \in [Workers -> BOOLEAN]
    /\ inserts \in Nat /\ faults \in Nat /\ requeues \in Nat
    /\ submitted \subseteq Works /\ handled \subseteq Works
    /\ fails \in [Works -> 0 .. INBOX_MAX_ATTEMPTS]

(* At least once: a work that was enqueued and whose handler never         *)
(* returned Ok is in one of the two tables, whatever crashes, overruns and *)
(* failed writes happened.                                                 *)
NoLostWork == submitted \ handled \subseteq inbox \cup dead

(* A work is never both waiting in the inbox and a dead letter, so that a  *)
(* requeue cannot find the id it inserts already there.                    *)
OneTable == inbox \cap dead = {}

(* lease_due: "sodass kein anderer Worker (auch nicht der Python-Prozess)  *)
(* sie parallel zieht": no two workers have the same work in hand.         *)
LeaseExclusive ==
    \A v, w \in Workers : \A k \in Works :
        InHand(v, k) /\ InHand(w, k) => v = w

(* The weaker reading of that comment: no two workers have the same work   *)
(* in hand under leases that both still run.  A work that is leased again  *)
(* after its first lease ended does not violate it; a worker that comes    *)
(* late does, when its mark_retry makes the row due inside the lease that  *)
(* another worker has by then.                                             *)
LeaseHonoured ==
    \A v, w \in Workers : \A k \in Works :
        /\ InHand(v, k) /\ leaseLeft[v] > 0
        /\ InHand(w, k) /\ leaseLeft[w] > 0
        => v = w

(* A dead letter used up its whole budget of attempts since it was last    *)
(* queued: its handler failed INBOX_MAX_ATTEMPTS times.                    *)
DeadLetterEarned == \A k \in dead : fails[k] = INBOX_MAX_ATTEMPTS

(* While a work stays in the inbox its attempt_count never goes back, so   *)
(* the limit really ends the retries.                                      *)
AttemptsNeverDrop ==
    [][\A k \in inbox \cap inbox' : attempts'[k] >= attempts[k]]_vars

(* A work whose handler succeeded and whose row was deleted is done: a     *)
(* late failure of another worker does not bring it back.                  *)
Status(k) ==
    IF k \notin submitted THEN "absent"
    ELSE IF k \in inbox THEN "pending"
    ELSE IF k \in dead THEN "dead"
    ELSE "delivered"

Queue == INSTANCE WorkQueue WITH status <- [k \in Works |-> Status(k)]

(* The inbox is a WorkQueue (safety part). *)
ImplementsWorkQueue == Queue!Spec

(* With fair workers every pending work is settled. *)
SettlesWorks == Queue!Fairness
=============================================================================
