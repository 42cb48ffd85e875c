-------------------------- MODULE HubIdempotency --------------------------
(***************************************************************************)
(* Writes to Discord through the hub (tb-discord-hub, rest/mod.rs,         *)
(* rest/idempotency.rs, rest/http.rs and the actions of rest/actions.rs).  *)
(*                                                                         *)
(* A client names its operation by an idempotency key; it may repeat the   *)
(* request when it has lost the answer.  The first request with a key      *)
(* reserves it and executes; others wait for its outcome or are answered   *)
(* from the record it leaves.  A client that goes away cancels its task in *)
(* the middle, a write may arrive at Discord after its task has given up,  *)
(* records and reservations expire, the oldest records are evicted, and a  *)
(* restart forgets everything.  Role creations with different keys but the *)
(* same role take a lock and look for the role first.                      *)
(*                                                                         *)
(* Ages are abstract: a record may be past its ttl whenever a step asks.   *)
(* A reservation may be so only for a role creation, the one operation     *)
(* that can wait without limit (for the lock); every other is over well    *)
(* within the 600 s of inflight_ttl.                                       *)
(***************************************************************************)
EXTENDS Integers, FiniteSets

CONSTANTS
    Requests,      \* the requests clients send, each once
    Keys,          \* cache keys: guild, action and idempotency key
    RoleKeys,      \* those that create the role, one role for all of them
    Hashes,        \* payload hashes
    Calls,         \* what the requests may ask for: a key and a payload each
    NoRequest,
    MaxEntries,    \* IdempotencyConfig::max_entries
    MAX_ATTEMPTS,
    MaxRestarts    \* bound on restarts

ASSUME HubAssumption ==
    /\ RoleKeys \subseteq Keys
    /\ Calls \subseteq [Requests -> [key : Keys, hash : Hashes]]
    /\ NoRequest \notin Requests
    /\ IsFiniteSet(Requests)
    /\ MaxEntries \in Nat \ {0} /\ MAX_ATTEMPTS \in Nat \ {0}
    /\ MaxRestarts \in Nat

VARIABLES
    task,       \* where the task of a request is, and what it asks for
    discord,    \* what Discord makes of the request's write
    answer,     \* whose outcome answered a request that did not execute
    records,    \* IdempotencyStore: the request whose outcome is kept
    inflight,   \* IdempotencyStore: the request that reserves the key
    clock,      \* number of records made, their time stamp
    lock,       \* holder of the role lock
    restarts,
    lapses,     \* history: how often the store forgot about a key
    overran,    \* history: keys whose reservation expired
    adrift      \* history: requests given up while Discord had their write

store   == <<records, inflight, clock>>
history == <<lapses, overran, adrift>>
vars    == <<task, discord, answer, store, lock, restarts, history>>

Executing == {"queue", "look", "run", "sent"}
Stages    == Executing \cup {"idle", "wait", "done"}
Someone   == Requests \cup {NoRequest}

At(r, st) == task[r].at = st
Key(r)    == task[r].key

Init ==
    /\ \E calls \in Calls :
         task = [r \in Requests |-> [at |-> "idle", key |-> calls[r].key,
                                    hash |-> calls[r].hash, tries |-> 0,
                                    on |-> NoRequest]]
    /\ discord = [r \in Requests |-> "none"]
    /\ answer = [r \in Requests |-> NoRequest]
    /\ records = [k \in Keys |-> [by |-> NoRequest, created |-> 0]]
    /\ inflight = [k \in Keys |-> NoRequest]
    /\ clock = 0 /\ lock = NoRequest /\ restarts = MaxRestarts
    /\ lapses = [k \in Keys |-> 0] /\ overran = {} /\ adrift = {}

-----------------------------------------------------------------------------
(* IdempotencyStore::begin. *)

Goes(r, st) == task' = [task EXCEPT ![r].at = st]
Left(rec)   == [rec EXCEPT !.at = "done", !.tries = 0, !.on = NoRequest]
(* Mutant of SameHash: payloads are not compared.                          *)
AnyHash(r, q) == TRUE

SameHash(r, q) == task[r].hash = task[q].hash

(* The key has a record: its outcome, or a conflict of payloads.           *)
Cached(r) ==
    LET by == records[Key(r)].by
    IN  /\ At(r, "idle") /\ by # NoRequest
        /\ Goes(r, "done")
        /\ answer' = IF SameHash(r, by) THEN [answer EXCEPT ![r] = by] ELSE answer
        /\ UNCHANGED <<discord, store, lock, restarts, history>>

(* The key is reserved: wait for the holder, or a conflict.                *)
Pending(r) ==
    LET holder == inflight[Key(r)]
    IN  /\ At(r, "idle") /\ records[Key(r)].by = NoRequest /\ holder # NoRequest
        /\ task' = IF SameHash(r, holder)
                   THEN [task EXCEPT ![r].at = "wait", ![r].on = holder]
                   ELSE [task EXCEPT ![r].at = "done"]
        /\ UNCHANGED <<discord, answer, store, lock, restarts, history>>

Execute(r) ==
    /\ At(r, "idle") /\ records[Key(r)].by = NoRequest /\ inflight[Key(r)] = NoRequest
    /\ inflight' = [inflight EXCEPT ![Key(r)] = r]
    /\ Goes(r, IF Key(r) \in RoleKeys THEN "queue" ELSE "run")
    /\ UNCHANGED <<discord, answer, records, clock, lock, restarts, history>>

(* A wait ends without an outcome: time is up, or the holder is forgotten. *)
GivesUp(r) ==
    /\ At(r, "wait")
    /\ task' = [task EXCEPT ![r] = Left(@)]
    /\ UNCHANGED <<discord, answer, store, lock, restarts, history>>

-----------------------------------------------------------------------------
(* IdempotencyStore::settle, and what leads to it. *)

Kept(recs) == {k \in Keys : recs[k].by # NoRequest}

(* The oldest record goes when there is one too many.                      *)
Evicted(recs) ==
    IF Cardinality(Kept(recs)) <= MaxEntries THEN {}
    ELSE {k \in Kept(recs) : \A j \in Kept(recs) : recs[k].created <= recs[j].created}

Forget(recs, ks) == [k \in Keys |-> IF k \in ks THEN [by |-> NoRequest, created |-> 0]
                                    ELSE recs[k]]
Lapse(ks) == lapses' = [k \in Keys |-> IF k \in ks THEN lapses[k] + 1 ELSE lapses[k]]

(* Remember the outcome if it is to be cached, and answer those who wait   *)
(* for whoever holds the key.                                              *)
Settle(r, cache) ==
    LET recs  == [records EXCEPT ![Key(r)] = [by |-> r, created |-> clock + 1]]
        out   == IF cache THEN Evicted(recs) ELSE {}
        woken == {w \in Requests : At(w, "wait") /\ task[w].on = inflight[Key(r)]}
    IN  /\ records' = IF cache THEN Forget(recs, out) ELSE records
        /\ clock' = IF cache THEN clock + 1 ELSE clock
        /\ Lapse(out)
        /\ inflight' = [inflight EXCEPT ![Key(r)] = NoRequest]
        /\ task' = [q \in Requests |-> IF q \in woken \cup {r} THEN Left(task[q])
                                       ELSE task[q]]
        /\ answer' = [q \in Requests |-> IF q \in woken THEN r ELSE answer[q]]

(* Mutant of Uncertain: the flag is set when the answer is there.          *)
UncertainWhenAnswered(r) == At(r, "sent") /\ discord[r] = "done"

(* WRITE_UNCERTAIN: set before a write is sent, and taken back when the    *)
(* answer says that it was not executed.                                   *)
Uncertain(r) == At(r, "sent")

(* Mutant of Ends: the lock is not given back.                             *)
EndsLocked(r, cache) ==
    /\ Settle(r, cache)
    /\ adrift' = IF discord[r] = "sent" /\ discord'[r] = "sent"
                 THEN adrift \cup {r} ELSE adrift
    /\ UNCHANGED <<lock, restarts, overran>>

(* The task of r is over, or dropped.                                      *)
Ends(r, cache) ==
    /\ Settle(r, cache)
    /\ lock' = IF lock = r THEN NoRequest ELSE lock
    /\ adrift' = IF discord[r] = "sent" /\ discord'[r] = "sent"
                 THEN adrift \cup {r} ELSE adrift
    /\ UNCHANGED <<restarts, overran>>

NothingCame(r) ==
    discord' = IF discord[r] = "refused" THEN [discord EXCEPT ![r] = "none"] ELSE discord

(* The operation of r has ended, with success or not.                      *)
Finish(r, success, uncertain) == Ends(r, success \/ uncertain)

(* Mutant of Cancel: no guard settles for a dropped task.                  *)
CancelUnsettled(r) ==
    /\ task[r].at \in Executing
    /\ task' = [task EXCEPT ![r] = Left(@)]
    /\ lock' = IF lock = r THEN NoRequest ELSE lock
    /\ UNCHANGED <<discord, answer, store, restarts, history>>

(* The client is gone: the task is dropped, and its guard settles.         *)
Cancel(r) ==
    /\ task[r].at \in Executing
    /\ NothingCame(r)
    /\ \E heard \in {FALSE, discord[r] = "refused"} : Ends(r, Uncertain(r) /\ ~heard)

-----------------------------------------------------------------------------
(* The operations. *)

(* Mutant of Lock: a lock for each idempotency key, not for each role.     *)
LockPerKey(r) ==
    /\ At(r, "queue") /\ (lock # NoRequest => Key(lock) # Key(r))
    /\ lock' = r
    /\ Goes(r, "look")
    /\ UNCHANGED <<discord, answer, store, restarts, history>>

Lock(r) ==
    /\ At(r, "queue") /\ lock = NoRequest
    /\ lock' = r
    /\ Goes(r, "look")
    /\ UNCHANGED <<discord, answer, store, restarts, history>>

RoleThere == \E q \in Requests : Key(q) \in RoleKeys /\ discord[q] = "done"

(* create_role looks for the role before it creates it.                    *)
LookUp(r) ==
    /\ At(r, "look")
    /\ UNCHANGED discord
    /\ IF RoleThere
       THEN Finish(r, TRUE, FALSE)
       ELSE Goes(r, "run") /\ UNCHANGED <<answer, store, lock, restarts, history>>

(* It ends before the write: a failed look, no such channel, no room in    *)
(* the rate limit.  What is absent already counts as deleted.              *)
EndsUnsent(r) ==
    /\ task[r].at \in {"look", "run"}
    /\ UNCHANGED discord
    /\ \E success \in BOOLEAN :
         /\ success => Key(r) \notin RoleKeys /\ task[r].tries = 0
         /\ Finish(r, success, FALSE)

Send(r) ==
    /\ At(r, "run")
    /\ task' = [task EXCEPT ![r].at = "sent", ![r].tries = @ + 1]
    /\ discord' = [discord EXCEPT ![r] = "sent"]
    /\ UNCHANGED <<answer, store, lock, restarts, history>>

(* The connection fails, or Discord refuses (4xx): not written for sure.   *)
(* A message that is not there counts as deleted.                          *)
NotWritten(r) ==
    /\ At(r, "sent") /\ discord[r] \in {"sent", "refused"}
    /\ discord' = [discord EXCEPT ![r] = "none"]
    /\ \E success \in BOOLEAN :
         /\ success => Key(r) \notin RoleKeys /\ discord[r] = "refused"
         /\ Finish(r, success, FALSE)

(* Mutant of TryAgain: attempts are not counted.                           *)
TryForever(r) ==
    /\ At(r, "sent") /\ discord[r] = "refused"
    /\ discord' = [discord EXCEPT ![r] = "none"]
    /\ Goes(r, "run")
    /\ UNCHANGED <<answer, store, lock, restarts, history>>

(* 429 with attempts left.                                                 *)
TryAgain(r) ==
    /\ At(r, "sent") /\ discord[r] = "refused" /\ task[r].tries < MAX_ATTEMPTS
    /\ discord' = [discord EXCEPT ![r] = "none"]
    /\ Goes(r, "run")
    /\ UNCHANGED <<answer, store, lock, restarts, history>>

(* 2xx; the answer may be unusable.                                        *)
Accepted(r) ==
    /\ At(r, "sent") /\ discord[r] = "done"
    /\ UNCHANGED discord
    /\ \E success \in BOOLEAN : Finish(r, success, Uncertain(r))

(* Timeout, a broken connection, 5xx: nobody knows.                        *)
Lost(r) ==
    /\ At(r, "sent")
    /\ NothingCame(r)
    /\ Finish(r, FALSE, Uncertain(r))

(* Discord, at any time, even when nobody waits for it any more.           *)
Discord(r) ==
    /\ discord[r] = "sent"
    /\ \E verdict \in {"done", "refused"} :
         /\ verdict = "refused" => At(r, "sent")
         /\ discord' = [discord EXCEPT ![r] = verdict]
    /\ UNCHANGED <<task, answer, store, lock, restarts, history>>

-----------------------------------------------------------------------------
(* IdempotencyStore::prune, and a restart. *)

Expire(k) ==
    /\ records[k].by # NoRequest
    /\ records' = Forget(records, {k})
    /\ Lapse({k})
    /\ UNCHANGED <<task, discord, answer, inflight, clock, lock, restarts, overran,
                   adrift>>

ExpireReservation(k) ==
    /\ k \in RoleKeys /\ inflight[k] # NoRequest
    /\ inflight' = [inflight EXCEPT ![k] = NoRequest]
    /\ Lapse({k})
    /\ overran' = overran \cup {k}
    /\ UNCHANGED <<task, discord, answer, records, clock, lock, restarts, adrift>>

Restart ==
    /\ restarts > 0 /\ restarts' = restarts - 1
    /\ task' = [r \in Requests |-> IF At(r, "idle") THEN task[r] ELSE Left(task[r])]
    /\ Lapse(Kept(records) \cup {k \in Keys : inflight[k] # NoRequest})
    /\ records' = Forget(records, Keys)
    /\ inflight' = [k \in Keys |-> NoRequest]
    /\ lock' = NoRequest
    /\ adrift' = adrift \cup {r \in Requests : At(r, "sent") /\ discord[r] = "sent"}
    /\ UNCHANGED <<discord, answer, clock, overran>>

-----------------------------------------------------------------------------
Operation(r) ==
    \/ LookUp(r) \/ EndsUnsent(r) \/ Send(r) \/ NotWritten(r) \/ TryAgain(r)
    \/ Accepted(r) \/ Lost(r)

Next ==
    \/ \E r \in Requests : \/ Cached(r) \/ Pending(r) \/ Execute(r)
                           \/ GivesUp(r) \/ Cancel(r)
                           \/ Lock(r) \/ Operation(r) \/ Discord(r)
    \/ \E k \in Keys : Expire(k) \/ ExpireReservation(k)
    \/ Restart

(* Every wait of a task has a time limit, but those for two locks, which   *)
(* are first come, first served: the role lock, which is modelled, and the *)
(* lock of a rate-limit bucket that an answer names, which is held for an  *)
(* HTTP call of 10 s at most by each of the tasks before.                  *)
Fairness == \A r \in Requests : WF_vars(GivesUp(r) \/ Lock(r) \/ Operation(r))

Spec == Init /\ [][Next]_vars /\ Fairness

-----------------------------------------------------------------------------
TypeOK ==
    /\ task \in [Requests -> [at : Stages, key : Keys, hash : Hashes,
                              tries : 0..MAX_ATTEMPTS, on : Someone]]
    /\ discord \in [Requests -> {"none", "sent", "done", "refused"}]
    /\ answer \in [Requests -> Someone]
    /\ records \in [Keys -> [by : Someone, created : Nat]]
    /\ inflight \in [Keys -> Someone]
    /\ clock \in Nat /\ lock \in Someone /\ restarts \in 0..MaxRestarts
    /\ lapses \in [Keys -> Nat]
    /\ overran \subseteq RoleKeys /\ adrift \subseteq Requests

(* Requests with one key, however many, retried, cancelled or in parallel, *)
(* are executed by Discord once - and once more at most for each time the  *)
(* store has forgotten about the key.                                      *)
Written(k) == {r \in Requests : Key(r) = k /\ discord[r] = "done"}

OncePerKey == \A k \in Keys : Cardinality(Written(k)) <= 1 + lapses[k]

(* A request that does not execute is answered with the outcome of one     *)
(* with its key that has ended, and with its payload, unless a reservation *)
(* of the key has expired under its holder.                                *)
AnswerIsOurs ==
    \A r \in Requests : answer[r] # NoRequest =>
        /\ Key(answer[r]) = Key(r) /\ At(answer[r], "done")
        /\ task[r].hash = task[answer[r]].hash \/ Key(r) \in overran

(* A key is reserved only while somebody executes for it, and the lock is  *)
(* held only by a role creation under way: whatever ends a task frees both.*)
NothingLeaks ==
    /\ \A k \in Keys : inflight[k] # NoRequest =>
         Key(inflight[k]) = k /\ task[inflight[k]].at \in Executing
    /\ lock # NoRequest =>
         Key(lock) \in RoleKeys /\ task[lock].at \in Executing \ {"queue"}

(* Of the role creations that were not given up on while Discord had their *)
(* write, at most one was executed, whatever their keys.                   *)
RoleOnce ==
    Cardinality({r \in Requests : /\ Key(r) \in RoleKeys /\ discord[r] = "done"
                                  /\ r \notin adrift}) <= 1

(* Nobody stays: in the end every request that has come is answered or     *)
(* given up, also those that queue for the lock behind others.             *)
EverybodyLeaves == <>[](\A r \in Requests : At(r, "idle") \/ At(r, "done"))
=============================================================================
