----------------------- MODULE HubIdempotencyProofs -----------------------
(***************************************************************************)
(* Theorems about HubIdempotency for any requests, keys, payloads, roles,  *)
(* sizes of the store, numbers of attempts and of restarts.                *)
(***************************************************************************)
EXTENDS HubIdempotency, FiniteSetTheorems, TLAPS

(* What a task is at besides its type: attempts are left while it runs,    *)
(* and its write is not with Discord unless it has been sent.              *)
WriteInv ==
    \A r \in Requests :
        /\ At(r, "run") => task[r].tries < MAX_ATTEMPTS
        /\ task[r].at \notin {"run", "sent"} => task[r].tries = 0
        /\ task[r].at \notin {"sent", "done"} => discord[r] = "none"
        /\ At(r, "sent") => discord[r] # "none"
        /\ At(r, "done") /\ discord[r] = "sent" => r \in adrift

(* The ends of a task all go through Ends, and none of them leaves a write *)
(* behind of which the store keeps nothing.                                *)
EndStep(r) ==
    Cancel(r) \/ (LookUp(r) /\ RoleThere) \/ EndsUnsent(r) \/ NotWritten(r)
              \/ Accepted(r) \/ Lost(r)

LEMMA EndForms ==
    ASSUME TypeOK, WriteInv, NEW r \in Requests, EndStep(r)
    PROVE  /\ task[r].at \in Executing
           /\ discord' = discord \/ discord' = [discord EXCEPT ![r] = "none"]
           /\ \E cache \in BOOLEAN : /\ Ends(r, cache)
                                     /\ cache \/ discord'[r] = "none"
<1>t. discord \in [Requests -> {"none", "sent", "done", "refused"}]
  BY DEF TypeOK
<1>1. CASE Cancel(r)
  <2>1. PICK heard \in {FALSE, discord[r] = "refused"} : Ends(r, Uncertain(r) /\ ~heard)
    BY <1>1 DEF Cancel
  <2>2. (Uncertain(r) /\ ~heard) \/ discord'[r] = "none"
    BY <1>1, <1>t, <2>1 DEF Cancel, NothingCame, WriteInv, Uncertain, At, Executing
  <2>3. discord' = discord \/ discord' = [discord EXCEPT ![r] = "none"]
    BY <1>1 DEF Cancel, NothingCame
  <2>4. (Uncertain(r) /\ ~heard) \in BOOLEAN
    OBVIOUS
  <2> QED
    BY <1>1, <2>1, <2>2, <2>3, <2>4 DEF Cancel
<1>2. CASE LookUp(r) /\ RoleThere
  <2>1. Ends(r, TRUE \/ FALSE) /\ discord' = discord /\ At(r, "look")
    BY <1>2 DEF LookUp, Finish
  <2> QED
    BY <2>1 DEF At, Executing
<1>3. CASE EndsUnsent(r)
  <2>1. PICK success \in BOOLEAN : Ends(r, success \/ FALSE)
    BY <1>3 DEF EndsUnsent, Finish
  <2>2. discord' = discord /\ discord[r] = "none" /\ task[r].at \in Executing
    BY <1>3 DEF EndsUnsent, WriteInv, At, Executing
  <2> QED
    BY <2>1, <2>2
<1>4. CASE NotWritten(r)
  <2>1. PICK success \in BOOLEAN : Ends(r, success \/ FALSE)
    BY <1>4 DEF NotWritten, Finish
  <2>2. discord' = [discord EXCEPT ![r] = "none"] /\ task[r].at \in Executing
    BY <1>4 DEF NotWritten, At, Executing
  <2> QED
    BY <1>t, <2>1, <2>2
<1>5. CASE Accepted(r)
  <2>1. PICK success \in BOOLEAN : Ends(r, success \/ Uncertain(r))
    BY <1>5 DEF Accepted, Finish
  <2>2. discord' = discord /\ At(r, "sent")
    BY <1>5 DEF Accepted
  <2>3. (success \/ Uncertain(r)) = TRUE
    BY <2>2 DEF Uncertain
  <2> QED
    BY <2>1, <2>2, <2>3 DEF At, Executing
<1>6. CASE Lost(r)
  <2>1. Ends(r, FALSE \/ Uncertain(r)) /\ At(r, "sent")
    BY <1>6 DEF Lost, Finish
  <2>2. discord' = discord \/ discord' = [discord EXCEPT ![r] = "none"]
    BY <1>6 DEF Lost, NothingCame
  <2>3. (FALSE \/ Uncertain(r)) = TRUE
    BY <2>1 DEF Uncertain
  <2> QED
    BY <2>1, <2>2, <2>3 DEF At, Executing
<1> QED
  BY <1>1, <1>2, <1>3, <1>4, <1>5, <1>6 DEF EndStep

(* What the end of a task does to the store and to the others.             *)
LEMMA EndFacts ==
    ASSUME TypeOK, NEW r \in Requests, task[r].at \in Executing,
           NEW cache \in BOOLEAN, Ends(r, cache),
           discord' = discord \/ discord' = [discord EXCEPT ![r] = "none"]
    PROVE  /\ TypeOK'
           /\ \A q \in Requests : /\ task'[q].key = task[q].key
                                  /\ task'[q].hash = task[q].hash
           /\ task'[r].at = "done" /\ task'[r].tries = 0
           /\ \A q \in Requests \ {r} :
                 IF At(q, "wait") /\ task[q].on = inflight[Key(r)]
                 THEN task'[q].at = "done" /\ task'[q].tries = 0 /\ answer'[q] = r
                 ELSE task'[q] = task[q] /\ answer'[q] = answer[q]
           /\ answer'[r] = answer[r]
           /\ inflight'[Key(r)] = NoRequest
           /\ \A k \in Keys \ {Key(r)} : inflight'[k] = inflight[k]
           /\ lock' = IF lock = r THEN NoRequest ELSE lock
           /\ adrift' = IF discord[r] = "sent" /\ discord'[r] = "sent"
                        THEN adrift \cup {r} ELSE adrift
           /\ overran' = overran
           /\ \A k \in Keys : lapses'[k] \in {lapses[k], lapses[k] + 1}
           /\ \A k \in Keys \ {Key(r)} :
                 records'[k] = records[k]
                   \/ (records'[k].by = NoRequest /\ lapses'[k] = lapses[k] + 1)
           /\ ~cache => records'[Key(r)] = records[Key(r)]
           /\ cache => \/ records'[Key(r)].by = r
                       \/ records'[Key(r)].by = NoRequest
                            /\ lapses'[Key(r)] = lapses[Key(r)] + 1
<1> USE HubAssumption
<1> DEFINE recs  == [records EXCEPT ![Key(r)] = [by |-> r, created |-> clock + 1]]
           out   == IF cache THEN Evicted(recs) ELSE {}
           woken == {w \in Requests : At(w, "wait") /\ task[w].on = inflight[Key(r)]}
<1>1. /\ records' = IF cache THEN Forget(recs, out) ELSE records
      /\ clock' = IF cache THEN clock + 1 ELSE clock
      /\ lapses' = [k \in Keys |-> IF k \in out THEN lapses[k] + 1 ELSE lapses[k]]
      /\ inflight' = [inflight EXCEPT ![Key(r)] = NoRequest]
      /\ task' = [q \in Requests |-> IF q \in woken \cup {r} THEN Left(task[q])
                                     ELSE task[q]]
      /\ answer' = [q \in Requests |-> IF q \in woken THEN r ELSE answer[q]]
  BY DEF Ends, Settle, Lapse
<1>2. /\ lock' = IF lock = r THEN NoRequest ELSE lock
      /\ adrift' = IF discord[r] = "sent" /\ discord'[r] = "sent"
                   THEN adrift \cup {r} ELSE adrift
      /\ restarts' = restarts /\ overran' = overran
  BY DEF Ends
<1>3. Key(r) \in Keys /\ r \in Someone /\ NoRequest \in Someone
  BY DEF TypeOK, Key, Someone
<1>4. out \subseteq Keys
  BY DEF Evicted, Kept
<1>5. r \notin woken
  BY DEF At, Executing
<1>6. recs \in [Keys -> [by : Someone, created : Nat]]
  BY <1>3 DEF TypeOK
<1>7. /\ ~cache => out = {} /\ records' = records
      /\ cache => \A k \in Keys : IF k \in out THEN records'[k].by = NoRequest
                                  ELSE records'[k] = recs[k]
  BY <1>1 DEF Forget
<1>8. \A q \in Requests : /\ Left(task[q]).key = task[q].key
                          /\ Left(task[q]).hash = task[q].hash
                          /\ Left(task[q]).at = "done"
                          /\ Left(task[q]).tries = 0
                          /\ Left(task[q]) \in [at : Stages, key : Keys, hash : Hashes,
                                                tries : 0..MAX_ATTEMPTS, on : Someone]
  <2> SUFFICES ASSUME NEW q \in Requests
               PROVE  /\ Left(task[q]).key = task[q].key
                      /\ Left(task[q]).hash = task[q].hash
                      /\ Left(task[q]).at = "done"
                      /\ Left(task[q]).tries = 0
                      /\ Left(task[q]) \in [at : Stages, key : Keys, hash : Hashes,
                                            tries : 0..MAX_ATTEMPTS, on : Someone]
    OBVIOUS
  <2>1. task[q] \in [at : Stages, key : Keys, hash : Hashes, tries : 0..MAX_ATTEMPTS,
                     on : Someone]
    BY DEF TypeOK
  <2>2. 0 \in 0..MAX_ATTEMPTS /\ "done" \in Stages
    BY DEF Stages
  <2> QED
    BY <1>3, <2>1, <2>2 DEF Left
<1>9. TypeOK'
  <2>1. task' \in [Requests -> [at : Stages, key : Keys, hash : Hashes,
                                tries : 0..MAX_ATTEMPTS, on : Someone]]
    BY <1>1, <1>8 DEF TypeOK
  <2>2. records' \in [Keys -> [by : Someone, created : Nat]]
    <3>1. Forget(recs, out) \in [Keys -> [by : Someone, created : Nat]]
      BY <1>3, <1>6 DEF Forget
    <3> QED
      BY <1>1, <3>1 DEF TypeOK
  <2>3. lapses' \in [Keys -> Nat] /\ clock' \in Nat
    BY <1>1 DEF TypeOK
  <2>4. answer' \in [Requests -> Someone] /\ inflight' \in [Keys -> Someone]
    BY <1>1, <1>3 DEF TypeOK
  <2>5. discord' \in [Requests -> {"none", "sent", "done", "refused"}]
    BY DEF TypeOK
  <2> QED
    BY <1>2, <1>3, <2>1, <2>2, <2>3, <2>4, <2>5 DEF TypeOK
<1>10. \A q \in Requests : task'[q] = IF q \in woken \cup {r} THEN Left(task[q]) ELSE task[q]
  BY <1>1
<1>11. \A q \in Requests \ {r} :
          IF At(q, "wait") /\ task[q].on = inflight[Key(r)]
          THEN task'[q].at = "done" /\ task'[q].tries = 0 /\ answer'[q] = r
          ELSE task'[q] = task[q] /\ answer'[q] = answer[q]
  BY <1>1, <1>8, <1>10
<1>12. task'[r].at = "done" /\ task'[r].tries = 0 /\ answer'[r] = answer[r]
  BY <1>1, <1>5, <1>8, <1>10
<1>13. \A q \in Requests : task'[q].key = task[q].key /\ task'[q].hash = task[q].hash
  BY <1>8, <1>10
<1>14. /\ inflight'[Key(r)] = NoRequest
       /\ \A k \in Keys \ {Key(r)} : inflight'[k] = inflight[k]
  BY <1>1, <1>3 DEF TypeOK
<1>15. \A k \in Keys : lapses'[k] = IF k \in out THEN lapses[k] + 1 ELSE lapses[k]
  BY <1>1
<1>16. /\ recs[Key(r)].by = r
       /\ \A k \in Keys \ {Key(r)} : recs[k] = records[k]
  BY <1>3 DEF TypeOK
<1> HIDE DEF recs, out, woken
<1>17. \A k \in Keys \ {Key(r)} :
          records'[k] = records[k]
            \/ (records'[k].by = NoRequest /\ lapses'[k] = lapses[k] + 1)
  BY <1>7, <1>15, <1>16
<1>18. ~cache => records'[Key(r)] = records[Key(r)]
  BY <1>1
<1>19. cache => \/ records'[Key(r)].by = r
                \/ records'[Key(r)].by = NoRequest
                     /\ lapses'[Key(r)] = lapses[Key(r)] + 1
  BY <1>3, <1>7, <1>15, <1>16
<1>20. \A k \in Keys : lapses'[k] \in {lapses[k], lapses[k] + 1}
  BY <1>15
<1> QED
  BY <1>2, <1>9, <1>11, <1>12, <1>13, <1>14, <1>17, <1>18, <1>19, <1>20

(* The steps that are neither the end of a task nor one of the store.      *)
Quiet(r) ==
    \/ Cached(r) \/ Pending(r) \/ Execute(r) \/ GivesUp(r) \/ Lock(r)
    \/ (LookUp(r) /\ ~RoleThere) \/ Send(r) \/ TryAgain(r) \/ Discord(r)

LEMMA NextCases ==
    ASSUME [Next]_vars
    PROVE  \/ \E r \in Requests : EndStep(r) \/ Quiet(r)
           \/ \E k \in Keys : Expire(k) \/ ExpireReservation(k)
           \/ Restart
           \/ UNCHANGED vars
  BY DEF Next, Operation, EndStep, Quiet

(* A request moves by itself: where it goes, with its key and its payload. *)
LEMMA QuietFacts ==
    ASSUME TypeOK, WriteInv, NEW r \in Requests, Quiet(r)
    PROVE  /\ TypeOK'
           /\ \A q \in Requests \ {r} : task'[q] = task[q] /\ discord'[q] = discord[q]
           /\ task'[r].key = task[r].key /\ task'[r].hash = task[r].hash
           /\ At(r, "run")' => task'[r].tries < MAX_ATTEMPTS
           /\ task'[r].at \notin {"run", "sent"} => task'[r].tries = 0
           /\ records' = records /\ lapses' = lapses
           /\ overran' = overran /\ adrift' = adrift
<1> USE HubAssumption
<1>t. /\ task \in [Requests -> [at : Stages, key : Keys, hash : Hashes,
                                tries : 0..MAX_ATTEMPTS, on : Someone]]
      /\ discord \in [Requests -> {"none", "sent", "done", "refused"}]
      /\ answer \in [Requests -> Someone]
      /\ records \in [Keys -> [by : Someone, created : Nat]]
      /\ inflight \in [Keys -> Someone]
      /\ clock \in Nat /\ lock \in Someone /\ restarts \in 0..MaxRestarts
      /\ lapses \in [Keys -> Nat]
      /\ overran \subseteq RoleKeys /\ adrift \subseteq Requests
  BY DEF TypeOK
<1>k. Key(r) \in Keys /\ r \in Someone /\ NoRequest \in Someone
      /\ inflight[Key(r)] \in Someone /\ records[Key(r)].by \in Someone
  BY <1>t DEF Key, Someone
<1>m. 0 \in 0..MAX_ATTEMPTS /\ Executing \cup {"idle", "wait", "done"} = Stages
  BY DEF Stages
<1>0. At(r, "run") \/ At(r, "sent") \/ task[r].tries = 0
  BY DEF WriteInv, At
<1> DEFINE Tasks == [at : Stages, key : Keys, hash : Hashes, tries : 0..MAX_ATTEMPTS,
                     on : Someone]
<1>r. task[r] \in Tasks
  BY <1>t
<1>1. CASE Cached(r)
  BY <1>0, <1>1, <1>t, <1>k, <1>m DEF Cached, Goes, TypeOK, store, history, At
<1>2. CASE Pending(r)
  <2> DEFINE holder == inflight[Key(r)]
  <2>1. /\ \/ task' = [task EXCEPT ![r].at = "wait", ![r].on = holder]
           \/ task' = [task EXCEPT ![r].at = "done"]
        /\ holder \in Someone /\ At(r, "idle")
    BY <1>2, <1>k DEF Pending
  <2>2. UNCHANGED <<discord, answer, store, lock, restarts, history>>
    BY <1>2 DEF Pending
  <2> HIDE DEF holder
  <2>3. CASE task' = [task EXCEPT ![r].at = "wait", ![r].on = holder]
    <3>1. /\ task'[r] = [task[r] EXCEPT !.at = "wait", !.on = holder]
          /\ \A q \in Requests \ {r} : task'[q] = task[q]
      BY <1>t, <2>3
    <3>2. /\ task'[r] \in Tasks /\ task'[r].at = "wait" /\ task'[r].tries = task[r].tries
          /\ task'[r].key = task[r].key /\ task'[r].hash = task[r].hash
      BY <1>r, <1>m, <2>1, <3>1
    <3>3. task' \in [Requests -> Tasks]
      BY <1>t, <2>3, <3>1, <3>2
    <3> QED
      BY <1>0, <1>t, <2>1, <2>2, <3>1, <3>2, <3>3 DEF TypeOK, store, history, At
  <2>4. CASE task' = [task EXCEPT ![r].at = "done"]
    BY <1>0, <1>t, <1>r, <1>m, <2>1, <2>2, <2>4 DEF TypeOK, store, history, At
  <2> QED
    BY <2>1, <2>3, <2>4
<1>3. CASE Execute(r)
  <2>1. PICK st \in {"queue", "run"} : task' = [task EXCEPT ![r].at = st]
    BY <1>3 DEF Execute, Goes
  <2>2. /\ At(r, "idle")
        /\ inflight' = [inflight EXCEPT ![Key(r)] = r]
        /\ UNCHANGED <<discord, answer, records, clock, lock, restarts, history>>
    BY <1>3 DEF Execute
  <2>3. inflight' \in [Keys -> Someone]
    BY <1>t, <1>k, <2>2
  <2> QED
    BY <1>0, <1>t, <1>r, <1>m, <2>1, <2>2, <2>3 DEF TypeOK, history, Executing, At
<1>4. CASE GivesUp(r)
  <2>1. /\ At(r, "wait")
        /\ task' = [task EXCEPT ![r] = Left(task[r])]
        /\ UNCHANGED <<discord, answer, store, lock, restarts, history>>
    BY <1>4 DEF GivesUp
  <2>2. /\ Left(task[r]) \in Tasks /\ Left(task[r]).at = "done"
        /\ Left(task[r]).key = task[r].key /\ Left(task[r]).hash = task[r].hash
        /\ Left(task[r]).tries = 0
    BY <1>r, <1>k, <1>m DEF Left
  <2> QED
    BY <1>t, <2>1, <2>2 DEF TypeOK, store, history, At
<1>5. CASE Lock(r)
  BY <1>0, <1>5, <1>t, <1>k, <1>m DEF Lock, Goes, TypeOK, store, history, Executing, At
<1>6. CASE LookUp(r) /\ ~RoleThere
  <2>1. /\ At(r, "look") /\ discord' = discord
        /\ task' = [task EXCEPT ![r].at = "run"]
        /\ UNCHANGED <<answer, store, lock, restarts, history>>
    BY <1>6 DEF LookUp, Goes
  <2>2. task[r].tries = 0 /\ 0 < MAX_ATTEMPTS /\ "run" \in Stages
    BY <1>0, <1>m, <2>1 DEF At, Executing
  <2> QED
    BY <1>t, <1>r, <2>1, <2>2 DEF TypeOK, store, history, At
<1>7. CASE Send(r)
  BY <1>7, <1>t, <1>k, <1>m DEF Send, WriteInv, TypeOK, store, history, Executing, At
<1>8. CASE TryAgain(r)
  BY <1>8, <1>t, <1>k, <1>m DEF TryAgain, Goes, TypeOK, store, history, Executing, At
<1>9. CASE Discord(r)
  <2>1. /\ discord[r] = "sent"
        /\ \E verdict \in {"done", "refused"} : discord' = [discord EXCEPT ![r] = verdict]
        /\ UNCHANGED <<task, answer, store, lock, restarts, history>>
    BY <1>9 DEF Discord
  <2>2. At(r, "run") => task[r].tries < MAX_ATTEMPTS
    BY DEF WriteInv
  <2> QED
    BY <1>0, <1>t, <2>1, <2>2 DEF TypeOK, store, history, At
<1> QED
  BY <1>1, <1>2, <1>3, <1>4, <1>5, <1>6, <1>7, <1>8, <1>9 DEF Quiet

(* What the store forgets, by itself or in a restart, it counts as lapsed. *)
LEMMA StoreFacts ==
    ASSUME TypeOK,
           (\E k \in Keys : Expire(k) \/ ExpireReservation(k)) \/ Restart
    PROVE  /\ TypeOK'
           /\ discord' = discord /\ answer' = answer
           /\ \A q \in Requests :
                 \/ task'[q] = task[q] /\ (At(q, "idle") \/ task' = task)
                 \/ /\ task'[q].at = "done" /\ task'[q].tries = 0
                    /\ task'[q].key = task[q].key /\ task'[q].hash = task[q].hash
           /\ \A k \in Keys : inflight'[k] \in {inflight[k], NoRequest}
           /\ \A k \in Keys : records'[k].by \in {records[k].by, NoRequest}
           /\ \A k \in Keys : \/ lapses'[k] = lapses[k] + 1
                              \/ /\ inflight'[k] = inflight[k]
                                 /\ records'[k].by = records[k].by
                                 /\ lapses'[k] = lapses[k]
<1> USE HubAssumption
<1>t. /\ task \in [Requests -> [at : Stages, key : Keys, hash : Hashes,
                                tries : 0..MAX_ATTEMPTS, on : Someone]]
      /\ records \in [Keys -> [by : Someone, created : Nat]]
      /\ inflight \in [Keys -> Someone]
      /\ lapses \in [Keys -> Nat]
      /\ NoRequest \in Someone
  BY DEF TypeOK, Someone
<1>f. ASSUME NEW ks \in SUBSET Keys, records' = Forget(records, ks)
      PROVE  /\ records' \in [Keys -> [by : Someone, created : Nat]]
             /\ \A k \in Keys : records'[k].by = IF k \in ks THEN NoRequest
                                                ELSE records[k].by
  BY <1>t, <1>f DEF Forget
<1>l. ASSUME NEW ks \in SUBSET Keys, Lapse(ks)
      PROVE  /\ lapses' \in [Keys -> Nat]
             /\ \A k \in Keys : lapses'[k] = IF k \in ks THEN lapses[k] + 1
                                             ELSE lapses[k]
  BY <1>t, <1>l DEF Lapse
<1>1. ASSUME NEW k \in Keys, Expire(k)
      PROVE  /\ TypeOK' /\ discord' = discord /\ answer' = answer
             /\ task' = task /\ inflight' = inflight
             /\ \A j \in Keys : records'[j].by \in {records[j].by, NoRequest}
             /\ \A j \in Keys : \/ lapses'[j] = lapses[j] + 1
                                \/ /\ records'[j].by = records[j].by
                                   /\ lapses'[j] = lapses[j]
  <2>1. records' = Forget(records, {k}) /\ Lapse({k})
        /\ UNCHANGED <<task, discord, answer, inflight, clock, lock, restarts, overran,
                       adrift>>
    BY <1>1 DEF Expire
  <2>2. {k} \in SUBSET Keys
    OBVIOUS
  <2>3. records' \in [Keys -> [by : Someone, created : Nat]]
        /\ \A j \in Keys : records'[j].by = IF j \in {k} THEN NoRequest
                                            ELSE records[j].by
    BY <1>f, <2>1, <2>2
  <2>4. lapses' \in [Keys -> Nat]
        /\ \A j \in Keys : lapses'[j] = IF j \in {k} THEN lapses[j] + 1 ELSE lapses[j]
    BY <1>l, <2>1, <2>2
  <2>5. TypeOK'
    BY <2>1, <2>3, <2>4 DEF TypeOK
  <2> QED
    BY <2>1, <2>3, <2>4, <2>5
<1>2. ASSUME NEW k \in Keys, ExpireReservation(k)
      PROVE  /\ TypeOK' /\ discord' = discord /\ answer' = answer
             /\ task' = task /\ records' = records
             /\ \A j \in Keys : inflight'[j] \in {inflight[j], NoRequest}
             /\ \A j \in Keys : \/ lapses'[j] = lapses[j] + 1
                                \/ /\ inflight'[j] = inflight[j]
                                   /\ lapses'[j] = lapses[j]
  <2>1. inflight' = [inflight EXCEPT ![k] = NoRequest] /\ Lapse({k}) /\ k \in RoleKeys
        /\ overran' = overran \cup {k}
        /\ UNCHANGED <<task, discord, answer, records, clock, lock, restarts, adrift>>
    BY <1>2 DEF ExpireReservation
  <2>2. inflight' \in [Keys -> Someone]
        /\ \A j \in Keys : inflight'[j] = IF j = k THEN NoRequest ELSE inflight[j]
    BY <1>t, <2>1
  <2> QED
    BY <1>l, <2>1, <2>2 DEF TypeOK
<1>3. CASE Restart
  <2> DEFINE lost == Kept(records) \cup {k \in Keys : inflight[k] # NoRequest}
  <2>1. /\ task' = [r \in Requests |-> IF At(r, "idle") THEN task[r] ELSE Left(task[r])]
        /\ Lapse(lost) /\ records' = Forget(records, Keys)
        /\ inflight' = [k \in Keys |-> NoRequest]
        /\ lock' = NoRequest /\ restarts > 0 /\ restarts' = restarts - 1
        /\ adrift' = adrift \cup {r \in Requests : At(r, "sent") /\ discord[r] = "sent"}
        /\ UNCHANGED <<discord, answer, clock, overran>>
    BY <1>3 DEF Restart
  <2>2. \A q \in Requests :
           /\ Left(task[q]).at = "done" /\ Left(task[q]).tries = 0
           /\ Left(task[q]).key = task[q].key /\ Left(task[q]).hash = task[q].hash
           /\ Left(task[q]) \in [at : Stages, key : Keys, hash : Hashes,
                                 tries : 0..MAX_ATTEMPTS, on : Someone]
    <3> SUFFICES ASSUME NEW q \in Requests
                 PROVE  /\ Left(task[q]).at = "done" /\ Left(task[q]).tries = 0
                        /\ Left(task[q]).key = task[q].key
                        /\ Left(task[q]).hash = task[q].hash
                        /\ Left(task[q]) \in [at : Stages, key : Keys, hash : Hashes,
                                              tries : 0..MAX_ATTEMPTS, on : Someone]
      OBVIOUS
    <3>1. task[q] \in [at : Stages, key : Keys, hash : Hashes, tries : 0..MAX_ATTEMPTS,
                       on : Someone]
      BY <1>t
    <3>2. 0 \in 0..MAX_ATTEMPTS /\ "done" \in Stages
      BY DEF Stages
    <3> QED
      BY <1>t, <3>1, <3>2 DEF Left
  <2>3. task' \in [Requests -> [at : Stages, key : Keys, hash : Hashes,
                                tries : 0..MAX_ATTEMPTS, on : Someone]]
    BY <1>t, <2>1, <2>2
  <2>4. lost \in SUBSET Keys
    BY DEF Kept
  <2>5. records' \in [Keys -> [by : Someone, created : Nat]]
        /\ \A k \in Keys : records'[k].by = NoRequest
    BY <1>f, <2>1
  <2>6. lapses' \in [Keys -> Nat]
        /\ \A k \in Keys : lapses'[k] = IF k \in lost THEN lapses[k] + 1 ELSE lapses[k]
    BY <1>l, <2>1, <2>4
  <2>7. \A k \in Keys : k \notin lost =>
           inflight[k] = NoRequest /\ records[k].by = NoRequest
    BY DEF Kept
  <2>8. \A k \in Keys : inflight'[k] = NoRequest
    BY <2>1
  <2>9. \A q \in Requests : task'[q] = IF At(q, "idle") THEN task[q] ELSE Left(task[q])
    BY <2>1
  <2>10. TypeOK'
    BY <1>t, <2>1, <2>3, <2>5, <2>6 DEF TypeOK
  <2> HIDE DEF lost
  <2>11. \A q \in Requests :
            \/ task'[q] = task[q] /\ (At(q, "idle") \/ task' = task)
            \/ /\ task'[q].at = "done" /\ task'[q].tries = 0
               /\ task'[q].key = task[q].key /\ task'[q].hash = task[q].hash
    BY <2>2, <2>9
  <2>12. \A k \in Keys : \/ lapses'[k] = lapses[k] + 1
                         \/ /\ inflight'[k] = inflight[k]
                            /\ records'[k].by = records[k].by
                            /\ lapses'[k] = lapses[k]
    BY <2>5, <2>6, <2>7, <2>8
  <2> QED
    BY <2>1, <2>5, <2>8, <2>10, <2>11, <2>12
<1> QED
  BY <1>1, <1>2, <1>3

(* Keys and payloads do not change, and what is over stays over.           *)
LEMMA KeysStay ==
    ASSUME TypeOK, WriteInv, [Next]_vars
    PROVE  \A q \in Requests : /\ task'[q].key = task[q].key
                               /\ task'[q].hash = task[q].hash
                               /\ At(q, "done") => task'[q].at = "done"
<1>1. ASSUME NEW r \in Requests, EndStep(r)
      PROVE  \A q \in Requests : /\ task'[q].key = task[q].key
                                 /\ task'[q].hash = task[q].hash
                                 /\ At(q, "done") => task'[q].at = "done"
  <2>1. PICK cache \in BOOLEAN : Ends(r, cache)
    BY <1>1, EndForms
  <2>2. /\ task[r].at \in Executing
        /\ discord' = discord \/ discord' = [discord EXCEPT ![r] = "none"]
    BY <1>1, EndForms
  <2> QED
    BY <2>1, <2>2, EndFacts DEF At
<1>2. ASSUME NEW r \in Requests, Quiet(r)
      PROVE  \A q \in Requests : /\ task'[q].key = task[q].key
                                 /\ task'[q].hash = task[q].hash
                                 /\ At(q, "done") => task'[q].at = "done"
  <2>1. At(r, "done") => task' = task
    BY <1>2 DEF Quiet, Cached, Pending, Execute, GivesUp, Lock, LookUp, Send, TryAgain,
                Discord, At
  <2> QED
    BY <1>2, <2>1, QuietFacts DEF At
<1>3. CASE (\E k \in Keys : Expire(k) \/ ExpireReservation(k)) \/ Restart
  BY <1>3, StoreFacts DEF At
<1>4. CASE UNCHANGED vars
  BY <1>4 DEF vars, At
<1> QED
  BY <1>1, <1>2, <1>3, <1>4, NextCases

LEMMA WriteStep ==
    ASSUME TypeOK, WriteInv, [Next]_vars
    PROVE  TypeOK' /\ WriteInv'
<1> USE HubAssumption
<1> DEFINE Good(q) ==
        /\ At(q, "run") => task[q].tries < MAX_ATTEMPTS
        /\ task[q].at \notin {"run", "sent"} => task[q].tries = 0
        /\ task[q].at \notin {"sent", "done"} => discord[q] = "none"
        /\ At(q, "sent") => discord[q] # "none"
        /\ At(q, "done") /\ discord[q] = "sent" => q \in adrift
<1>g. \A q \in Requests : Good(q)
  BY DEF WriteInv
<1>t. discord \in [Requests -> {"none", "sent", "done", "refused"}]
  BY DEF TypeOK
<1>1. ASSUME NEW r \in Requests, EndStep(r)
      PROVE  TypeOK' /\ \A q \in Requests : Good(q)'
  <2>1. PICK cache \in BOOLEAN : Ends(r, cache)
    BY <1>1, EndForms
  <2>2. /\ task[r].at \in Executing
        /\ discord' = discord \/ discord' = [discord EXCEPT ![r] = "none"]
    BY <1>1, EndForms
  <2>3. /\ TypeOK'
        /\ task'[r].at = "done" /\ task'[r].tries = 0
        /\ \A q \in Requests \ {r} :
              \/ At(q, "wait") /\ task'[q].at = "done" /\ task'[q].tries = 0
              \/ task'[q] = task[q]
        /\ adrift' = IF discord[r] = "sent" /\ discord'[r] = "sent"
                     THEN adrift \cup {r} ELSE adrift
    BY <2>1, <2>2, EndFacts
  <2>4. \A q \in Requests \ {r} : discord'[q] = discord[q]
    BY <1>t, <2>2
  <2>5. discord'[r] = "sent" => discord[r] = "sent"
    BY <1>t, <2>2
  <2>6. Good(r)'
    BY <2>3, <2>5 DEF At
  <2>7. ASSUME NEW q \in Requests \ {r} PROVE Good(q)'
    BY <1>g, <2>3, <2>4 DEF At
  <2> QED
    BY <2>3, <2>6, <2>7
<1>2. ASSUME NEW r \in Requests, Quiet(r)
      PROVE  TypeOK' /\ \A q \in Requests : Good(q)'
  <2>1. /\ TypeOK'
        /\ \A q \in Requests \ {r} : task'[q] = task[q] /\ discord'[q] = discord[q]
        /\ At(r, "run")' => task'[r].tries < MAX_ATTEMPTS
        /\ task'[r].at \notin {"run", "sent"} => task'[r].tries = 0
        /\ adrift' = adrift
    BY <1>2, QuietFacts
  <2>2. ASSUME NEW q \in Requests \ {r} PROVE Good(q)'
    BY <1>g, <2>1 DEF At
  <2>3. /\ task'[r].at \notin {"sent", "done"} => discord'[r] = "none"
        /\ task'[r].at = "sent" => discord'[r] # "none"
        /\ task'[r].at = "done" /\ discord'[r] = "sent" => r \in adrift
    <3> DEFINE Goal == /\ task'[r].at \notin {"sent", "done"} => discord'[r] = "none"
                       /\ task'[r].at = "sent" => discord'[r] # "none"
                       /\ task'[r].at = "done" /\ discord'[r] = "sent" => r \in adrift
    <3> SUFFICES Goal
      OBVIOUS
    <3>t. /\ task \in [Requests -> [at : Stages, key : Keys, hash : Hashes,
                                    tries : 0..MAX_ATTEMPTS, on : Someone]]
          /\ Good(r)
      BY <1>g DEF TypeOK
    <3>1. CASE Cached(r)
      BY <3>1, <3>t DEF Cached, Goes, At
    <3>2. CASE Pending(r)
      <4>1. /\ At(r, "idle") /\ discord' = discord
            /\ \/ task' = [task EXCEPT ![r].at = "wait", ![r].on = inflight[Key(r)]]
               \/ task' = [task EXCEPT ![r].at = "done"]
        BY <3>2 DEF Pending
      <4>2. task'[r].at \in {"wait", "done"}
        BY <3>t, <4>1
      <4> QED
        BY <3>t, <4>1, <4>2 DEF At
    <3>3. CASE Execute(r)
      <4>1. /\ At(r, "idle") /\ discord' = discord
            /\ task'[r].at \in {"queue", "run"}
        BY <3>3, <3>t DEF Execute, Goes
      <4> QED
        BY <3>t, <4>1 DEF At
    <3>4. CASE GivesUp(r)
      <4>1. /\ At(r, "wait") /\ discord' = discord
            /\ task' = [task EXCEPT ![r] = Left(task[r])]
        BY <3>4 DEF GivesUp
      <4>2. discord'[r] = "none"
        BY <3>t, <4>1 DEF At
      <4>3. task'[r].at = "done"
        BY <3>t, <4>1 DEF Left
      <4> QED
        BY <4>2, <4>3
    <3>5. CASE Lock(r)
      BY <3>5, <3>t DEF Lock, Goes, At
    <3>6. CASE LookUp(r) /\ ~RoleThere
      <4>1. At(r, "look") /\ discord' = discord /\ task'[r].at = "run"
        BY <3>6, <3>t DEF LookUp, Goes
      <4> QED
        BY <3>t, <4>1 DEF At
    <3>7. CASE Send(r)
      BY <3>7, <3>t, <1>t DEF Send, At
    <3>8. CASE TryAgain(r)
      BY <3>8, <3>t, <1>t DEF TryAgain, Goes, At
    <3>9. CASE Discord(r)
      BY <3>9, <3>t, <1>t DEF Discord, At
    <3> HIDE DEF Goal
    <3> QED
      BY <1>2, <3>1, <3>2, <3>3, <3>4, <3>5, <3>6, <3>7, <3>8, <3>9 DEF Quiet
  <2>4. Good(r)'
    BY <2>1, <2>3 DEF At
  <2> QED
    BY <2>1, <2>2, <2>4
<1>3. CASE (\E k \in Keys : Expire(k) \/ ExpireReservation(k)) \/ Restart
  <2>1. TypeOK' /\ discord' = discord
        /\ \A q \in Requests :
              \/ task'[q] = task[q] /\ (At(q, "idle") \/ task' = task)
              \/ task'[q].at = "done" /\ task'[q].tries = 0
    BY <1>3, StoreFacts
  <2>2. /\ adrift \subseteq adrift'
        /\ task' = task \/ {q \in Requests : At(q, "sent") /\ discord[q] = "sent"} \subseteq adrift'
    BY <1>3 DEF Expire, ExpireReservation, Restart
  <2>3. ASSUME NEW q \in Requests PROVE Good(q)'
    <3>1. CASE task'[q] = task[q] /\ (At(q, "idle") \/ task' = task)
      BY <1>g, <2>1, <2>2, <3>1 DEF At
    <3>2. CASE task'[q].at = "done" /\ task'[q].tries = 0 /\ task' # task
      <4>1. discord[q] = "sent" => At(q, "sent") \/ At(q, "done")
        BY <1>g DEF At
      <4>2. discord[q] = "sent" => q \in adrift'
        BY <1>g, <2>2, <3>2, <4>1
      <4> QED
        BY <2>1, <3>2, <4>2 DEF At
    <3>3. CASE task' = task
      BY <1>g, <2>1, <2>2, <3>3 DEF At
    <3> QED
      BY <2>1, <3>1, <3>2, <3>3
  <2> QED
    BY <2>1, <2>3 DEF WriteInv
<1>4. CASE UNCHANGED vars
  BY <1>4 DEF vars, store, history, TypeOK, WriteInv, At
<1>5. TypeOK' /\ \A q \in Requests : Good(q)'
  BY <1>1, <1>2, <1>3, <1>4, NextCases DEF WriteInv
<1> QED
  BY <1>5 DEF WriteInv

LEMMA WriteInit == Init => TypeOK /\ WriteInv
<1> USE HubAssumption
<1> SUFFICES ASSUME Init PROVE TypeOK /\ WriteInv
  OBVIOUS
<1>1. PICK calls \in Calls :
         task = [r \in Requests |-> [at |-> "idle", key |-> calls[r].key,
                                    hash |-> calls[r].hash, tries |-> 0,
                                    on |-> NoRequest]]
  BY DEF Init
<1>2. calls \in [Requests -> [key : Keys, hash : Hashes]]
  OBVIOUS
<1>3. 0 \in 0..MAX_ATTEMPTS /\ "idle" \in Stages /\ NoRequest \in Someone
  BY DEF Stages, Someone
<1>4. task \in [Requests -> [at : Stages, key : Keys, hash : Hashes,
                             tries : 0..MAX_ATTEMPTS, on : Someone]]
  BY <1>1, <1>2, <1>3
<1>5. TypeOK
  BY <1>3, <1>4 DEF Init, TypeOK
<1>6. WriteInv
  BY <1>1 DEF Init, WriteInv, At
<1> QED
  BY <1>5, <1>6

(* The variables keep their types; attempts are bounded by the code's      *)
(* limit although 429 sends a task back to try again.                      *)
THEOREM TypeCorrect == Spec => []TypeOK
<1>1. TypeOK /\ WriteInv /\ [Next]_vars => TypeOK' /\ WriteInv'
  BY WriteStep
<1> QED
  BY <1>1, WriteInit, PTL DEF Spec

-----------------------------------------------------------------------------
(* Who holds what.  A role creation beyond the queue has the lock, and a   *)
(* request that executes without the reservation has overrun it.           *)
HoldInv ==
    /\ NothingLeaks
    /\ \A r \in Requests :
         /\ task[r].at \in {"queue", "look"} => Key(r) \in RoleKeys
         /\ task[r].at \in {"look", "run", "sent"} /\ Key(r) \in RoleKeys => lock = r
         /\ task[r].at \in Executing /\ inflight[Key(r)] # r => Key(r) \in overran

LEMMA HoldStep ==
    ASSUME TypeOK, WriteInv, HoldInv, [Next]_vars
    PROVE  HoldInv'
<1> USE HubAssumption
<1> DEFINE Reserved(k) == inflight[k] # NoRequest =>
                             Key(inflight[k]) = k /\ task[inflight[k]].at \in Executing
           Locked  == lock # NoRequest =>
                        Key(lock) \in RoleKeys /\ task[lock].at \in Executing \ {"queue"}
           Mine(q) == /\ task[q].at \in {"queue", "look"} => Key(q) \in RoleKeys
                      /\ task[q].at \in {"look", "run", "sent"} /\ Key(q) \in RoleKeys
                           => lock = q
                      /\ task[q].at \in Executing /\ inflight[Key(q)] # q
                           => Key(q) \in overran
<1>g. /\ \A k \in Keys : Reserved(k)
      /\ Locked
      /\ \A q \in Requests : Mine(q)
  BY DEF HoldInv, NothingLeaks
<1>t. /\ task \in [Requests -> [at : Stages, key : Keys, hash : Hashes,
                                tries : 0..MAX_ATTEMPTS, on : Someone]]
      /\ inflight \in [Keys -> Someone] /\ lock \in Someone
      /\ \A q \in Requests : Key(q) \in Keys
  BY DEF TypeOK, Key
<1>k. \A q \in Requests : Key(q)' = Key(q)
  BY KeysStay DEF Key
<1> SUFFICES /\ \A k \in Keys : Reserved(k)'
             /\ Locked'
             /\ \A q \in Requests : Mine(q)'
  BY DEF HoldInv, NothingLeaks
<1>1. ASSUME NEW r \in Requests, EndStep(r)
      PROVE  (\A k \in Keys : Reserved(k)') /\ Locked' /\ \A q \in Requests : Mine(q)'
  <2>1. PICK cache \in BOOLEAN : Ends(r, cache)
    BY <1>1, EndForms
  <2>2. /\ task[r].at \in Executing
        /\ discord' = discord \/ discord' = [discord EXCEPT ![r] = "none"]
    BY <1>1, EndForms
  <2>3. /\ task'[r].at = "done"
        /\ \A q \in Requests \ {r} : \/ At(q, "wait") /\ task'[q].at = "done"
                                     \/ task'[q] = task[q]
        /\ inflight'[Key(r)] = NoRequest
        /\ \A k \in Keys \ {Key(r)} : inflight'[k] = inflight[k]
        /\ lock' = IF lock = r THEN NoRequest ELSE lock
        /\ overran' = overran
    BY <2>1, <2>2, EndFacts
  <2>4. ASSUME NEW q \in Requests, task'[q].at \in Executing
        PROVE  q # r /\ task'[q] = task[q]
    BY <2>3, <2>4 DEF Executing, At
  <2>5. ASSUME NEW q \in Requests \ {r}, task[q].at \in Executing
        PROVE  task'[q] = task[q]
    BY <2>3, <2>5 DEF Executing, At
  <2>6. ASSUME NEW k \in Keys PROVE Reserved(k)'
    <3> SUFFICES ASSUME inflight'[k] # NoRequest
                 PROVE  /\ task'[inflight'[k]].key = k
                        /\ task'[inflight'[k]].at \in Executing
      BY DEF Key
    <3>1. k # Key(r) /\ inflight'[k] = inflight[k]
      BY <2>3
    <3>2. inflight[k] \in Requests /\ Key(inflight[k]) = k
          /\ task[inflight[k]].at \in Executing
      BY <1>g, <1>t, <3>1 DEF Someone
    <3>3. inflight[k] # r
      BY <3>1, <3>2
    <3> QED
      BY <2>5, <3>1, <3>2, <3>3 DEF Key
  <2>7. Locked'
    <3> SUFFICES ASSUME lock' # NoRequest
                 PROVE  /\ task'[lock'].key \in RoleKeys
                        /\ task'[lock'].at \in Executing \ {"queue"}
      BY DEF Key
    <3>1. lock' = lock /\ lock # r /\ lock \in Requests
      BY <1>t, <2>3 DEF Someone
    <3> QED
      BY <1>g, <2>5, <3>1 DEF Key
  <2>8. ASSUME NEW q \in Requests PROVE Mine(q)'
    <3>1. CASE task'[q].at \in Executing
      <4>1. q # r /\ task'[q] = task[q]
        BY <2>4, <3>1
      <4>2. lock = q => lock' = q
        BY <2>3, <4>1
      <4>3. inflight'[Key(q)] # q => Key(q) \in overran
        <5>1. CASE Key(q) = Key(r)
          BY <1>g, <2>2, <3>1, <4>1, <5>1
        <5>2. CASE Key(q) # Key(r)
          BY <1>g, <1>t, <2>3, <3>1, <4>1, <5>2
        <5> QED
          BY <5>1, <5>2
      <4> QED
        BY <1>g, <1>k, <2>3, <4>1, <4>2, <4>3
    <3>2. CASE task'[q].at \notin Executing
      BY <3>2 DEF Executing
    <3> QED
      BY <3>1, <3>2
  <2> QED
    BY <2>6, <2>7, <2>8
<1>2. ASSUME NEW r \in Requests, Quiet(r)
      PROVE  (\A k \in Keys : Reserved(k)') /\ Locked' /\ \A q \in Requests : Mine(q)'
  <2>1. /\ \A q \in Requests \ {r} : task'[q] = task[q]
        /\ overran' = overran
    BY <1>2, QuietFacts
  <2>2. CASE Execute(r)
    <3>1. /\ At(r, "idle") /\ inflight[Key(r)] = NoRequest
          /\ inflight' = [inflight EXCEPT ![Key(r)] = r] /\ lock' = lock
          /\ task' = [task EXCEPT ![r].at = IF Key(r) \in RoleKeys THEN "queue" ELSE "run"]
      BY <2>2 DEF Execute, Goes
    <3>2. task'[r].at = IF Key(r) \in RoleKeys THEN "queue" ELSE "run"
      BY <1>t, <3>1
    <3>3. \A k \in Keys : inflight'[k] = IF k = Key(r) THEN r ELSE inflight[k]
      BY <1>t, <3>1
    <3>4. task[r].at \notin Executing /\ task'[r].at \in Executing
      BY <3>1, <3>2 DEF At, Executing
    <3>5. ASSUME NEW k \in Keys PROVE Reserved(k)'
      <4>1. CASE k = Key(r)
        BY <1>k, <3>3, <3>4, <4>1 DEF Key
      <4>2. CASE k # Key(r) /\ inflight[k] # NoRequest
        <5>1. inflight[k] \in Requests /\ inflight[k] # r /\ inflight'[k] = inflight[k]
          BY <1>g, <1>t, <3>3, <3>4, <4>2 DEF Someone
        <5> QED
          BY <1>g, <2>1, <4>2, <5>1 DEF Key
      <4>3. CASE k # Key(r) /\ inflight[k] = NoRequest
        BY <3>3, <4>3
      <4> QED
        BY <4>1, <4>2, <4>3
    <3>6. Locked'
      <4>1. lock # NoRequest => lock \in Requests /\ lock # r
        BY <1>g, <1>t, <3>4 DEF Someone
      <4> QED
        BY <1>g, <2>1, <3>1, <4>1 DEF Key
    <3>7. ASSUME NEW q \in Requests PROVE Mine(q)'
      <4>1. CASE q = r
        BY <1>k, <1>t, <3>2, <3>3, <4>1
      <4>2. CASE q # r
        <5>1. task'[q] = task[q] /\ Key(q)' = Key(q)
          BY <1>k, <2>1, <4>2
        <5>2. task[q].at \in Executing /\ inflight'[Key(q)] # q => inflight[Key(q)] # q
          BY <1>g, <1>t, <3>1, <3>3, <4>2
        <5> QED
          BY <1>g, <2>1, <3>1, <5>1, <5>2
      <4> QED
        BY <4>1, <4>2
    <3> QED
      BY <3>5, <3>6, <3>7
  <2>3. CASE Lock(r)
    <3>1. /\ At(r, "queue") /\ lock = NoRequest /\ lock' = r /\ inflight' = inflight
          /\ task' = [task EXCEPT ![r].at = "look"]
      BY <2>3 DEF Lock, Goes, store
    <3>2. task'[r].at = "look" /\ Key(r) \in RoleKeys /\ task[r].at \in Executing
      BY <1>g, <1>t, <3>1 DEF At, Executing
    <3>3. ASSUME NEW q \in Requests, task[q].at \in Executing
          PROVE  task'[q].at \in Executing
      BY <2>1, <3>2, <3>3 DEF Executing
    <3>4. ASSUME NEW k \in Keys PROVE Reserved(k)'
      <4>1. inflight[k] # NoRequest => inflight[k] \in Requests
        BY <1>t DEF Someone
      <4> QED
        BY <1>g, <1>k, <3>1, <3>3, <4>1 DEF Key
    <3>5. Locked'
      BY <1>k, <3>1, <3>2 DEF Key, Executing
    <3>6. ASSUME NEW q \in Requests PROVE Mine(q)'
      <4>1. CASE q = r
        BY <1>g, <1>k, <2>1, <3>1, <3>2, <4>1
      <4>2. CASE q # r
        <5>1. task'[q] = task[q] /\ Key(q)' = Key(q)
          BY <1>k, <2>1, <4>2
        <5>2. ~(task[q].at \in {"look", "run", "sent"} /\ Key(q) \in RoleKeys)
          BY <1>g, <3>1, HubAssumption
        <5> QED
          BY <1>g, <2>1, <3>1, <5>1, <5>2
      <4> QED
        BY <4>1, <4>2
    <3> QED
      BY <3>4, <3>5, <3>6
  <2>4. CASE ~Execute(r) /\ ~Lock(r)
    <3> DEFINE Later == {"look", "run", "sent"}
               Moves == \/ task[r].at \notin Executing /\ task'[r].at \notin Executing
                        \/ task[r].at \in Later /\ task'[r].at \in {"run", "sent"}
                        \/ task' = task
    <3>1. /\ inflight' = inflight /\ lock' = lock
          /\ Moves
      <4> SUFFICES inflight' = inflight /\ lock' = lock /\ Moves
        OBVIOUS
      <4>1. CASE Cached(r)
        BY <1>t, <4>1 DEF Cached, Goes, At, store, Executing
      <4>2. CASE Pending(r)
        <5>1. /\ At(r, "idle") /\ inflight' = inflight /\ lock' = lock
              /\ \/ task' = [task EXCEPT ![r].at = "wait", ![r].on = inflight[Key(r)]]
                 \/ task' = [task EXCEPT ![r].at = "done"]
          BY <4>2 DEF Pending, store
        <5>2. task'[r].at \in {"wait", "done"}
          BY <1>t, <5>1
        <5> QED
          BY <5>1, <5>2 DEF At, Executing
      <4>3. CASE GivesUp(r)
        <5>1. /\ At(r, "wait") /\ inflight' = inflight /\ lock' = lock
              /\ task' = [task EXCEPT ![r] = Left(task[r])]
          BY <4>3 DEF GivesUp, store
        <5>2. task'[r].at = "done"
          BY <1>t, <5>1 DEF Left
        <5> QED
          BY <5>1, <5>2 DEF At, Executing
      <4>4. CASE LookUp(r) /\ ~RoleThere
        BY <1>t, <4>4 DEF LookUp, Goes, At, store
      <4>5. CASE Send(r)
        BY <1>t, <4>5 DEF Send, At, store
      <4>6. CASE TryAgain(r)
        BY <1>t, <4>6 DEF TryAgain, Goes, At, store
      <4>7. CASE Discord(r)
        BY <4>7 DEF Discord, store
      <4> QED
        BY <1>2, <2>4, <4>1, <4>2, <4>3, <4>4, <4>5, <4>6, <4>7 DEF Quiet
    <3>2. Later \subseteq Executing \ {"queue"}
      BY DEF Executing
    <3>3. ASSUME NEW q \in Requests
          PROVE  /\ task[q].at \in Executing <=> task'[q].at \in Executing
                 /\ task[q].at \in Executing \ {"queue"} =>
                      task'[q].at \in Executing \ {"queue"}
      BY <2>1, <3>1, <3>2
    <3>4. ASSUME NEW k \in Keys PROVE Reserved(k)'
      <4>1. inflight[k] # NoRequest => inflight[k] \in Requests
        BY <1>t DEF Someone
      <4> QED
        BY <1>g, <1>k, <3>1, <3>3, <4>1 DEF Key
    <3>5. Locked'
      <4>1. lock # NoRequest => lock \in Requests
        BY <1>t DEF Someone
      <4> QED
        BY <1>g, <1>k, <3>1, <3>3, <4>1 DEF Key
    <3>6. ASSUME NEW q \in Requests PROVE Mine(q)'
      <4>1. /\ task'[q].at \in {"queue", "look"} => task[q].at = task'[q].at
            /\ task'[q].at \in Later => task[q].at \in Later
        BY <2>1, <3>1, <3>2 DEF Executing
      <4> HIDE DEF Moves
      <4> QED
        BY <1>g, <1>k, <2>1, <3>1, <3>3, <4>1
    <3> QED
      BY <3>4, <3>5, <3>6
  <2> QED
    BY <2>2, <2>3, <2>4
<1>3. CASE \E k \in Keys : Expire(k)
  BY <1>3, <1>g DEF Expire, Key
<1>4. ASSUME NEW k \in Keys, ExpireReservation(k)
      PROVE  (\A j \in Keys : Reserved(j)') /\ Locked' /\ \A q \in Requests : Mine(q)'
  <2>1. /\ task' = task /\ lock' = lock /\ overran' = overran \cup {k}
        /\ inflight' = [inflight EXCEPT ![k] = NoRequest]
    BY <1>4 DEF ExpireReservation
  <2>2. \A j \in Keys : inflight'[j] = IF j = k THEN NoRequest ELSE inflight[j]
    BY <1>t, <2>1
  <2>3. \A j \in Keys : Reserved(j)'
    BY <1>g, <2>1, <2>2 DEF Key
  <2>4. Locked'
    BY <1>g, <2>1 DEF Key
  <2>5. ASSUME NEW q \in Requests PROVE Mine(q)'
    <3>1. Key(q)' = Key(q) /\ Key(q) \in Keys
      BY <1>k, <1>t
    <3> QED
      BY <1>g, <2>1, <2>2, <3>1
  <2> QED
    BY <2>3, <2>4, <2>5
<1>5. CASE Restart
  <2>1. /\ task' = [r \in Requests |-> IF At(r, "idle") THEN task[r] ELSE Left(task[r])]
        /\ inflight' = [k \in Keys |-> NoRequest] /\ lock' = NoRequest
    BY <1>5 DEF Restart
  <2>2. \A q \in Requests : task'[q].at \in {"idle", "done"}
    <3> SUFFICES ASSUME NEW q \in Requests PROVE task'[q].at \in {"idle", "done"}
      OBVIOUS
    <3>1. task[q] \in [at : Stages, key : Keys, hash : Hashes, tries : 0..MAX_ATTEMPTS,
                       on : Someone]
      BY <1>t
    <3>2. Left(task[q]).at = "done"
      BY <3>1 DEF Left
    <3> QED
      BY <2>1, <3>2 DEF At
  <2> QED
    BY <2>1, <2>2 DEF Executing
<1>6. CASE UNCHANGED vars
  BY <1>g, <1>6 DEF vars, store, history, Key
<1> QED
  BY <1>1, <1>2, <1>3, <1>4, <1>5, <1>6, NextCases

LEMMA HoldInit == Init => HoldInv
<1> SUFFICES ASSUME Init PROVE HoldInv
  OBVIOUS
<1>1. PICK calls \in Calls :
         task = [r \in Requests |-> [at |-> "idle", key |-> calls[r].key,
                                    hash |-> calls[r].hash, tries |-> 0,
                                    on |-> NoRequest]]
  BY DEF Init
<1>2. \A r \in Requests : task[r].at = "idle"
  BY <1>1
<1> QED
  BY <1>2 DEF Init, HoldInv, NothingLeaks, Executing

LEMMA Held == Spec => [](TypeOK /\ WriteInv /\ HoldInv)
<1>1. TypeOK /\ WriteInv /\ HoldInv /\ [Next]_vars => (TypeOK /\ WriteInv /\ HoldInv)'
  BY WriteStep, HoldStep
<1> QED
  BY <1>1, WriteInit, HoldInit, PTL DEF Spec

(* No end of a task - answered, failed, dropped with its client - leaves   *)
(* its key reserved or the role lock taken.                                *)
THEOREM NothingStaysHeld == Spec => []NothingLeaks
<1>1. HoldInv => NothingLeaks
  BY DEF HoldInv
<1> QED
  BY <1>1, Held, PTL

-----------------------------------------------------------------------------
(* A record is of a request with its key that has ended, and who waits,    *)
(* waits for one with its key and its payload.                             *)
AnswerInv ==
    /\ AnswerIsOurs
    /\ \A r \in Requests : At(r, "wait") =>
         task[r].on \in Requests /\ Key(task[r].on) = Key(r) /\ SameHash(task[r].on, r)
    /\ \A k \in Keys : records[k].by # NoRequest =>
         Key(records[k].by) = k /\ At(records[k].by, "done")

LEMMA AnswerStep ==
    ASSUME TypeOK, WriteInv, HoldInv, AnswerInv, [Next]_vars
    PROVE  AnswerInv'
<1> USE HubAssumption
<1> DEFINE Ours(q) == answer[q] # NoRequest =>
                /\ Key(answer[q]) = Key(q) /\ At(answer[q], "done")
                /\ task[q].hash = task[answer[q]].hash \/ Key(q) \in overran
           Waits(q) == At(q, "wait") =>
                /\ task[q].on \in Requests /\ Key(task[q].on) = Key(q)
                /\ SameHash(task[q].on, q)
           Kind(k) == records[k].by # NoRequest =>
                Key(records[k].by) = k /\ At(records[k].by, "done")
           Goal == /\ \A q \in Requests : Ours(q)'
                   /\ \A q \in Requests : Waits(q)'
                   /\ \A k \in Keys : Kind(k)'
<1>g. /\ \A q \in Requests : Ours(q)
      /\ \A q \in Requests : Waits(q)
      /\ \A k \in Keys : Kind(k)
  BY DEF AnswerInv, AnswerIsOurs
<1>t. /\ task \in [Requests -> [at : Stages, key : Keys, hash : Hashes,
                                tries : 0..MAX_ATTEMPTS, on : Someone]]
      /\ inflight \in [Keys -> Someone] /\ answer \in [Requests -> Someone]
      /\ \A k \in Keys : records[k].by \in Someone
      /\ \A q \in Requests : Key(q) \in Keys
  BY DEF TypeOK, Key
<1>k. \A q \in Requests : /\ task'[q].key = task[q].key
                          /\ task'[q].hash = task[q].hash
                          /\ At(q, "done") => task'[q].at = "done"
  BY KeysStay
<1> SUFFICES Goal
  BY DEF AnswerInv, AnswerIsOurs
(* What stays as it was stays right. *)
<1>o. ASSUME NEW q \in Requests, answer'[q] = answer[q], overran \subseteq overran'
      PROVE  Ours(q)'
  <2>1. answer[q] # NoRequest => answer[q] \in Requests
    BY <1>t DEF Someone
  <2> QED
    BY <1>g, <1>k, <1>o, <2>1 DEF Key, At
<1>w. ASSUME NEW q \in Requests, task'[q].at = "wait" => task'[q] = task[q]
      PROVE  Waits(q)'
  BY <1>g, <1>k, <1>w DEF Key, At, SameHash
<1>r. ASSUME NEW k \in Keys, records'[k].by \in {records[k].by, NoRequest}
      PROVE  Kind(k)'
  <2>1. records[k].by # NoRequest => records[k].by \in Requests
    BY <1>t DEF Someone
  <2> QED
    BY <1>g, <1>k, <1>r, <2>1 DEF Key, At
<1>1. ASSUME NEW r \in Requests, EndStep(r) PROVE Goal
  <2>1. PICK cache \in BOOLEAN : Ends(r, cache)
    BY <1>1, EndForms
  <2>2. /\ task[r].at \in Executing
        /\ discord' = discord \/ discord' = [discord EXCEPT ![r] = "none"]
    BY <1>1, EndForms
  <2>3. /\ task'[r].at = "done"
        /\ \A q \in Requests \ {r} :
              IF At(q, "wait") /\ task[q].on = inflight[Key(r)]
              THEN task'[q].at = "done" /\ answer'[q] = r
              ELSE task'[q] = task[q] /\ answer'[q] = answer[q]
        /\ answer'[r] = answer[r] /\ overran' = overran
        /\ \A k \in Keys \ {Key(r)} :
              records'[k] = records[k] \/ records'[k].by = NoRequest
        /\ \/ records'[Key(r)] = records[Key(r)]
           \/ records'[Key(r)].by \in {r, NoRequest}
    BY <2>1, <2>2, EndFacts
  <2>4. ASSUME NEW q \in Requests PROVE Ours(q)'
    <3>1. CASE answer'[q] = answer[q]
      BY <1>o, <2>3, <3>1
    <3>2. CASE answer'[q] # answer[q]
      <4>1. q # r /\ At(q, "wait") /\ task[q].on = inflight[Key(r)] /\ answer'[q] = r
        BY <2>3, <3>2
      <4>2. /\ task[q].on \in Requests /\ Key(task[q].on) = Key(q)
            /\ task[task[q].on].hash = task[q].hash
        BY <1>g, <4>1 DEF SameHash
      <4>3. Key(task[q].on) = Key(r)
        BY <1>t, <4>1, <4>2 DEF HoldInv, NothingLeaks
      <4>4. task[q].on = r \/ Key(r) \in overran
        BY <2>2, <4>1 DEF HoldInv
      <4> QED
        BY <1>k, <2>3, <4>1, <4>2, <4>3, <4>4 DEF Key, At
    <3> QED
      BY <3>1, <3>2
  <2>5. ASSUME NEW q \in Requests PROVE Waits(q)'
    BY <1>w, <2>3
  <2>6. ASSUME NEW k \in Keys PROVE Kind(k)'
    <3>1. CASE k = Key(r) /\ records'[k].by = r
      BY <1>k, <2>3, <3>1 DEF Key, At
    <3>2. CASE records'[k].by \in {records[k].by, NoRequest}
      BY <1>r, <3>2
    <3> QED
      BY <2>3, <3>1, <3>2
  <2> QED
    BY <2>4, <2>5, <2>6
<1>2. ASSUME NEW r \in Requests, Quiet(r) PROVE Goal
  <2>1. /\ \A q \in Requests \ {r} : task'[q] = task[q]
        /\ overran' = overran /\ records' = records
    BY <1>2, QuietFacts
  <2>2. ASSUME NEW k \in Keys PROVE Kind(k)'
    BY <1>r, <2>1
  <2>3. CASE Cached(r)
    <3> DEFINE by == records[Key(r)].by
    <3>1. /\ by # NoRequest /\ task'[r].at = "done"
          /\ answer' = IF SameHash(r, by) THEN [answer EXCEPT ![r] = by] ELSE answer
      BY <1>t, <2>3 DEF Cached, Goes
    <3>2. by \in Requests /\ Key(by) = Key(r) /\ At(by, "done")
      BY <1>g, <1>t, <3>1 DEF Someone
    <3>3. ASSUME NEW q \in Requests PROVE Ours(q)'
      <4>1. CASE answer'[q] = answer[q]
        BY <1>o, <2>1, <4>1
      <4>2. CASE answer'[q] # answer[q]
        <5>1. q = r /\ answer'[q] = by /\ SameHash(r, by)
          BY <1>t, <3>1, <4>2
        <5> QED
          BY <1>k, <3>2, <5>1 DEF Key, At, SameHash
      <4> QED
        BY <4>1, <4>2
    <3>4. ASSUME NEW q \in Requests PROVE Waits(q)'
      BY <1>w, <2>1, <3>1
    <3> QED
      BY <2>2, <3>3, <3>4
  <2>4. CASE Pending(r)
    <3> DEFINE holder == inflight[Key(r)]
    <3>1. /\ holder # NoRequest /\ answer' = answer
          /\ task' = IF SameHash(r, holder)
                     THEN [task EXCEPT ![r].at = "wait", ![r].on = holder]
                     ELSE [task EXCEPT ![r].at = "done"]
      BY <2>4 DEF Pending
    <3>2. holder \in Requests /\ Key(holder) = Key(r)
      BY <1>t, <3>1 DEF HoldInv, NothingLeaks, Someone
    <3>3. ASSUME NEW q \in Requests PROVE Ours(q)'
      BY <1>o, <2>1, <3>1
    <3>4. Waits(r)'
      <4>1. task'[r].at = "wait" => SameHash(r, holder) /\ task'[r].on = holder
        BY <1>t, <3>1
      <4> QED
        BY <1>k, <3>2, <4>1 DEF Key, At, SameHash
    <3>5. ASSUME NEW q \in Requests \ {r} PROVE Waits(q)'
      BY <1>w, <2>1
    <3> QED
      BY <2>2, <3>3, <3>4, <3>5
  <2>5. CASE ~Cached(r) /\ ~Pending(r)
    <3>1. answer' = answer
      BY <1>2, <2>5 DEF Quiet, Execute, GivesUp, Lock, LookUp, Send, TryAgain, Discord
    <3>2. task'[r].at = "wait" => task'[r] = task[r]
      <4>1. CASE Execute(r)
        BY <1>t, <4>1 DEF Execute, Goes
      <4>2. CASE GivesUp(r)
        <5>1. task'[r] = Left(task[r])
          BY <1>t, <4>2 DEF GivesUp
        <5>2. Left(task[r]).at = "done"
          BY <1>t DEF Left
        <5> QED
          BY <5>1, <5>2
      <4>3. CASE Lock(r)
        BY <1>t, <4>3 DEF Lock, Goes
      <4>4. CASE LookUp(r) /\ ~RoleThere
        BY <1>t, <4>4 DEF LookUp, Goes
      <4>5. CASE Send(r)
        BY <1>t, <4>5 DEF Send
      <4>6. CASE TryAgain(r)
        BY <1>t, <4>6 DEF TryAgain, Goes
      <4>7. CASE Discord(r)
        BY <4>7 DEF Discord
      <4> QED
        BY <1>2, <2>5, <4>1, <4>2, <4>3, <4>4, <4>5, <4>6, <4>7 DEF Quiet
    <3>3. ASSUME NEW q \in Requests PROVE Ours(q)'
      BY <1>o, <2>1, <3>1
    <3>4. ASSUME NEW q \in Requests PROVE Waits(q)'
      BY <1>w, <2>1, <3>2
    <3> QED
      BY <2>2, <3>3, <3>4
  <2> QED
    BY <2>3, <2>4, <2>5
<1>3. CASE (\E k \in Keys : Expire(k) \/ ExpireReservation(k)) \/ Restart
  <2>1. /\ answer' = answer
        /\ \A q \in Requests : task'[q] = task[q] \/ task'[q].at = "done"
        /\ \A k \in Keys : records'[k].by \in {records[k].by, NoRequest}
    BY <1>3, StoreFacts
  <2>2. overran \subseteq overran'
    BY <1>3 DEF Expire, ExpireReservation, Restart
  <2>3. ASSUME NEW q \in Requests PROVE Ours(q)'
    BY <1>o, <2>1, <2>2
  <2>4. ASSUME NEW q \in Requests PROVE Waits(q)'
    BY <1>w, <2>1
  <2>5. ASSUME NEW k \in Keys PROVE Kind(k)'
    BY <1>r, <2>1
  <2> QED
    BY <2>3, <2>4, <2>5
<1>4. CASE UNCHANGED vars
  BY <1>g, <1>4 DEF vars, store, history, Key, At, SameHash
<1> QED
  BY <1>1, <1>2, <1>3, <1>4, NextCases

(* A request that another one answers for has that one's key, and its      *)
(* payload too unless the key's reservation has expired under its holder.  *)
THEOREM AnsweredRight == Spec => []AnswerIsOurs
<1>1. Init => AnswerInv
  <2> SUFFICES ASSUME Init PROVE AnswerInv
    OBVIOUS
  <2>1. \A r \in Requests : task[r].at = "idle"
    <3>1. PICK calls \in Calls :
             task = [r \in Requests |-> [at |-> "idle", key |-> calls[r].key,
                                        hash |-> calls[r].hash, tries |-> 0,
                                        on |-> NoRequest]]
      BY DEF Init
    <3> QED
      BY <3>1
  <2> QED
    BY <2>1 DEF Init, AnswerInv, AnswerIsOurs, At
<1>2. AnswerInv /\ TypeOK /\ WriteInv /\ HoldInv /\ [Next]_vars => AnswerInv'
  BY AnswerStep
<1>3. AnswerInv => AnswerIsOurs
  BY DEF AnswerInv
<1> QED
  BY <1>1, <1>2, <1>3, Held, PTL DEF Spec

-----------------------------------------------------------------------------
(* A role creation that nobody gave up on is executed only while its task  *)
(* has the lock, after a look that found none.                             *)
Created(r) == Key(r) \in RoleKeys /\ discord[r] = "done" /\ r \notin adrift

RoleInv ==
    /\ \A p, q \in Requests : Created(p) /\ Created(q) => p = q
    /\ \A p, q \in Requests :
         task[p].at \in {"run", "sent"} /\ Key(p) \in RoleKeys /\ Created(q) => p = q

LEMMA RoleStep ==
    ASSUME TypeOK, WriteInv, HoldInv, RoleInv, [Next]_vars
    PROVE  RoleInv'
<1> USE HubAssumption
<1> DEFINE Writes(q) == task[q].at \in {"run", "sent"} /\ Key(q) \in RoleKeys
<1>g. /\ \A p, q \in Requests : Created(p) /\ Created(q) => p = q
      /\ \A p, q \in Requests : Writes(p) /\ Created(q) => p = q
  BY DEF RoleInv
<1>t. /\ task \in [Requests -> [at : Stages, key : Keys, hash : Hashes,
                                tries : 0..MAX_ATTEMPTS, on : Someone]]
      /\ discord \in [Requests -> {"none", "sent", "done", "refused"}]
  BY DEF TypeOK
<1>k. \A q \in Requests : Key(q)' = Key(q)
  BY KeysStay DEF Key
(* A step that executes no creation and lets none go on to its write.      *)
<1>s. ASSUME \A q \in Requests : Created(q)' => Created(q),
             \A q \in Requests : Writes(q)' => Writes(q)
      PROVE  RoleInv'
  BY <1>g, <1>s DEF RoleInv
<1>1. ASSUME NEW r \in Requests, EndStep(r) PROVE RoleInv'
  <2>1. PICK cache \in BOOLEAN : Ends(r, cache)
    BY <1>1, EndForms
  <2>2. /\ task[r].at \in Executing
        /\ discord' = discord \/ discord' = [discord EXCEPT ![r] = "none"]
    BY <1>1, EndForms
  <2>3. /\ task'[r].at = "done"
        /\ \A q \in Requests \ {r} : task'[q].at = "done" \/ task'[q] = task[q]
        /\ adrift \subseteq adrift'
    BY <2>1, <2>2, EndFacts
  <2>4. \A q \in Requests : discord'[q] = "done" => discord[q] = "done"
    BY <1>t, <2>2
  <2>5. \A q \in Requests : Created(q)' => Created(q)
    BY <1>k, <2>3, <2>4 DEF Created
  <2>6. \A q \in Requests : Writes(q)' => Writes(q)
    BY <1>k, <2>3
  <2> QED
    BY <1>s, <2>5, <2>6
<1>2. ASSUME NEW r \in Requests, Quiet(r) PROVE RoleInv'
  <2>1. /\ \A q \in Requests \ {r} : task'[q] = task[q] /\ discord'[q] = discord[q]
        /\ adrift' = adrift
    BY <1>2, QuietFacts
  <2>2. CASE LookUp(r) /\ ~RoleThere
    <3>1. discord' = discord /\ ~RoleThere
      BY <2>2 DEF LookUp
    <3>2. \A q \in Requests : ~Created(q)'
      BY <1>k, <3>1 DEF Created, RoleThere
    <3> QED
      BY <3>2 DEF RoleInv
  <2>3. CASE Discord(r)
    <3>1. task' = task /\ discord[r] = "sent"
      BY <2>3 DEF Discord
    <3>2. \A q \in Requests : Writes(q)' => Writes(q)
      BY <1>k, <3>1
    <3>3. \A q \in Requests \ {r} : Created(q)' => Created(q)
      BY <1>k, <2>1 DEF Created
    <3>4. CASE ~Created(r)'
      BY <1>s, <3>2, <3>3, <3>4
    <3>5. CASE Created(r)'
      <4>1. Key(r) \in RoleKeys /\ r \notin adrift
        BY <1>k, <2>1, <3>5 DEF Created
      <4>2. At(r, "sent")
        BY <3>1, <4>1 DEF WriteInv, At
      <4>3. Writes(r) /\ lock = r
        BY <4>1, <4>2 DEF At, HoldInv
      <4>4. \A q \in Requests \ {r} : ~Created(q)
        BY <1>g, <4>3
      <4>5. \A q \in Requests : Writes(q) => q = r
        BY <4>3 DEF HoldInv
      <4>6. \A q \in Requests \ {r} : ~Created(q)'
        BY <3>3, <4>4
      <4> QED
        BY <3>2, <4>5, <4>6 DEF RoleInv
    <3> QED
      BY <3>4, <3>5
  <2>4. CASE ~(LookUp(r) /\ ~RoleThere) /\ ~Discord(r)
    <3> DEFINE Holds == /\ discord'[r] = "done" => discord[r] = "done"
                        /\ Writes(r)' => Writes(r)
    <3>k. Key(r)' = Key(r)
      BY <1>k
    <3>1. Holds
      <4>1. CASE Cached(r)
        BY <1>t, <3>k, <4>1 DEF Cached, Goes
      <4>2. CASE Pending(r)
        <5>1. /\ discord' = discord
              /\ \/ task' = [task EXCEPT ![r].at = "wait", ![r].on = inflight[Key(r)]]
                 \/ task' = [task EXCEPT ![r].at = "done"]
          BY <4>2 DEF Pending
        <5>2. task'[r].at \in {"wait", "done"}
          BY <1>t, <5>1
        <5> QED
          BY <5>1, <5>2
      <4>3. CASE Execute(r)
        <5>1. discord' = discord /\ task'[r].at = IF Key(r) \in RoleKeys THEN "queue" ELSE "run"
          BY <1>t, <4>3 DEF Execute, Goes
        <5> QED
          BY <3>k, <5>1
      <4>4. CASE GivesUp(r)
        <5>1. task'[r] = Left(task[r]) /\ discord' = discord
          BY <1>t, <4>4 DEF GivesUp
        <5>2. Left(task[r]).at = "done"
          BY <1>t DEF Left
        <5> QED
          BY <5>1, <5>2
      <4>5. CASE Lock(r)
        BY <1>t, <4>5 DEF Lock, Goes
      <4>6. CASE Send(r)
        <5>1. At(r, "run") /\ discord'[r] = "sent"
          BY <1>t, <4>6 DEF Send
        <5> QED
          BY <3>k, <5>1 DEF At
      <4>7. CASE TryAgain(r)
        <5>1. At(r, "sent") /\ discord'[r] = "none"
          BY <1>t, <4>7 DEF TryAgain
        <5> QED
          BY <3>k, <5>1 DEF At
      <4> QED
        BY <1>2, <2>4, <4>1, <4>2, <4>3, <4>4, <4>5, <4>6, <4>7 DEF Quiet
    <3>2. \A q \in Requests : Writes(q)' => Writes(q)
      BY <1>k, <2>1, <3>1
    <3>3. \A q \in Requests : Created(q)' => Created(q)
      BY <1>k, <2>1, <3>1 DEF Created
    <3> QED
      BY <1>s, <3>2, <3>3
  <2> QED
    BY <2>2, <2>3, <2>4
<1>3. CASE (\E k \in Keys : Expire(k) \/ ExpireReservation(k)) \/ Restart
  <2>1. /\ discord' = discord
        /\ \A q \in Requests : task'[q] = task[q] \/ task'[q].at = "done"
    BY <1>3, StoreFacts
  <2>2. adrift \subseteq adrift'
    BY <1>3 DEF Expire, ExpireReservation, Restart
  <2>3. \A q \in Requests : Created(q)' => Created(q)
    BY <1>k, <2>1, <2>2 DEF Created
  <2>4. \A q \in Requests : Writes(q)' => Writes(q)
    BY <1>k, <2>1
  <2> QED
    BY <1>s, <2>3, <2>4
<1>4. CASE UNCHANGED vars
  BY <1>4 DEF vars, history, RoleInv, Created, Key
<1> QED
  BY <1>1, <1>2, <1>3, <1>4, NextCases

(* Role creations with different keys, in any number, create the role      *)
(* once, those that were given up on while Discord had their write apart.  *)
THEOREM RoleCreatedOnce == Spec => []RoleOnce
<1>1. Init => RoleInv
  BY DEF Init, RoleInv, Created
<1>2. RoleInv /\ TypeOK /\ WriteInv /\ HoldInv /\ [Next]_vars => RoleInv'
  BY RoleStep
<1>3. RoleInv => RoleOnce
  <2> SUFFICES ASSUME RoleInv PROVE RoleOnce
    OBVIOUS
  <2> DEFINE made == {r \in Requests : /\ Key(r) \in RoleKeys /\ discord[r] = "done"
                                       /\ r \notin adrift}
  <2>1. \A p, q \in made : p = q
    BY DEF RoleInv, Created
  <2>2. CASE made = {}
    BY <2>2, FS_EmptySet DEF RoleOnce
  <2>3. CASE made # {}
    <3>1. PICK p \in made : TRUE
      BY <2>3
    <3>2. made = {p}
      BY <2>1, <3>1
    <3>3. Cardinality(made) = 1
      BY <3>2, FS_Singleton
    <3> QED
      BY <3>3 DEF RoleOnce
  <2> QED
    BY <2>2, <2>3
<1> QED
  BY <1>1, <1>2, <1>3, Held, PTL DEF Spec

-----------------------------------------------------------------------------
(* Requests with a key that are executed, or that may be yet, are counted: *)
(* the store knows about one, and the others are paid for by its lapses.   *)
Bound(k) == lapses[k] + IF inflight[k] # NoRequest \/ records[k].by # NoRequest
                        THEN 1 ELSE 0

Counts(k) == {r \in Requests : /\ Key(r) = k
                               /\ task[r].at \in Executing \/ discord[r] \in {"sent", "done"}}

CountInv == \A k \in Keys : Cardinality(Counts(k)) <= Bound(k)

LEMMA CountsFinite ==
    ASSUME NEW k
    PROVE  /\ IsFiniteSet(Counts(k)) /\ Cardinality(Counts(k)) \in Nat
           /\ IsFiniteSet(Counts(k)') /\ Cardinality(Counts(k)') \in Nat
<1>1. Counts(k) \subseteq Requests /\ Counts(k)' \subseteq Requests
  BY DEF Counts
<1> QED
  BY <1>1, FS_Subset, FS_CardinalityType, HubAssumption

(* Nothing new is counted, and the bound does not shrink.                  *)
LEMMA CountsShrink ==
    ASSUME TypeOK, TypeOK', NEW k \in Keys, Cardinality(Counts(k)) <= Bound(k),
           Counts(k)' \subseteq Counts(k), Bound(k) <= Bound(k)'
    PROVE  Cardinality(Counts(k)') <= Bound(k)'
<1>1. Cardinality(Counts(k)') <= Cardinality(Counts(k))
  BY CountsFinite, FS_Subset
<1>2. Bound(k) \in Nat /\ Bound(k)' \in Nat
  BY DEF TypeOK, Bound
<1> QED
  BY <1>1, <1>2, CountsFinite

LEMMA CountStep ==
    ASSUME TypeOK, WriteInv, HoldInv, CountInv, [Next]_vars
    PROVE  CountInv'
<1> USE HubAssumption
<1>t. /\ task \in [Requests -> [at : Stages, key : Keys, hash : Hashes,
                                tries : 0..MAX_ATTEMPTS, on : Someone]]
      /\ discord \in [Requests -> {"none", "sent", "done", "refused"}]
      /\ lapses \in [Keys -> Nat] /\ inflight \in [Keys -> Someone]
      /\ \A q \in Requests : Key(q) \in Keys
  BY DEF TypeOK, Key
<1>u. TypeOK' /\ lapses' \in [Keys -> Nat]
  BY WriteStep DEF TypeOK
<1>k. \A q \in Requests : Key(q)' = Key(q)
  BY KeysStay DEF Key
<1>b. \A k \in Keys : Bound(k) \in Nat /\ Bound(k)' \in Nat
  BY <1>t, <1>u DEF Bound
<1> SUFFICES ASSUME NEW k \in Keys PROVE Cardinality(Counts(k)') <= Bound(k)'
  BY DEF CountInv
<1>i. Cardinality(Counts(k)) <= Bound(k)
  BY DEF CountInv
<1>1. ASSUME NEW r \in Requests, EndStep(r) PROVE Cardinality(Counts(k)') <= Bound(k)'
  <2>1. PICK cache \in BOOLEAN : Ends(r, cache) /\ (cache \/ discord'[r] = "none")
    BY <1>1, EndForms
  <2>2. /\ task[r].at \in Executing
        /\ discord' = discord \/ discord' = [discord EXCEPT ![r] = "none"]
    BY <1>1, EndForms
  <2>3. /\ task'[r].at = "done"
        /\ \A q \in Requests \ {r} : task'[q].at = "done" \/ task'[q] = task[q]
        /\ inflight'[Key(r)] = NoRequest
        /\ \A j \in Keys \ {Key(r)} : inflight'[j] = inflight[j]
        /\ \A j \in Keys : lapses'[j] \in {lapses[j], lapses[j] + 1}
        /\ \A j \in Keys \ {Key(r)} :
              \/ records'[j] = records[j]
              \/ records'[j].by = NoRequest /\ lapses'[j] = lapses[j] + 1
        /\ ~cache => records'[Key(r)] = records[Key(r)]
        /\ cache => \/ records'[Key(r)].by = r
                    \/ /\ records'[Key(r)].by = NoRequest
                       /\ lapses'[Key(r)] = lapses[Key(r)] + 1
    BY <2>1, <2>2, EndFacts
  <2>4. \A q \in Requests : discord'[q] \in {"sent", "done"} => discord'[q] = discord[q]
    BY <1>t, <2>2
  <2>5. Counts(k)' \subseteq Counts(k)
    <3> SUFFICES ASSUME NEW q \in Requests, Key(q)' = k,
                        task'[q].at \in Executing \/ discord'[q] \in {"sent", "done"}
                 PROVE  q \in Counts(k)
      BY DEF Counts
    <3>1. Key(q) = k
      BY <1>k
    <3>2. task'[q].at \in Executing => task[q].at \in Executing
      BY <2>3 DEF Executing
    <3> QED
      BY <2>4, <3>1, <3>2 DEF Counts
  <2>6. CASE k # Key(r)
    <3>1. Bound(k) <= Bound(k)'
      BY <1>t, <2>3, <2>6 DEF Bound
    <3> QED
      BY <1>i, <1>u, <2>5, <3>1, CountsShrink
  <2>7. CASE k = Key(r) /\ cache
    <3>1. r # NoRequest
      OBVIOUS
    <3>2. Bound(k) <= Bound(k)'
      BY <1>t, <2>3, <2>7, <3>1 DEF Bound
    <3> QED
      BY <1>i, <1>u, <2>5, <3>2, CountsShrink
  <2>8. CASE k = Key(r) /\ ~cache
    <3>1. r \in Counts(k) /\ r \notin Counts(k)'
      BY <2>1, <2>2, <2>3, <2>8 DEF Counts, Executing
    <3>2. Counts(k)' \subseteq Counts(k) \ {r}
      BY <2>5, <3>1
    <3>3. /\ IsFiniteSet(Counts(k) \ {r})
          /\ Cardinality(Counts(k) \ {r}) = Cardinality(Counts(k)) - 1
      BY <3>1, CountsFinite, FS_RemoveElement
    <3>4. Cardinality(Counts(k)') <= Cardinality(Counts(k)) - 1
      BY <3>2, <3>3, FS_Subset
    <3>5. Bound(k) <= Bound(k)' + 1
      BY <1>t, <2>3, <2>8 DEF Bound
    <3> QED
      BY <1>b, <1>i, <3>4, <3>5, CountsFinite
  <2> QED
    BY <2>6, <2>7, <2>8
<1>2. ASSUME NEW r \in Requests, Quiet(r) PROVE Cardinality(Counts(k)') <= Bound(k)'
  <2>1. /\ \A q \in Requests \ {r} : task'[q] = task[q] /\ discord'[q] = discord[q]
        /\ records' = records /\ lapses' = lapses
    BY <1>2, QuietFacts
  <2>2. CASE Execute(r) /\ k = Key(r)
    <3>1. /\ inflight[k] = NoRequest /\ records[k].by = NoRequest /\ inflight'[k] = r
      BY <1>t, <2>2 DEF Execute
    <3>2. Bound(k)' = Bound(k) + 1
      BY <1>t, <2>1, <3>1 DEF Bound
    <3>3. Counts(k)' \subseteq Counts(k) \cup {r}
      BY <1>k, <2>1 DEF Counts
    <3>4. /\ IsFiniteSet(Counts(k) \cup {r})
          /\ Cardinality(Counts(k) \cup {r}) <= Cardinality(Counts(k)) + 1
      <4>1. IsFiniteSet(Counts(k)) /\ Cardinality(Counts(k)) \in Nat
        BY CountsFinite
      <4>2. /\ IsFiniteSet(Counts(k) \cup {r})
            /\ Cardinality(Counts(k) \cup {r}) =
                 IF r \in Counts(k) THEN Cardinality(Counts(k)) ELSE Cardinality(Counts(k)) + 1
        BY <4>1, FS_AddElement
      <4> QED
        BY <4>1, <4>2
    <3>5. Cardinality(Counts(k)') <= Cardinality(Counts(k) \cup {r})
      BY <3>3, <3>4, FS_Subset
    <3>6. Cardinality(Counts(k) \cup {r}) \in Nat
      BY <3>4, FS_CardinalityType
    <3> QED
      BY <1>b, <1>i, <3>2, <3>4, <3>5, <3>6, CountsFinite
  <2>3. CASE ~(Execute(r) /\ k = Key(r))
    <3>1. inflight'[k] = inflight[k]
      <4>1. CASE Execute(r)
        BY <1>t, <2>3, <4>1 DEF Execute
      <4>2. CASE ~Execute(r)
        BY <1>2, <4>2 DEF Quiet, Cached, Pending, GivesUp, Lock, LookUp, Send, TryAgain,
                          Discord, store
      <4> QED
        BY <4>1, <4>2
    <3>2. Bound(k)' = Bound(k)
      BY <2>1, <3>1 DEF Bound
    <3>3. r \in Counts(k)' => r \in Counts(k)
      <4> SUFFICES ASSUME k = Key(r),
                          task'[r].at \in Executing \/ discord'[r] \in {"sent", "done"}
                   PROVE  task[r].at \in Executing \/ discord[r] \in {"sent", "done"}
        BY <1>k DEF Counts
      <4>1. CASE Cached(r)
        BY <1>t, <4>1 DEF Cached, Goes, Executing
      <4>2. CASE Pending(r)
        <5>1. /\ discord' = discord
              /\ \/ task' = [task EXCEPT ![r].at = "wait", ![r].on = inflight[Key(r)]]
                 \/ task' = [task EXCEPT ![r].at = "done"]
          BY <4>2 DEF Pending
        <5>2. task'[r].at \in {"wait", "done"}
          BY <1>t, <5>1
        <5> QED
          BY <5>1, <5>2 DEF Executing
      <4>3. CASE GivesUp(r)
        <5>1. task'[r] = Left(task[r]) /\ discord' = discord
          BY <1>t, <4>3 DEF GivesUp
        <5>2. Left(task[r]).at = "done"
          BY <1>t DEF Left
        <5> QED
          BY <5>1, <5>2 DEF Executing
      <4>4. CASE Lock(r) \/ LookUp(r) \/ Send(r) \/ TryAgain(r)
        BY <4>4 DEF Lock, LookUp, Send, TryAgain, At, Executing
      <4>5. CASE Discord(r)
        BY <4>5 DEF Discord
      <4> QED
        BY <1>2, <2>3, <4>1, <4>2, <4>3, <4>4, <4>5 DEF Quiet
    <3>4. Counts(k)' \subseteq Counts(k)
      BY <1>k, <2>1, <3>3 DEF Counts
    <3> QED
      BY <1>b, <1>i, <1>u, <3>2, <3>4, CountsShrink
  <2> QED
    BY <2>2, <2>3
<1>3. CASE (\E j \in Keys : Expire(j) \/ ExpireReservation(j)) \/ Restart
  <2>1. /\ discord' = discord
        /\ \A q \in Requests : task'[q] = task[q] \/ task'[q].at = "done"
        /\ \/ lapses'[k] = lapses[k] + 1
           \/ /\ inflight'[k] = inflight[k] /\ records'[k].by = records[k].by
              /\ lapses'[k] = lapses[k]
    BY <1>3, StoreFacts
  <2>2. Counts(k)' \subseteq Counts(k)
    BY <1>k, <2>1 DEF Counts, Executing
  <2>3. Bound(k) <= Bound(k)'
    BY <1>t, <1>u, <2>1 DEF Bound
  <2> QED
    BY <1>i, <1>u, <2>2, <2>3, CountsShrink
<1>4. CASE UNCHANGED vars
  BY <1>4, <1>i DEF vars, store, history, Counts, Bound, Key
<1> QED
  BY <1>1, <1>2, <1>3, <1>4, NextCases

(* Discord executes the requests with one key once, and once more at most  *)
(* for each time the store has forgotten about the key.                    *)
THEOREM ExecutedOnce == Spec => []OncePerKey
<1>1. Init => CountInv
  <2> SUFFICES ASSUME Init PROVE CountInv
    OBVIOUS
  <2>1. \A r \in Requests : task[r].at = "idle"
    <3>1. PICK calls \in Calls :
             task = [r \in Requests |-> [at |-> "idle", key |-> calls[r].key,
                                        hash |-> calls[r].hash, tries |-> 0,
                                        on |-> NoRequest]]
      BY DEF Init
    <3> QED
      BY <3>1
  <2>2. \A k \in Keys : Counts(k) = {} /\ Bound(k) = 0
    BY <2>1 DEF Init, Counts, Bound, Executing
  <2> QED
    BY <2>2, FS_EmptySet DEF CountInv
<1>2. CountInv /\ TypeOK /\ WriteInv /\ HoldInv /\ [Next]_vars => CountInv'
  BY CountStep
<1>3. CountInv /\ TypeOK => OncePerKey
  <2> SUFFICES ASSUME CountInv, TypeOK, NEW k \in Keys
               PROVE  Cardinality(Written(k)) <= 1 + lapses[k]
    BY DEF OncePerKey
  <2>1. Written(k) \subseteq Counts(k)
    BY DEF Written, Counts
  <2>2. /\ Cardinality(Written(k)) <= Cardinality(Counts(k))
        /\ Cardinality(Written(k)) \in Nat
    BY <2>1, CountsFinite, FS_Subset, FS_CardinalityType
  <2>3. Cardinality(Counts(k)) <= Bound(k) /\ lapses[k] \in Nat
    BY DEF CountInv, TypeOK
  <2>4. Bound(k) <= 1 + lapses[k] /\ Bound(k) \in Nat
    BY <2>3 DEF Bound
  <2> QED
    BY <2>2, <2>3, <2>4, CountsFinite
<1> QED
  BY <1>1, <1>2, <1>3, Held, PTL DEF Spec
=============================================================================
