------------------------ MODULE EventSubInboxProofs ------------------------
(***************************************************************************)
(* Theorems about EventSubInbox for every set of works and workers and     *)
(* every value of its constants.                                           *)
(***************************************************************************)
EXTENDS EventSubInbox, TLAPS

LEMMA LessType == \A t \in Nat : Less(t) \in Nat
  BY DEF Less

(* The variables keep their types: in particular no attempt_count in the   *)
(* inbox, and none in a worker's hand, ever reaches INBOX_MAX_ATTEMPTS.    *)
THEOREM TypeCorrect == Spec => []TypeOK
<1> USE InboxAssumption, WorkerAssumption
<1>1. Init => TypeOK
  BY DEF Init, TypeOK, Phases, Attempts
<1>2. TypeOK /\ [Next]_vars => TypeOK'
  <2> SUFFICES ASSUME TypeOK, [Next]_vars PROVE TypeOK'
    OBVIOUS
  <2> USE DEF TypeOK, tables, workers, bounds, history
  <2>1. ASSUME NEW k \in Works, Enqueue(k) PROVE TypeOK'
    BY <2>1 DEF Enqueue, InsertRow, Attempts
  <2>2. ASSUME NEW k \in Works, RequeueDeadLetter(k) PROVE TypeOK'
    BY <2>2 DEF RequeueDeadLetter, InsertRow, Attempts
  <2>3. ASSUME NEW w \in Workers, Start(w) PROVE TypeOK'
    BY <2>3 DEF Start, Phases
  <2>4. ASSUME NEW w \in Workers, Lease(w) PROVE TypeOK'
    <3>1. PICK T \in SUBSET Works :
            /\ due' = [k \in Works |-> IF k \in T THEN INBOX_LEASE_SECONDS ELSE due[k]]
            /\ held' = [held EXCEPT ![w] =
                            {[work |-> k, attempts |-> attempts[k]] : k \in T}]
      BY <2>4 DEF Lease, TakeBatch, Oldest, Due
    <3>2. {[work |-> k, attempts |-> attempts[k]] : k \in T} \subseteq LeasedWork
      BY DEF LeasedWork
    <3>3. held' \in [Workers -> SUBSET LeasedWork]
      BY <3>1, <3>2
    <3>4. due' \in [Works -> Nat]
      BY <3>1
    <3> QED
      BY <2>4, <3>3, <3>4 DEF Lease, TakeBatch, Phases
  <2>5. ASSUME NEW w \in Workers, NextWork(w) PROVE TypeOK'
    BY <2>5 DEF NextWork, Phases
  <2>6. ASSUME NEW w \in Workers, EndBatch(w) PROVE TypeOK'
    BY <2>6 DEF EndBatch, Phases
  <2>7. ASSUME NEW w \in Workers, HandlerOk(w) PROVE TypeOK'
    BY <2>7 DEF HandlerOk, Phases, LeasedWork
  <2>8. ASSUME NEW w \in Workers, HandlerErr(w) PROVE TypeOK'
    BY <2>8 DEF HandlerErr, Phases
  <2>9. ASSUME NEW w \in Workers, MarkDelivered(w) PROVE TypeOK'
    BY <2>9 DEF MarkDelivered, DeleteRow, Settled, Phases, LeasedWork, Attempts
  <2>10. ASSUME NEW w \in Workers, MarkRetry(w) PROVE TypeOK'
    <3>1. PICK r \in cur[w] :
            /\ r.attempts + 1 < INBOX_MAX_ATTEMPTS
            /\ IF r.work \in inbox
               THEN /\ attempts' = [attempts EXCEPT ![r.work] = r.attempts + 1]
                    /\ due' = [due EXCEPT ![r.work] = RetryDelay(r.attempts + 1)]
               ELSE UNCHANGED <<attempts, due>>
      BY <2>10 DEF MarkRetry
    <3>2. /\ r.work \in Works
          /\ r.attempts + 1 \in Attempts
          /\ r.attempts + 1 \in 1 .. INBOX_MAX_ATTEMPTS
      BY <3>1 DEF LeasedWork, Attempts
    <3>3. RetryDelay(r.attempts + 1) \in Nat
      BY <3>2, DelayAssumption
    <3>4. attempts' \in [Works -> Attempts] /\ due' \in [Works -> Nat]
      BY <3>1, <3>2, <3>3
    <3> QED
      BY <2>10, <3>4 DEF MarkRetry, Settled, Phases
  <2>11. ASSUME NEW w \in Workers, MarkDeadLetter(w) PROVE TypeOK'
    BY <2>11 DEF MarkDeadLetter, DeleteRow, Settled, Phases, LeasedWork, Attempts
  <2>12. ASSUME NEW w \in Workers, MarkFails(w) PROVE TypeOK'
    BY <2>12 DEF MarkFails, Settled, Phases
  <2>13. ASSUME NEW w \in Workers, Shutdown(w) PROVE TypeOK'
    BY <2>13 DEF Shutdown
  <2>14. ASSUME NEW w \in Workers, Stopped(w) PROVE TypeOK'
    BY <2>14 DEF Stopped, Phases
  <2>15. ASSUME NEW w \in Workers, Crash(w) PROVE TypeOK'
    BY <2>15 DEF Crash, Phases
  <2>16. ASSUME Tick PROVE TypeOK'
    BY <2>16, LessType DEF Tick
  <2>17. ASSUME UNCHANGED vars PROVE TypeOK'
    BY <2>17 DEF vars
  <2> QED
    BY <2>1, <2>2, <2>3, <2>4, <2>5, <2>6, <2>7, <2>8, <2>9, <2>10, <2>11,
       <2>12, <2>13, <2>14, <2>15, <2>16, <2>17
       DEF Next, Progress, Fault, Settle
<1> QED
  BY <1>1, <1>2, PTL DEF Spec

-----------------------------------------------------------------------------
(* What holds with and without overruns. *)

(* Workers only ever hold works that were enqueued, and a worker about to  *)
(* delete a row as delivered has seen its handler succeed.                 *)
HandsOK ==
    \A w \in Workers :
        /\ \A r \in Holding(w) : r.work \in submitted
        /\ pc[w] = "succeeded" => \A r \in cur[w] : r.work \in handled

SafeInv ==
    /\ inbox \cup dead \subseteq submitted
    /\ OneTable
    /\ NoLostWork
    /\ HandsOK

LEMMA SafeInvInit == Init => SafeInv
  BY DEF Init, SafeInv, OneTable, NoLostWork, HandsOK, Holding

LEMMA SafeInvStep == TypeOK /\ SafeInv /\ [Next]_vars => SafeInv'
<1> SUFFICES ASSUME TypeOK, SafeInv, [Next]_vars PROVE SafeInv'
  OBVIOUS
<1> USE DEF TypeOK, SafeInv, OneTable, NoLostWork, HandsOK, Holding,
            tables, workers, bounds, history
<1>1. ASSUME NEW k \in Works, Enqueue(k) PROVE SafeInv'
  BY <1>1 DEF Enqueue, InsertRow
<1>2. ASSUME NEW k \in Works, RequeueDeadLetter(k) PROVE SafeInv'
  BY <1>2 DEF RequeueDeadLetter, InsertRow
<1>3. ASSUME NEW w \in Workers, Start(w) PROVE SafeInv'
  BY <1>3 DEF Start
<1>4. ASSUME NEW w \in Workers, Lease(w) PROVE SafeInv'
  <2>1. PICK T \in SUBSET inbox :
          held' = [held EXCEPT ![w] =
                      {[work |-> k, attempts |-> attempts[k]] : k \in T}]
    BY <1>4 DEF Lease, TakeBatch, Oldest, Due
  <2>2. \A r \in {[work |-> k, attempts |-> attempts[k]] : k \in T} :
            r.work \in submitted
    OBVIOUS
  <2>3. HandsOK'
    BY <1>4, <2>1, <2>2 DEF Lease, TakeBatch
  <2> QED
    BY <1>4, <2>3 DEF Lease, TakeBatch
<1>5. ASSUME NEW w \in Workers, NextWork(w) PROVE SafeInv'
  BY <1>5 DEF NextWork
<1>6. ASSUME NEW w \in Workers, EndBatch(w) PROVE SafeInv'
  BY <1>6 DEF EndBatch
<1>7. ASSUME NEW w \in Workers, HandlerOk(w) PROVE SafeInv'
  <2>1. /\ {r.work : r \in cur[w]} \subseteq handled'
        /\ handled \subseteq handled'
    BY <1>7 DEF HandlerOk
  <2>2. HandsOK'
    BY <1>7, <2>1 DEF HandlerOk
  <2> QED
    BY <1>7, <2>1, <2>2 DEF HandlerOk
<1>8. ASSUME NEW w \in Workers, HandlerErr(w) PROVE SafeInv'
  BY <1>8 DEF HandlerErr
<1>9. ASSUME NEW w \in Workers, MarkDelivered(w) PROVE SafeInv'
  BY <1>9 DEF MarkDelivered, DeleteRow, Settled
<1>10. ASSUME NEW w \in Workers, MarkRetry(w) PROVE SafeInv'
  BY <1>10 DEF MarkRetry, Settled
<1>11. ASSUME NEW w \in Workers, MarkDeadLetter(w) PROVE SafeInv'
  BY <1>11 DEF MarkDeadLetter, DeleteRow, Settled
<1>12. ASSUME NEW w \in Workers, MarkFails(w) PROVE SafeInv'
  BY <1>12 DEF MarkFails, Settled
<1>13. ASSUME NEW w \in Workers, Shutdown(w) PROVE SafeInv'
  BY <1>13 DEF Shutdown
<1>14. ASSUME NEW w \in Workers, Stopped(w) PROVE SafeInv'
  BY <1>14 DEF Stopped
<1>15. ASSUME NEW w \in Workers, Crash(w) PROVE SafeInv'
  BY <1>15 DEF Crash
<1>16. ASSUME Tick PROVE SafeInv'
  BY <1>16 DEF Tick
<1>17. ASSUME UNCHANGED vars PROVE SafeInv'
  BY <1>17 DEF vars
<1> QED
  BY <1>1, <1>2, <1>3, <1>4, <1>5, <1>6, <1>7, <1>8, <1>9, <1>10, <1>11,
     <1>12, <1>13, <1>14, <1>15, <1>16, <1>17
     DEF Next, Progress, Fault, Settle

LEMMA SafeInvHolds == Spec => []SafeInv
  BY SafeInvInit, SafeInvStep, TypeCorrect, PTL DEF Spec

(* No enqueued work is lost before its handler has succeeded: crashes,     *)
(* shutdowns, failed writes and batches that outlast their leases do not   *)
(* take it out of both tables.                                             *)
THEOREM NothingLost == Spec => []NoLostWork
  BY SafeInvHolds, PTL DEF SafeInv

(* A work is in at most one of the inbox and the dead-letter table.        *)
THEOREM InOneTable == Spec => []OneTable
  BY SafeInvHolds, PTL DEF SafeInv

-----------------------------------------------------------------------------
(* What holds when every batch is finished within its lease.  The lease of *)
(* a work in a worker's hand is what keeps its row from being due, so the  *)
(* invariant ties the row's remaining time to the worker's.                *)

HandsIdle ==
    \A w \in Workers :
        /\ pc[w] \in {"off", "idle", "batch"} => cur[w] = {}
        /\ pc[w] \in {"off", "idle"} => held[w] = {}
        /\ cur[w] \cap held[w] = {}

HandsLeased ==
    \A w \in Workers : \A r \in Holding(w) :
        /\ r.work \in inbox
        /\ r.attempts = attempts[r.work]
        /\ leaseLeft[w] > 0
        /\ due[r.work] = leaseLeft[w]

HandsDisjoint ==
    \A v, w \in Workers : \A r \in Holding(v), s \in Holding(w) :
        r.work = s.work => v = w

AttemptsBacked ==
    /\ \A k \in inbox : attempts[k] <= fails[k]
    /\ \A w \in Workers :
        pc[w] = "failed" => \A r \in cur[w] : r.attempts < fails[r.work]

TimelyInv ==
    /\ HandsIdle
    /\ HandsLeased
    /\ HandsDisjoint
    /\ AttemptsBacked
    /\ DeadLetterEarned

LEMMA Squeeze ==
    \A a, f, m \in Nat : a + 1 >= m /\ a < f /\ f <= m => f = m
  OBVIOUS

LEMMA TimelyInvInit == Init => TimelyInv
  BY DEF Init, TimelyInv, HandsIdle, HandsLeased, HandsDisjoint,
         AttemptsBacked, DeadLetterEarned, Holding

LEMMA TimelyInvStep ==
    ASSUME Timely, TypeOK, TypeOK', SafeInv, TimelyInv, [Next]_vars
    PROVE  TimelyInv'
<1> USE InboxAssumption, WorkerAssumption
<1> USE DEF TypeOK, TimelyInv, HandsIdle, HandsLeased, HandsDisjoint,
            AttemptsBacked, DeadLetterEarned, Holding,
            tables, workers, bounds, history
<1>a. /\ \A w \in Workers : \A r \in Holding(w) :
            r \in LeasedWork /\ r.work \in Works /\ r.attempts \in Attempts
      /\ \A w \in Workers : \A r \in cur[w] :
            r \in LeasedWork /\ r.work \in Works /\ r.attempts \in Attempts
  BY DEF LeasedWork
<1>b. ASSUME NEW w \in Workers, NEW r \in cur[w], Settled(w)
      PROVE  /\ HandsIdle'
             /\ HandsDisjoint'
             /\ \A v \in Workers : \A s \in Holding(v)' :
                    s \in Holding(v) /\ s.work # r.work
  <2>1. ASSUME NEW s \in held[w] PROVE s.work # r.work
    <3> SUFFICES ASSUME s.work = r.work PROVE FALSE
      OBVIOUS
    <3>1. s.attempts = r.attempts
      OBVIOUS
    <3>2. s = r
      BY <1>a, <3>1 DEF LeasedWork
    <3> QED
      BY <3>2
  <2>2. ASSUME NEW v \in Workers, v # w, NEW s \in Holding(v)
        PROVE  s.work # r.work
    BY <2>2
  <2>3. \A v \in Workers : \A s \in Holding(v)' :
            s \in Holding(v) /\ s.work # r.work
    BY <1>b, <2>1, <2>2 DEF Settled
  <2>4. HandsIdle'
    BY <1>b DEF Settled
  <2> QED
    BY <2>3, <2>4
<1>c. ASSUME NEW w \in Workers, NEW r \in cur[w], Settled(w), DeleteRow(r.work)
      PROVE  HandsLeased'
  <2> SUFFICES ASSUME NEW v \in Workers, NEW s \in Holding(v)'
               PROVE  /\ s.work \in inbox'
                      /\ s.attempts = attempts'[s.work]
                      /\ leaseLeft'[v] > 0
                      /\ due'[s.work] = leaseLeft'[v]
    OBVIOUS
  <2>1. s \in Holding(v) /\ s.work # r.work
    BY <1>b, <1>c
  <2>2. s.work \in Works /\ s.work \in inbox
    BY <1>a, <2>1
  <2>3. /\ attempts'[s.work] = attempts[s.work] /\ due'[s.work] = due[s.work]
        /\ s.work \in inbox'
    BY <1>c, <2>1, <2>2 DEF DeleteRow
  <2>4. leaseLeft' = leaseLeft
    BY <1>c DEF Settled
  <2> QED
    BY <2>1, <2>3, <2>4
<1>1. ASSUME NEW k \in Works, Enqueue(k) PROVE TimelyInv'
  <2>1. k \notin inbox /\ k \notin dead
    BY <1>1 DEF Enqueue, SafeInv
  <2> QED
    BY <1>1, <2>1 DEF Enqueue, InsertRow
<1>2. ASSUME NEW k \in Works, RequeueDeadLetter(k) PROVE TimelyInv'
  <2>1. k \notin inbox
    BY <1>2 DEF RequeueDeadLetter, SafeInv, OneTable
  <2> QED
    BY <1>2, <2>1 DEF RequeueDeadLetter, InsertRow
<1>3. ASSUME NEW w \in Workers, Start(w) PROVE TimelyInv'
  BY <1>3 DEF Start
<1>4. ASSUME NEW w \in Workers, Lease(w) PROVE TimelyInv'
  <2>1. PICK T \in SUBSET Due :
          /\ due' = [k \in Works |-> IF k \in T THEN INBOX_LEASE_SECONDS ELSE due[k]]
          /\ held' = [held EXCEPT ![w] =
                          {[work |-> k, attempts |-> attempts[k]] : k \in T}]
    BY <1>4 DEF Lease, TakeBatch, Oldest, Due
  <2>2. \A r \in held'[w] : r.work \in T /\ r.attempts = attempts[r.work]
    BY <2>1
  <2>3. \A v \in Workers : \A r \in Holding(v) : r.work \notin T
    BY <1>a, <2>1 DEF Due
  <2>4. cur[w] = {} /\ cur' = cur /\ \A v \in Workers \ {w} : held'[v] = held[v]
    BY <1>4, <2>1 DEF Lease, TakeBatch
  <2>5. HandsIdle'
    BY <1>4, <2>1, <2>4 DEF Lease, TakeBatch
  <2>6. HandsLeased'
    <3> SUFFICES ASSUME NEW v \in Workers, NEW r \in Holding(v)'
                 PROVE  /\ r.work \in inbox'
                        /\ r.attempts = attempts'[r.work]
                        /\ leaseLeft'[v] > 0
                        /\ due'[r.work] = leaseLeft'[v]
      OBVIOUS
    <3>1. CASE v = w
      BY <1>4, <2>1, <2>2, <2>4, <3>1 DEF Lease, TakeBatch, Due
    <3>2. CASE v # w
      BY <1>4, <1>a, <2>1, <2>3, <2>4, <3>2 DEF Lease, TakeBatch
    <3> QED
      BY <3>1, <3>2
  <2>7. HandsDisjoint'
    BY <2>2, <2>3, <2>4
  <2> QED
    BY <1>4, <2>5, <2>6, <2>7 DEF Lease, TakeBatch
<1>5. ASSUME NEW w \in Workers, NextWork(w) PROVE TimelyInv'
  <2>1. \A v \in Workers : Holding(v)' \subseteq Holding(v)
    BY <1>5 DEF NextWork
  <2> QED
    BY <1>5, <2>1 DEF NextWork
<1>6. ASSUME NEW w \in Workers, EndBatch(w) PROVE TimelyInv'
  BY <1>6 DEF EndBatch
<1>7. ASSUME NEW w \in Workers, HandlerOk(w) PROVE TimelyInv'
  BY <1>7 DEF HandlerOk
<1>8. ASSUME NEW w \in Workers, HandlerErr(w) PROVE TimelyInv'
  <2>1. \A k \in Works : fails'[k] >= fails[k]
    BY <1>8 DEF HandlerErr
  <2>2. \A r \in cur[w] : r.attempts < fails'[r.work]
    BY <1>8, <1>a DEF HandlerErr, Attempts
  <2>3. AttemptsBacked'
    BY <1>8, <1>a, <2>1, <2>2 DEF HandlerErr, Attempts
  <2>4. DeadLetterEarned'
    BY <1>8, <2>1 DEF HandlerErr
  <2>5. HandsIdle' /\ HandsLeased' /\ HandsDisjoint'
    BY <1>8 DEF HandlerErr
  <2> QED
    BY <2>3, <2>4, <2>5
<1>9. ASSUME NEW w \in Workers, MarkDelivered(w) PROVE TimelyInv'
  <2>1. PICK r \in cur[w] : DeleteRow(r.work)
    BY <1>9 DEF MarkDelivered
  <2>2. Settled(w)
    BY <1>9 DEF MarkDelivered
  <2>3. HandsLeased'
    BY <1>c, <2>1, <2>2
  <2>4. AttemptsBacked' /\ DeadLetterEarned'
    BY <1>9, <1>a, <2>1, <2>2 DEF MarkDelivered, DeleteRow, Settled
  <2> QED
    BY <1>b, <2>2, <2>3, <2>4
<1>10. ASSUME NEW w \in Workers, MarkRetry(w) PROVE TimelyInv'
  <2>1. PICK r \in cur[w] :
          /\ attempts' = [attempts EXCEPT ![r.work] = r.attempts + 1]
          /\ due' = [due EXCEPT ![r.work] = RetryDelay(r.attempts + 1)]
    BY <1>10 DEF MarkRetry
  <2>2. Settled(w)
    BY <1>10 DEF MarkRetry
  <2>3. HandsLeased'
    <3> SUFFICES ASSUME NEW v \in Workers, NEW s \in Holding(v)'
                 PROVE  /\ s.work \in inbox'
                        /\ s.attempts = attempts'[s.work]
                        /\ leaseLeft'[v] > 0
                        /\ due'[s.work] = leaseLeft'[v]
      OBVIOUS
    <3>1. s \in Holding(v) /\ s.work # r.work
      BY <1>b, <2>2
    <3>2. s.work \in Works
      BY <1>a, <3>1
    <3>3. attempts'[s.work] = attempts[s.work] /\ due'[s.work] = due[s.work]
      BY <2>1, <3>1, <3>2
    <3>4. inbox' = inbox /\ leaseLeft' = leaseLeft
      BY <1>10, <2>2 DEF MarkRetry, Settled
    <3> QED
      BY <3>1, <3>3, <3>4
  <2>4. AttemptsBacked'
    <3>1. r.attempts < fails[r.work] /\ r.work \in Works /\ r.attempts \in Nat
      BY <1>10, <1>a DEF MarkRetry, Attempts
    <3>2. \A k \in inbox : attempts'[k] <= fails[k]
      BY <2>1, <3>1 DEF Attempts
    <3> QED
      BY <1>10, <2>2, <3>2 DEF MarkRetry, Settled
  <2>5. DeadLetterEarned'
    BY <1>10 DEF MarkRetry
  <2> QED
    BY <1>b, <2>2, <2>3, <2>4, <2>5
<1>11. ASSUME NEW w \in Workers, MarkDeadLetter(w) PROVE TimelyInv'
  <2>1. PICK r \in cur[w] :
          /\ r.attempts + 1 >= INBOX_MAX_ATTEMPTS
          /\ dead' = dead \cup {r.work}
          /\ DeleteRow(r.work)
    BY <1>11 DEF MarkDeadLetter
  <2>2. Settled(w)
    BY <1>11 DEF MarkDeadLetter
  <2>3. HandsLeased'
    BY <1>c, <2>1, <2>2
  <2>4. AttemptsBacked'
    BY <1>11, <1>a, <2>1, <2>2 DEF MarkDeadLetter, DeleteRow, Settled
  <2>5. fails[r.work] = INBOX_MAX_ATTEMPTS
    <3>1. r.attempts < fails[r.work] /\ r.work \in Works /\ r.attempts \in Nat
      BY <1>11, <1>a DEF MarkDeadLetter, Attempts
    <3>2. fails[r.work] \in 0 .. INBOX_MAX_ATTEMPTS
      BY <3>1
    <3>3. r.attempts + 1 >= INBOX_MAX_ATTEMPTS
      BY <2>1
    <3>4. /\ fails[r.work] \in Nat /\ INBOX_MAX_ATTEMPTS \in Nat
          /\ fails[r.work] <= INBOX_MAX_ATTEMPTS
      BY <3>2
    <3> HIDE DEF TypeOK, TimelyInv
    <3> QED
      BY <3>1, <3>3, <3>4, Squeeze
  <2>6. DeadLetterEarned'
    BY <1>11, <2>1, <2>5 DEF MarkDeadLetter
  <2> QED
    BY <1>b, <2>2, <2>3, <2>4, <2>6
<1>12. ASSUME NEW w \in Workers, MarkFails(w) PROVE TimelyInv'
  BY <1>12 DEF MarkFails, Settled
<1>13. ASSUME NEW w \in Workers, Shutdown(w) PROVE TimelyInv'
  BY <1>13 DEF Shutdown
<1>14. ASSUME NEW w \in Workers, Stopped(w) PROVE TimelyInv'
  BY <1>14 DEF Stopped
<1>15. ASSUME NEW w \in Workers, Crash(w) PROVE TimelyInv'
  BY <1>15 DEF Crash
<1>16. ASSUME Tick PROVE TimelyInv'
  BY <1>16, <1>a DEF Tick, Less
<1>17. ASSUME UNCHANGED vars PROVE TimelyInv'
  BY <1>17 DEF vars
<1> QED
  BY <1>1, <1>2, <1>3, <1>4, <1>5, <1>6, <1>7, <1>8, <1>9, <1>10, <1>11,
     <1>12, <1>13, <1>14, <1>15, <1>16, <1>17
     DEF Next, Progress, Fault, Settle

LEMMA TimelyInvHolds == Timely => (Spec => []TimelyInv)
<1> SUFFICES ASSUME Timely PROVE Spec => []TimelyInv
  OBVIOUS
<1>1. TypeOK /\ TypeOK' /\ SafeInv /\ TimelyInv /\ [Next]_vars => TimelyInv'
  BY TimelyInvStep
<1> QED
  BY <1>1, TimelyInvInit, TypeCorrect, SafeInvHolds, PTL DEF Spec

(* Batches that end within their lease give exclusive leases, for any      *)
(* number of workers, faults and requeues: no work is ever in the hands of *)
(* two workers.                                                            *)
THEOREM ExclusiveLeases == Timely => (Spec => []LeaseExclusive)
<1>1. TimelyInv => LeaseExclusive
  BY DEF TimelyInv, HandsDisjoint, LeaseExclusive, InHand
<1> QED
  BY <1>1, TimelyInvHolds, PTL

(* ... and every dead letter has used up the attempts it had since it was  *)
(* last queued.                                                            *)
THEOREM DeadLettersEarned == Timely => (Spec => []DeadLetterEarned)
<1>1. TimelyInv => DeadLetterEarned
  BY DEF TimelyInv
<1> QED
  BY <1>1, TimelyInvHolds, PTL

(* ... and the attempt_count of a waiting work never goes back.            *)
THEOREM AttemptsOnlyGrow == Timely => (Spec => AttemptsNeverDrop)
<1> SUFFICES ASSUME Timely PROVE Spec => AttemptsNeverDrop
  OBVIOUS
<1>1. ASSUME TypeOK, SafeInv, TimelyInv, [Next]_vars
      PROVE  [\A k \in inbox \cap inbox' : attempts'[k] >= attempts[k]]_vars
  <2> USE DEF TypeOK
  <2> SUFFICES ASSUME Next, NEW k \in inbox, k \in inbox'
               PROVE  attempts'[k] >= attempts[k]
    BY <1>1
  <2>0. attempts[k] \in Nat
    BY <1>1 DEF Attempts
  <2>1. CASE attempts' = attempts
    BY <2>0, <2>1
  <2>2. ASSUME NEW j \in Works, Enqueue(j) \/ RequeueDeadLetter(j)
        PROVE  attempts'[k] >= attempts[k]
    <3>1. j \notin inbox
      BY <1>1, <2>2 DEF Enqueue, RequeueDeadLetter, SafeInv, OneTable
    <3> QED
      BY <1>1, <2>0, <2>2, <3>1 DEF Enqueue, RequeueDeadLetter, InsertRow
  <2>3. ASSUME NEW w \in Workers, MarkDelivered(w) \/ MarkDeadLetter(w)
        PROVE  attempts'[k] >= attempts[k]
    BY <1>1, <2>0, <2>3 DEF MarkDelivered, MarkDeadLetter, DeleteRow
  <2>4. ASSUME NEW w \in Workers, MarkRetry(w)
        PROVE  attempts'[k] >= attempts[k]
    <3>1. \A r \in cur[w] : r.work \in inbox /\ r.attempts = attempts[r.work]
      BY <1>1 DEF TimelyInv, HandsLeased, Holding
    <3> QED
      BY <1>1, <2>0, <2>4, <3>1 DEF MarkRetry
  <2> QED
    BY <2>1, <2>2, <2>3, <2>4
       DEF Next, Progress, Fault, Settle, Start, Lease, TakeBatch, NextWork, EndBatch,
           HandlerOk, HandlerErr, Stopped, MarkFails, Shutdown, Crash, Tick,
           tables
<1> QED
  BY <1>1, TypeCorrect, SafeInvHolds, TimelyInvHolds, PTL
     DEF Spec, AttemptsNeverDrop

-----------------------------------------------------------------------------
(* The inbox implements WorkQueue. *)

LEMMA RefinesInit == Init => Queue!Init
  BY DEF Init, Queue!Init, Status

LEMMA RefinesStep ==
    ASSUME TypeOK, SafeInv, TimelyInv, [Next]_vars
    PROVE  [Queue!Next]_([k \in Works |-> Status(k)])
<1> DEFINE st == [k \in Works |-> Status(k)]
<1> USE DEF Status, Queue!Next, Queue!Submit, Queue!Deliver, Queue!GiveUp,
            Queue!Requeue, Queue!Move
<1>0. ASSUME inbox' = inbox, dead' = dead, submitted' = submitted
      PROVE  st' = st
  BY <1>0
<1>1. ASSUME NEW k \in Works, Enqueue(k) PROVE Queue!Submit(k)
  BY <1>1 DEF Enqueue, InsertRow, SafeInv
<1>2. ASSUME NEW k \in Works, RequeueDeadLetter(k) PROVE Queue!Requeue(k)
  BY <1>2 DEF RequeueDeadLetter, InsertRow, SafeInv, OneTable
<1>3. ASSUME NEW w \in Workers, NEW r \in cur[w]
      PROVE  r.work \in Works /\ r.work \in inbox /\ r.work \in submitted
             /\ r.work \notin dead
  BY DEF TimelyInv, HandsLeased, Holding, SafeInv, OneTable, TypeOK, LeasedWork
<1>4. ASSUME NEW w \in Workers, MarkDelivered(w)
      PROVE  \E k \in Works : Queue!Deliver(k)
  <2>1. PICK r \in cur[w] : DeleteRow(r.work)
    BY <1>4 DEF MarkDelivered
  <2>2. Queue!Deliver(r.work)
    BY <1>3, <1>4, <2>1 DEF MarkDelivered, DeleteRow, history
  <2> QED
    BY <1>3, <2>2
<1>5. ASSUME NEW w \in Workers, MarkDeadLetter(w)
      PROVE  \E k \in Works : Queue!GiveUp(k)
  <2>1. PICK r \in cur[w] : dead' = dead \cup {r.work} /\ DeleteRow(r.work)
    BY <1>5 DEF MarkDeadLetter
  <2>2. Queue!GiveUp(r.work)
    BY <1>3, <1>5, <2>1 DEF MarkDeadLetter, DeleteRow, history
  <2> QED
    BY <1>3, <2>2
<1>6. ASSUME NEW w \in Workers, MarkRetry(w) PROVE st' = st
  BY <1>0, <1>6 DEF MarkRetry, history
<1>7. ASSUME NEW w \in Workers,
             \/ Start(w) \/ Lease(w) \/ NextWork(w) \/ EndBatch(w)
             \/ HandlerOk(w) \/ HandlerErr(w) \/ Stopped(w)
      PROVE  st' = st
  BY <1>0, <1>7 DEF Start, Lease, TakeBatch, NextWork, EndBatch, HandlerOk, HandlerErr,
                    Stopped, tables, history
<1>8. ASSUME NEW w \in Workers, MarkFails(w) \/ Shutdown(w) \/ Crash(w)
      PROVE  st' = st
  BY <1>0, <1>8 DEF MarkFails, Shutdown, Crash, tables, history
<1>9. ASSUME Tick \/ UNCHANGED vars PROVE st' = st
  BY <1>0, <1>9 DEF Tick, vars, tables, history
<1> QED
  BY <1>1, <1>2, <1>4, <1>5, <1>6, <1>7, <1>8, <1>9
     DEF Next, Progress, Fault, Settle

(* With batches that end within their leases, the inbox and its workers    *)
(* are a WorkQueue for every set of works and workers: a delivered work is *)
(* finished and only an administrator revives a dead letter.               *)
THEOREM InboxIsWorkQueue == Timely => (Spec => ImplementsWorkQueue)
<1> SUFFICES ASSUME Timely PROVE Spec => ImplementsWorkQueue
  OBVIOUS
<1>1. TypeOK /\ SafeInv /\ TimelyInv /\ [Next]_vars
          => [Queue!Next]_([k \in Works |-> Status(k)])
  BY RefinesStep
<1> QED
  BY <1>1, RefinesInit, TypeCorrect, SafeInvHolds, TimelyInvHolds, PTL
     DEF Spec, ImplementsWorkQueue, Queue!Spec
=============================================================================
