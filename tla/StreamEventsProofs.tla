------------------------ MODULE StreamEventsProofs ------------------------
(***************************************************************************)
(* Theorems about StreamEvents for any inbox rows, of any types and        *)
(* messages, any number of handlers, attempts, faults and polls.           *)
(***************************************************************************)
EXTENDS StreamEvents, FiniteSetTheorems, TLAPS

(* What is needed of the lists of steps: they are sequences, and no effect *)
(* is twice in one of them.                                                *)
IsOnce(w, i) == i \in DOMAIN StepsOf(w) /\ StepsOf(w)[i].kind = "once"

LEMMA StepsFacts ==
    ASSUME NEW type \in Types
    PROVE  /\ Len(Steps(type)) \in Nat
           /\ DOMAIN Steps(type) = 1 .. Len(Steps(type))
           /\ \A i, j \in DOMAIN Steps(type) :
                 /\ Steps(type)[i].kind = "once" /\ Steps(type)[j].kind = "once"
                 /\ Steps(type)[i].name = Steps(type)[j].name
                 => i = j
<1>1. CASE type = "stream.online"
  BY <1>1 DEF Steps, Hook, Once
<1>2. CASE type = "stream.offline"
  BY <1>2 DEF Steps, Hook, Once
<1>3. CASE type = "channel.update"
  BY <1>3 DEF Steps, Hook, Once
<1>4. CASE type = "channel.raid"
  BY <1>4 DEF Steps, Hook, Once
<1>5. CASE type = "stream.online.followups"
  BY <1>5 DEF Steps, Hook, Once
<1> QED
  BY <1>1, <1>2, <1>3, <1>4, <1>5 DEF Types

LEMMA StepsOfFacts ==
    ASSUME NEW w \in Works
    PROVE  /\ Len(StepsOf(w)) \in Nat
           /\ DOMAIN StepsOf(w) = 1 .. Len(StepsOf(w))
           /\ \A i, j : IsOnce(w, i) /\ IsOnce(w, j)
                          /\ StepsOf(w)[i].name = StepsOf(w)[j].name => i = j
           /\ \A i : IsOnce(w, i) => /\ Key(w, StepsOf(w)[i]) \in KeysOf(w)
                                     /\ Key(w, StepsOf(w)[i]) \in Keys
           /\ \A k \in KeysOf(w) : \E i : IsOnce(w, i) /\ k = Key(w, StepsOf(w)[i])
<1>1. WorkType[w] \in Types
  BY EventsAssumption
<1>2. /\ Len(StepsOf(w)) \in Nat
      /\ DOMAIN StepsOf(w) = 1 .. Len(StepsOf(w))
      /\ \A i, j : IsOnce(w, i) /\ IsOnce(w, j)
                     /\ StepsOf(w)[i].name = StepsOf(w)[j].name => i = j
  BY <1>1, StepsFacts DEF StepsOf, IsOnce
<1>3. \A i : IsOnce(w, i) => Key(w, StepsOf(w)[i]) \in KeysOf(w)
  BY DEF IsOnce, KeysOf
<1>4. KeysOf(w) \subseteq Keys
  BY DEF Keys
<1>5. \A k \in KeysOf(w) : \E i : IsOnce(w, i) /\ k = Key(w, StepsOf(w)[i])
  BY DEF IsOnce, KeysOf
<1> QED
  BY <1>2, <1>3, <1>4, <1>5

-----------------------------------------------------------------------------
(* The state of the works.  A handler runs for a waiting row with attempts *)
(* left; an effect under way has its guard, and no other has it, too.      *)
BodyKey(w) == Key(w, Step(w))

WorksInv ==
    /\ \A w \in Works : at[w] > 0 => row[w] = "waiting"
    /\ \A w \in Works : row[w] \in {"absent", "waiting"} =>
                           attempts[w] < INBOX_MAX_ATTEMPTS
    /\ \A w \in Works : body[w] => IsOnce(w, at[w]) /\ BodyKey(w) \in guards
    /\ \A v, w \in Works : body[v] /\ body[w] /\ BodyKey(v) = BodyKey(w) => v = w

(* The steps of a work by what they do to it, its guards and the history.  *)
Others(w) ==
    /\ \A v \in Works \ {w} : /\ row'[v] = row[v] /\ attempts'[v] = attempts[v]
                              /\ at'[v] = at[v] /\ body'[v] = body[v]
    /\ lapses' = lapses

Stays(w) == row'[w] = row[w] /\ attempts'[w] = attempts[w]

Arrives(w) ==
    /\ row[w] = "absent" /\ row'[w] = "waiting"
    /\ at'[w] = at[w] /\ attempts'[w] = attempts[w] /\ body'[w] = body[w]
    /\ UNCHANGED <<guards, done, lost, throttled>>

Requeues(w) ==
    /\ row[w] = "dead" /\ row'[w] = "waiting" /\ attempts'[w] = 0
    /\ at'[w] = at[w] /\ body'[w] = body[w]
    /\ UNCHANGED <<guards, done, lost, throttled>>

Starts(w) ==
    /\ row[w] = "waiting" /\ at[w] = 0 /\ at'[w] = 1 /\ Stays(w) /\ body'[w] = body[w]
    /\ UNCHANGED <<guards, done, lost, throttled>>

Advances(w) ==
    /\ at[w] > 0 /\ AtStep(w) /\ at'[w] = at[w] + 1 /\ Stays(w)
    /\ ~body[w] /\ ~body'[w]
    /\ IsOnce(w, at[w]) => BodyKey(w) \in guards \/ Step(w).name \in Optional
    /\ UNCHANGED <<guards, done, lost, throttled>>

Claims(w) ==
    /\ at[w] > 0 /\ IsOnce(w, at[w]) /\ at'[w] = at[w] /\ Stays(w)
    /\ ~body[w] /\ body'[w]
    /\ BodyKey(w) \notin guards /\ guards' = guards \cup {BodyKey(w)}
    /\ UNCHANGED <<done, lost, throttled>>

Effects(w) ==
    /\ body[w] /\ ~body'[w] /\ at'[w] = at[w] + 1 /\ Stays(w)
    /\ done' = [done EXCEPT ![BodyKey(w)] = @ + 1]
    /\ UNCHANGED <<guards, lost, throttled>>

Fails(w) ==
    /\ at[w] > 0 /\ at'[w] = 0 /\ ~body'[w]
    /\ attempts'[w] = attempts[w] + 1
    /\ row'[w] = IF attempts[w] + 1 >= INBOX_MAX_ATTEMPTS THEN "dead" ELSE "waiting"
    /\ \/ ~body[w] /\ UNCHANGED <<guards, lost>>
       \/ body[w] /\ guards' = guards \ {BodyKey(w)} /\ UNCHANGED lost
       \/ body[w] /\ lost' = lost \cup {BodyKey(w)} /\ UNCHANGED guards
    /\ UNCHANGED <<done, throttled>>

Leaves(w) ==
    /\ at[w] > 0 /\ at'[w] = 0 /\ ~body[w] /\ ~body'[w]
    /\ attempts'[w] = attempts[w]
    /\ \/ /\ at[w] = Len(StepsOf(w)) + 1 /\ row'[w] \in {"delivered", row[w]}
          /\ UNCHANGED throttled
       \/ row'[w] = "delivered" /\ throttled' = throttled \cup {w}
    /\ UNCHANGED <<guards, done, lost>>

Moves(w) ==
    \/ Arrives(w) \/ Requeues(w) \/ Starts(w) \/ Advances(w) \/ Claims(w)
    \/ Effects(w) \/ Fails(w) \/ Leaves(w)

WorkStep(w) == \/ Arrive(w) \/ Requeue(w) \/ Handle(w)
               \/ CompleteUnmarked(w) \/ EffectErrUnreleased(w)

Typed ==
    /\ row \in [Works -> {"absent", "waiting", "delivered", "dead"}]
    /\ attempts \in [Works -> Nat]
    /\ at \in [Works -> Nat]
    /\ body \in [Works -> BOOLEAN]
    /\ done \in [Keys -> Nat] /\ lapses \in [Keys -> Nat]

LEMMA MovesFacts ==
    ASSUME TypeOK, WorksInv, NEW w \in Works, WorkStep(w)
    PROVE  Others(w) /\ Moves(w) /\ Typed'
<1>t. /\ row \in [Works -> {"absent", "waiting", "delivered", "dead"}]
      /\ attempts \in [Works -> Nat]
      /\ at \in [Works -> Nat]
      /\ body \in [Works -> BOOLEAN]
      /\ done \in [Keys -> Nat] /\ lapses \in [Keys -> Nat]
      /\ 1 \in Nat /\ at[w] + 1 \in Nat /\ attempts[w] + 1 \in Nat
  BY EventsAssumption DEF TypeOK
<1>s. /\ Len(StepsOf(w)) \in Nat /\ DOMAIN StepsOf(w) = 1 .. Len(StepsOf(w))
      /\ \A i : IsOnce(w, i) => Key(w, StepsOf(w)[i]) \in Keys
  BY StepsOfFacts
<1>b. body[w] => AtStep(w) /\ at[w] > 0 /\ Step(w).kind = "once" /\ BodyKey(w) \in Keys
  BY <1>s DEF WorksInv, IsOnce, AtStep, Step, BodyKey
<1>a. AtStep(w) => at[w] > 0
  BY <1>s, <1>t DEF AtStep
<1>n. body[w] => at[w] # Len(StepsOf(w)) + 1
  BY <1>b, <1>s, <1>t DEF AtStep
<1>o. AtStep(w) /\ Step(w).kind = "once" <=> IsOnce(w, at[w])
  BY DEF AtStep, Step, IsOnce
(* A step of the handler that is not an effect. *)
<1>p. ASSUME StepDone(w), UNCHANGED body, AtStep(w), ~body[w],
             UNCHANGED <<guards, done, lapses, lost, throttled>>,
             IsOnce(w, at[w]) => BodyKey(w) \in guards \/ Step(w).name \in Optional
      PROVE  Others(w) /\ Moves(w) /\ Typed'
  <2>1. Advances(w) /\ Others(w)
    BY <1>t, <1>a, <1>p DEF StepDone, Advances, Others, Stays
  <2>2. Typed'
    BY <1>t, <1>p DEF StepDone, Typed
  <2> QED
    BY <2>1, <2>2 DEF Moves
<1>f. ASSUME Fail(w)
      PROVE  /\ at'[w] = 0 /\ attempts'[w] = attempts[w] + 1
             /\ row'[w] = IF attempts[w] + 1 >= INBOX_MAX_ATTEMPTS THEN "dead"
                          ELSE "waiting"
             /\ \A v \in Works \ {w} : /\ row'[v] = row[v] /\ attempts'[v] = attempts[v]
                                       /\ at'[v] = at[v]
             /\ row' \in [Works -> {"absent", "waiting", "delivered", "dead"}]
             /\ attempts' \in [Works -> Nat] /\ at' \in [Works -> Nat]
  BY <1>t, <1>f DEF Fail
<1>1. CASE Arrive(w)
  BY <1>t, <1>1 DEF Arrive, dbVars, history, Others, Moves, Arrives, Typed
<1>16. CASE Requeue(w)
  BY <1>t, <1>16 DEF Requeue, dbVars, history, Others, Moves, Requeues, Typed
<1>2. CASE Begin(w)
  BY <1>t, <1>2 DEF Begin, dbVars, history, Others, Moves, Starts, Stays, Typed
<1>3. CASE Complete(w)
  <2>1. /\ at[w] = Len(StepsOf(w)) + 1 /\ Deliver(w) /\ body' = body
        /\ UNCHANGED <<guards, done, lapses, lost, throttled>>
    BY <1>3 DEF Complete, dbVars, history
  <2>2. Leaves(w) /\ Others(w) /\ Typed'
    BY <1>t, <1>s, <1>n, <2>1 DEF Deliver, Leaves, Others, Typed
  <2> QED
    BY <2>2 DEF Moves
<1>4. CASE CompleteUnmarked(w)
  <2>1. /\ at[w] = Len(StepsOf(w)) + 1 /\ at' = [at EXCEPT ![w] = 0]
        /\ UNCHANGED <<row, attempts, body, guards, done, lapses, lost, throttled>>
    BY <1>4 DEF CompleteUnmarked, dbVars, history
  <2>2. Leaves(w) /\ Others(w) /\ Typed'
    BY <1>t, <1>s, <1>n, <2>1 DEF Leaves, Others, Typed
  <2> QED
    BY <2>2 DEF Moves
<1>5. CASE RunHook(w)
  <2>1. /\ AtStep(w) /\ Step(w).kind = "hook" /\ StepDone(w)
        /\ UNCHANGED <<body, guards, done, lapses, lost, throttled>>
    BY <1>5 DEF RunHook, dbVars, history
  <2>2. ~IsOnce(w, at[w]) /\ ~body[w]
    BY <1>b, <1>o, <2>1
  <2> QED
    BY <1>p, <2>1, <2>2
<1>6. CASE ApplyOnline(w)
  <2>1. /\ AtStep(w) /\ Step(w).kind = "apply_online" /\ StepDone(w)
        /\ UNCHANGED <<body, guards, done, lapses, lost, throttled>>
    BY <1>6 DEF ApplyOnline, history
  <2>2. ~IsOnce(w, at[w]) /\ ~body[w]
    BY <1>b, <1>o, <2>1
  <2> QED
    BY <1>p, <2>1, <2>2
<1>7. CASE ReleaseThrottle(w)
  <2>1. /\ AtStep(w) /\ Step(w).kind = "release_throttle" /\ StepDone(w)
        /\ UNCHANGED <<body, guards, done, lapses, lost, throttled>>
    BY <1>7 DEF ReleaseThrottle
  <2>2. ~IsOnce(w, at[w]) /\ ~body[w]
    BY <1>b, <1>o, <2>1
  <2> QED
    BY <1>p, <2>1, <2>2
<1>8. CASE PassThrottle(w)
  <2>1. /\ AtStep(w) /\ Step(w).kind = "claim_throttle" /\ StepDone(w)
        /\ UNCHANGED <<body, guards, done, lapses, lost, throttled>>
    BY <1>8 DEF PassThrottle
  <2>2. ~IsOnce(w, at[w]) /\ ~body[w]
    BY <1>b, <1>o, <2>1
  <2> QED
    BY <1>p, <2>1, <2>2
<1>9. CASE Throttled(w)
  <2>1. /\ AtStep(w) /\ Step(w).kind = "claim_throttle" /\ Deliver(w)
        /\ throttled' = throttled \cup {w}
        /\ UNCHANGED <<body, guards, done, lapses, lost>>
    BY <1>9 DEF Throttled, dbVars
  <2>2. ~body[w]
    BY <1>b, <2>1
  <2>3. Leaves(w) /\ Others(w) /\ Typed'
    BY <1>t, <1>a, <2>1, <2>2 DEF Deliver, Leaves, Others, Typed
  <2> QED
    BY <2>3 DEF Moves
<1>10. CASE StepFails(w)
  <2>1. /\ AtStep(w) /\ ~body[w] /\ Fail(w)
        /\ UNCHANGED <<body, guards, done, lapses, lost, throttled>>
    BY <1>10 DEF StepFails, dbVars, history
  <2>2. Fails(w) /\ Others(w) /\ Typed'
    BY <1>t, <1>a, <1>f, <2>1 DEF Fails, Others, Typed
  <2> QED
    BY <2>2 DEF Moves
<1>11. CASE ClaimEffect(w)
  <2>1. /\ AtStep(w) /\ ~body[w] /\ Step(w).kind = "once"
        /\ BodyKey(w) \notin guards /\ guards' = guards \cup {BodyKey(w)}
        /\ body' = [body EXCEPT ![w] = TRUE]
        /\ UNCHANGED <<row, attempts, at, done, lapses, lost, throttled>>
    BY <1>11 DEF ClaimEffect, history, BodyKey
  <2>2. Claims(w) /\ Others(w) /\ Typed'
    BY <1>t, <1>a, <1>o, <2>1 DEF Claims, Stays, Others, Typed
  <2> QED
    BY <2>2 DEF Moves
<1>12. CASE SkipEffect(w)
  <2>1. /\ AtStep(w) /\ ~body[w] /\ StepDone(w)
        /\ BodyKey(w) \in guards \/ Step(w).name \in Optional
        /\ UNCHANGED <<body, guards, done, lapses, lost, throttled>>
    BY <1>12 DEF SkipEffect, dbVars, history, BodyKey
  <2> QED
    BY <1>p, <2>1
<1>13. CASE EffectOk(w)
  <2>1. /\ body[w] /\ body' = [body EXCEPT ![w] = FALSE] /\ StepDone(w)
        /\ done' = [done EXCEPT ![BodyKey(w)] = @ + 1]
        /\ UNCHANGED <<guards, lapses, lost, throttled>>
    BY <1>13 DEF EffectOk, BodyKey
  <2>2. Effects(w) /\ Others(w)
    BY <1>t, <2>1 DEF StepDone, Effects, Stays, Others
  <2>3. Typed'
    BY <1>t, <1>b, <2>1 DEF StepDone, Typed
  <2> QED
    BY <2>2, <2>3 DEF Moves
<1>14. CASE EffectErr(w)
  <2>1. /\ body[w] /\ guards' = guards \ {BodyKey(w)}
        /\ body' = [body EXCEPT ![w] = FALSE] /\ Fail(w)
        /\ UNCHANGED <<done, lapses, lost, throttled>>
    BY <1>14 DEF EffectErr, history, BodyKey
  <2>2. Fails(w) /\ Others(w) /\ Typed'
    BY <1>t, <1>b, <1>f, <2>1 DEF Fails, Others, Typed
  <2> QED
    BY <2>2 DEF Moves
<1>15. CASE EffectErrUnreleased(w)
  <2>1. /\ body[w] /\ lost' = lost \cup {BodyKey(w)}
        /\ body' = [body EXCEPT ![w] = FALSE] /\ Fail(w)
        /\ UNCHANGED <<guards, done, lapses, throttled>>
    BY <1>15 DEF EffectErrUnreleased, dbVars, BodyKey
  <2>2. Fails(w) /\ Others(w) /\ Typed'
    BY <1>t, <1>b, <1>f, <2>1 DEF Fails, Others, Typed
  <2> QED
    BY <2>2 DEF Moves
<1> QED
  BY <1>1, <1>2, <1>3, <1>4, <1>5, <1>6, <1>7, <1>8, <1>9, <1>10, <1>11, <1>12, <1>13,
     <1>14, <1>15, <1>16 DEF WorkStep, Handle

(* The poller, the world and the clock leave the works alone.              *)
Elsewhere == Poll \/ PollFails \/ StreamChanges \/ Tick

LEMMA ElsewhereFacts ==
    ASSUME Elsewhere \/ UNCHANGED vars
    PROVE  UNCHANGED <<row, attempts, at, body, guards, done, lapses, lost, throttled>>
  BY DEF Elsewhere, Poll, PollAsk, PollRead, PollRaid, PollGoesLive, PollNoRaid, PollPersist,
         PollFails, StreamChanges, Tick, vars, rowVars, dbVars, history


(* A guard that lapses is nobody's.                                        *)
LEMMA LapseFacts ==
    ASSUME TypeOK, NEW k \in Keys, Lapse(k)
    PROVE  /\ UNCHANGED <<row, attempts, at, body, done, lost, throttled>>
           /\ k \in guards /\ guards' = guards \ {k}
           /\ \A w \in Works : body[w] => BodyKey(w) # k
           /\ lapses' = [lapses EXCEPT ![k] = @ + 1] /\ lapses' \in [Keys -> Nat]
           /\ \A w \in Works : BodyKey(w)' = BodyKey(w)
<1>1. UNCHANGED <<row, attempts, at, body, done, lost, throttled>>
  BY DEF Lapse, rowVars
<1>2. \A w \in Works : BodyKey(w)' = BodyKey(w)
  BY <1>1 DEF BodyKey, Step
<1>3. lapses' = [lapses EXCEPT ![k] = @ + 1] /\ lapses' \in [Keys -> Nat]
  BY DEF Lapse, TypeOK
<1> QED
  BY <1>1, <1>2, <1>3 DEF Lapse, UnderWay, BodyKey

LEMMA WorksMove ==
    ASSUME TypeOK, WorksInv, NEW w \in Works, Others(w), Moves(w), Typed'
    PROVE  WorksInv'
<1> USE DEF Typed
<1>t. /\ row \in [Works -> {"absent", "waiting", "delivered", "dead"}]
      /\ attempts \in [Works -> Nat] /\ at \in [Works -> Nat]
      /\ body \in [Works -> BOOLEAN] /\ INBOX_MAX_ATTEMPTS \in Nat
  BY EventsAssumption DEF TypeOK
<1>k. \A v \in Works : at'[v] = at[v] => BodyKey(v)' = BodyKey(v)
  BY DEF BodyKey, Step
<1>o. \A v \in Works \ {w} : /\ row'[v] = row[v] /\ attempts'[v] = attempts[v]
                             /\ at'[v] = at[v] /\ body'[v] = body[v]
                             /\ BodyKey(v)' = BodyKey(v)
  BY <1>k DEF Others
<1>b. body[w] => at[w] > 0
  BY StepsOfFacts, <1>t DEF WorksInv, IsOnce
<1>1. \A v \in Works : at'[v] > 0 => row'[v] = "waiting"
  <2>1. at'[w] > 0 => row'[w] = "waiting"
    BY <1>b, <1>t DEF WorksInv, Moves, Arrives, Requeues, Starts, Advances, Claims, Effects, Fails,
                Leaves, Stays
  <2> QED
    BY <2>1, <1>o DEF WorksInv
<1>2. \A v \in Works : row'[v] \in {"absent", "waiting"} => attempts'[v] < INBOX_MAX_ATTEMPTS
  <2>1. row'[w] \in {"absent", "waiting"} => attempts'[w] < INBOX_MAX_ATTEMPTS
    <3>1. CASE Fails(w)
      BY <1>t, <3>1 DEF Fails
    <3>2. CASE Leaves(w)
      BY <1>t, <3>2 DEF Leaves, WorksInv
    <3>3. CASE Requeues(w)
      BY <3>3, EventsAssumption DEF Requeues
    <3> QED
      BY <1>t, <3>1, <3>2, <3>3 DEF WorksInv, Moves, Arrives, Starts, Advances, Claims,
                                    Effects, Stays
  <2> QED
    BY <2>1, <1>o DEF WorksInv
(* The effects under way are those of before, or w's, which takes a free   *)
(* guard.                                                                  *)
<1>3. body'[w] => \/ body[w] /\ at'[w] = at[w] /\ guards' = guards
                  \/ /\ IsOnce(w, at[w]) /\ at'[w] = at[w]
                     /\ BodyKey(w) \notin guards /\ guards' = guards \cup {BodyKey(w)}
  <2>1. CASE Arrives(w) \/ Requeues(w)
    BY <2>1 DEF Arrives, Requeues
  <2>2. CASE Starts(w)
    BY <1>b, <2>2 DEF Starts
  <2>3. CASE Claims(w)
    BY <2>3 DEF Claims
  <2>4. CASE Advances(w) \/ Effects(w) \/ Fails(w) \/ Leaves(w)
    BY <2>4 DEF Advances, Effects, Fails, Leaves
  <2> QED
    BY <2>1, <2>2, <2>3, <2>4 DEF Moves
<1>4. guards \subseteq guards' \/ (body[w] /\ guards' = guards \ {BodyKey(w)})
  BY DEF Moves, Arrives, Requeues, Starts, Advances, Claims, Effects, Fails, Leaves
<1>5. \A v \in Works : body'[v] => IsOnce(v, at'[v]) /\ BodyKey(v)' \in guards'
  <2>1. body'[w] => IsOnce(w, at'[w]) /\ BodyKey(w)' \in guards'
    BY <1>3, <1>k DEF WorksInv
  <2>2. ASSUME NEW v \in Works \ {w}, body'[v]
        PROVE  IsOnce(v, at'[v]) /\ BodyKey(v)' \in guards'
    BY <1>4, <1>o, <2>2 DEF WorksInv
  <2> QED
    BY <2>1, <2>2
<1>6. \A u, v \in Works : body'[u] /\ body'[v] /\ BodyKey(u)' = BodyKey(v)' => u = v
  <2>1. ASSUME NEW v \in Works \ {w}, body'[v], body'[w]
        PROVE  BodyKey(v)' # BodyKey(w)'
    BY <1>3, <1>k, <1>o, <2>1 DEF WorksInv
  <2> QED
    BY <2>1, <1>o DEF WorksInv
<1> QED
  BY <1>1, <1>2, <1>5, <1>6 DEF WorksInv


LEMMA WorksCrash ==
    ASSUME TypeOK, WorksInv, Crash
    PROVE  WorksInv' /\ Typed'
<1>1. /\ row' = row /\ attempts' = attempts
      /\ at' = [w \in Works |-> 0] /\ body' = [w \in Works |-> FALSE]
      /\ done' = done /\ lapses' = lapses
  BY DEF Crash
<1>2. Typed'
  <2>1. \A w \in Works : attempts[w] \in Nat
    BY EventsAssumption DEF TypeOK
  <2>2. attempts \in [Works -> Nat]
    BY <2>1 DEF TypeOK
  <2> QED
    BY <1>1, <2>2 DEF TypeOK, Typed
<1>3. \A w \in Works : at'[w] = 0 /\ ~body'[w]
  BY <1>1
<1>4. WorksInv'
  BY <1>1, <1>3 DEF WorksInv
<1> QED
  BY <1>2, <1>4

LEMMA WorksStep ==
    ASSUME TypeOK, WorksInv, [Next]_vars
    PROVE  WorksInv'
<1>1. ASSUME NEW w \in Works, WorkStep(w)
      PROVE  WorksInv'
  BY <1>1, MovesFacts, WorksMove
<1>2. CASE Crash
  BY <1>2, WorksCrash
<1>3. CASE Elsewhere \/ UNCHANGED vars
  <2>1. UNCHANGED <<row, attempts, at, body, guards>>
    BY <1>3, ElsewhereFacts
  <2>2. \A w \in Works : BodyKey(w)' = BodyKey(w)
    BY <2>1 DEF BodyKey, Step
  <2> QED
    BY <2>1, <2>2 DEF WorksInv
<1>4. ASSUME NEW k \in Keys, Lapse(k)
      PROVE  WorksInv'
  BY <1>4, LapseFacts DEF WorksInv
<1> QED
  BY <1>1, <1>2, <1>3, <1>4 DEF Next, WorkStep, Elsewhere

(* The variables of the poller, the throttle and the bounds.               *)
World ==
    /\ throttle \in 0 .. OFFLINE_THROTTLE_TTL_SECONDS
    /\ live \in BOOLEAN /\ real \in BOOLEAN
    /\ poll \in [was : BOOLEAN, is : BOOLEAN, stage : {"idle", "asked", "read", "persist"}]
    /\ faults \in Nat /\ requeues \in Nat /\ polls \in Nat
    /\ raids \in Nat /\ reopened \in Nat
    /\ passed \cup throttled \cup holders \subseteq Works

LEMMA WorldStep ==
    ASSUME World, [Next]_vars
    PROVE  World'
<1> USE EventsAssumption
<1>n. NoPoll \in [was : BOOLEAN, is : BOOLEAN, stage : {"idle", "asked", "read", "persist"}]
  BY DEF NoPoll
<1>1. ASSUME NEW w \in Works, Arrive(w) \/ Begin(w) \/ Complete(w) \/ RunHook(w)
                  \/ StepFails(w) \/ SkipEffect(w)
      PROVE  World'
  BY <1>1 DEF World, Arrive, Begin, Complete, RunHook, StepFails, SkipEffect, dbVars, bounds, history, window
<1>r. ASSUME World, Release
      PROVE  /\ throttle' \in 0 .. OFFLINE_THROTTLE_TTL_SECONDS
             /\ raids' \in Nat /\ reopened' \in Nat /\ holders' \subseteq Works
  BY <1>r DEF World, Release, CloseWindow
<1>2. ASSUME NEW w \in Works, ApplyOnline(w) \/ ReleaseThrottle(w) \/ PassThrottle(w)
                  \/ Throttled(w) \/ ClaimEffect(w) \/ EffectErr(w)
      PROVE  World'
  <2>1. CASE ApplyOnline(w)
    BY <2>1 DEF World, ApplyOnline, bounds, history, window
  <2>2. CASE ReleaseThrottle(w)
    BY <1>r, <2>2 DEF World, ReleaseThrottle, bounds
  <2>3. CASE PassThrottle(w)
    BY <2>3 DEF World, PassThrottle, ClaimThrottle, bounds
  <2>4. CASE Throttled(w)
    BY <2>4 DEF World, Throttled, dbVars, bounds, window
  <2>5. CASE ClaimEffect(w)
    BY <2>5 DEF World, ClaimEffect, bounds, history, window
  <2>6. CASE EffectErr(w)
    BY <2>6 DEF World, EffectErr, bounds, history, window
  <2> QED
    BY <1>2, <2>1, <2>2, <2>3, <2>4, <2>5, <2>6
<1>3. ASSUME NEW w \in Works, EffectOk(w)
      PROVE  World'
  <2>1. UNCHANGED <<throttle, real, poll, faults, requeues, polls, passed, throttled, reopened>>
    BY <1>3 DEF EffectOk, bounds
  <2>2. live' \in BOOLEAN
    BY <1>3 DEF EffectOk, World
  <2>3. raids' \in Nat /\ holders' \subseteq Works
    BY <1>3 DEF EffectOk, TriggerRaid, World
  <2> QED
    BY <2>1, <2>2, <2>3 DEF World
<1>4. ASSUME NEW w \in Works, CompleteUnmarked(w) \/ EffectErrUnreleased(w) \/ Requeue(w)
      PROVE  World'
  BY <1>4 DEF World, CompleteUnmarked, EffectErrUnreleased, Requeue, dbVars, history, window
<1>13. ASSUME NEW k \in Keys, Lapse(k)
      PROVE  World'
  BY <1>13 DEF World, Lapse, window
<1>5. CASE PollAsk \/ PollRead \/ PollNoRaid
  <2>1. UNCHANGED <<throttle, live, real, faults, requeues, polls, passed, throttled, window>>
    BY <1>5 DEF PollAsk, PollRead, PollNoRaid, dbVars, bounds, history, window
  <2>2. poll' \in [was : BOOLEAN, is : BOOLEAN, stage : {"idle", "asked", "read", "persist"}]
    BY <1>5 DEF PollAsk, PollRead, PollNoRaid, World
  <2> QED
    BY <2>1, <2>2 DEF World, window
<1>14. CASE PollGoesLive
  BY <1>r, <1>14 DEF World, PollGoesLive, bounds
<1>6. CASE PollRaid
  <2>1. UNCHANGED <<live, real, faults, requeues, polls, passed, throttled, holders, reopened>>
    BY <1>6 DEF PollRaid, bounds
  <2>2. poll' \in [was : BOOLEAN, is : BOOLEAN, stage : {"idle", "asked", "read", "persist"}]
    BY <1>6 DEF PollRaid, World
  <2>3. throttle' \in 0 .. OFFLINE_THROTTLE_TTL_SECONDS /\ raids' \in Nat
    BY <1>6 DEF PollRaid, World
  <2> QED
    BY <2>1, <2>2, <2>3 DEF World
<1>7. CASE PollPersist
  BY <1>7, <1>n DEF World, PollPersist, bounds, history, window
<1>8. CASE PollFails
  BY <1>8, <1>n DEF World, PollFails, dbVars, history, window
<1>9. CASE StreamChanges
  BY <1>9 DEF World, StreamChanges, dbVars, history, window
<1>10. CASE Crash
  BY <1>10, <1>n DEF World, Crash, dbVars, window
<1>11. CASE Tick
  BY <1>11 DEF World, Tick, CloseWindow, bounds, window
<1>12. CASE UNCHANGED vars
  BY <1>12 DEF World, vars, dbVars, bounds, history, window
<1> QED
  BY <1>1, <1>2, <1>3, <1>4, <1>5, <1>6, <1>7, <1>8, <1>9, <1>10, <1>11, <1>12,
     <1>13, <1>14 DEF Next, Handle, Poll


LEMMA TypeStep ==
    ASSUME TypeOK, WorksInv, [Next]_vars
    PROVE  TypeOK'
<1>w. World'
  <2>1. World
    BY DEF TypeOK, World
  <2> QED
    BY <2>1, WorldStep
<1>t. /\ row \in [Works -> {"absent", "waiting", "delivered", "dead"}]
      /\ attempts \in [Works -> 0 .. INBOX_MAX_ATTEMPTS] /\ at \in [Works -> Nat]
      /\ \A w \in Works : at[w] <= Len(StepsOf(w)) + 1
      /\ body \in [Works -> BOOLEAN] /\ INBOX_MAX_ATTEMPTS \in Nat
      /\ guards \subseteq Keys /\ lost \subseteq Keys /\ done \in [Keys -> Nat]
  BY EventsAssumption DEF TypeOK
<1>b. \A w \in Works : body[w] => BodyKey(w) \in Keys
  BY StepsOfFacts DEF WorksInv, BodyKey, Step
<1>1. ASSUME NEW w \in Works, WorkStep(w)
      PROVE  TypeOK'
  <2>1. Others(w) /\ Moves(w) /\ Typed'
    BY <1>1, MovesFacts
  <2>2. /\ Len(StepsOf(w)) \in Nat /\ DOMAIN StepsOf(w) = 1 .. Len(StepsOf(w))
        /\ \A i : IsOnce(w, i) => i \in DOMAIN StepsOf(w) /\ Key(w, StepsOf(w)[i]) \in Keys
    BY StepsOfFacts DEF IsOnce
  <2>3. at'[w] <= Len(StepsOf(w)) + 1
    <3>1. body[w] => at[w] \in DOMAIN StepsOf(w)
      BY DEF WorksInv, IsOnce
    <3> QED
      BY <1>t, <2>1, <2>2, <3>1 DEF Moves, Arrives, Requeues, Starts, Advances, Claims, Effects, Fails,
                                    Leaves, AtStep
  <2>4. attempts'[w] \in 0 .. INBOX_MAX_ATTEMPTS
    <3>1. at[w] > 0 => attempts[w] < INBOX_MAX_ATTEMPTS
      BY DEF WorksInv
    <3>2. attempts[w] \in 0 .. INBOX_MAX_ATTEMPTS
      BY <1>t
    <3> QED
      BY <1>t, <2>1, <3>1, <3>2 DEF Moves, Arrives, Requeues, Starts, Advances, Claims, Effects, Fails,
                                    Leaves, Stays
  <2>5. guards' \subseteq Keys /\ lost' \subseteq Keys
    <3>1. IsOnce(w, at[w]) => BodyKey(w) \in Keys
      BY <2>2 DEF BodyKey, Step
    <3> QED
      BY <1>t, <1>b, <2>1, <3>1 DEF Moves, Arrives, Requeues, Starts, Advances, Claims, Effects, Fails,
                                    Leaves
  <2>6. \A v \in Works : at'[v] <= Len(StepsOf(v)) + 1
    BY <1>t, <2>1, <2>3 DEF Others
  <2>7. attempts' \in [Works -> 0 .. INBOX_MAX_ATTEMPTS]
    <3>1. \A v \in Works : attempts'[v] \in 0 .. INBOX_MAX_ATTEMPTS
      BY <1>t, <2>1, <2>4 DEF Others
    <3>2. attempts' \in [Works -> Nat]
      BY <2>1 DEF Typed
    <3> QED
      BY <3>1, <3>2
  <2> QED
    BY <1>w, <2>1, <2>5, <2>6, <2>7 DEF World, Typed, TypeOK
<1>2. CASE Crash
  <2>1. Typed'
    BY <1>2, WorksCrash
  <2>2. /\ attempts' = attempts /\ at' = [w \in Works |-> 0] /\ guards' = guards
        /\ lost' = lost \cup {BodyKey(w) : w \in {v \in Works : body[v]}}
    BY <1>2 DEF Crash, dbVars, BodyKey
  <2>3. \A w \in Works : at'[w] <= Len(StepsOf(w)) + 1
    BY <2>2, StepsOfFacts
  <2>4. lost' \subseteq Keys
    BY <1>t, <1>b, <2>2
  <2> QED
    BY <1>t, <1>w, <2>1, <2>2, <2>3, <2>4 DEF World, Typed, TypeOK
<1>3. CASE Elsewhere \/ UNCHANGED vars
  <2>1. UNCHANGED <<row, attempts, at, body, guards, done, lapses, lost, throttled>>
    BY <1>3, ElsewhereFacts
  <2> QED
    BY <1>t, <1>w, <2>1 DEF World, TypeOK
<1>4. ASSUME NEW k \in Keys, Lapse(k)
      PROVE  TypeOK'
  BY <1>t, <1>w, <1>4, LapseFacts DEF World, TypeOK
<1> QED
  BY <1>1, <1>2, <1>3, <1>4 DEF Next, WorkStep, Elsewhere

LEMMA InitFacts == Init => TypeOK /\ WorksInv
<1> SUFFICES ASSUME Init PROVE TypeOK /\ WorksInv
  OBVIOUS
<1>1. \A w \in Works : /\ row[w] = "absent" /\ attempts[w] = 0 /\ at[w] = 0 /\ ~body[w]
                       /\ 0 <= Len(StepsOf(w)) + 1
  BY StepsOfFacts DEF Init
<1>2. NoPoll \in [was : BOOLEAN, is : BOOLEAN, stage : {"idle", "asked", "read", "persist"}]
  BY DEF NoPoll
<1>3. WorksInv
  BY <1>1, EventsAssumption DEF WorksInv
<1>4. /\ row \in [Works -> {"absent", "waiting", "delivered", "dead"}]
      /\ attempts \in [Works -> 0 .. INBOX_MAX_ATTEMPTS]
      /\ at \in [Works -> Nat] /\ body \in [Works -> BOOLEAN]
      /\ done \in [Keys -> Nat] /\ lapses \in [Keys -> Nat]
  BY EventsAssumption DEF Init
<1>5. World /\ guards = {} /\ lost = {}
  BY <1>2, EventsAssumption DEF Init, World
<1> QED
  BY <1>1, <1>3, <1>4, <1>5 DEF TypeOK, World

(* Every variable keeps its type: a handler's position stays within its    *)
(* steps, and a row has at most INBOX_MAX_ATTEMPTS attempts.               *)
THEOREM TypeCorrect == Spec => []TypeOK
<1>1. Init => TypeOK /\ WorksInv
  BY InitFacts
<1>2. TypeOK /\ WorksInv /\ [Next]_vars => TypeOK' /\ WorksInv'
  BY TypeStep, WorksStep
<1> QED
  BY <1>1, <1>2, PTL DEF Spec


-----------------------------------------------------------------------------
(* A row moves only as the inbox's works do.                               *)
LEMMA QueueMove ==
    ASSUME TypeOK, WorksInv, NEW w \in Works, Others(w), Moves(w), Typed'
    PROVE  \/ row' = row
           \/ row[w] = "absent" /\ row' = [row EXCEPT ![w] = "waiting"]
           \/ row[w] = "waiting" /\ row' = [row EXCEPT ![w] = "delivered"]
           \/ row[w] = "waiting" /\ row' = [row EXCEPT ![w] = "dead"]
           \/ row[w] = "dead" /\ row' = [row EXCEPT ![w] = "waiting"]
<1>1. row' = [row EXCEPT ![w] = row'[w]]
  BY DEF TypeOK, Typed, Others
<1>2. /\ at[w] > 0 => row[w] = "waiting"
      /\ body[w] => at[w] > 0
  BY StepsOfFacts DEF TypeOK, WorksInv, IsOnce
<1>3. \/ row'[w] = row[w]
      \/ row[w] = "absent" /\ row'[w] = "waiting"
      \/ row[w] = "waiting" /\ row'[w] \in {"delivered", "dead"}
      \/ row[w] = "dead" /\ row'[w] = "waiting"
  <2>1. CASE Arrives(w) \/ Requeues(w)
    BY <2>1 DEF Arrives, Requeues
  <2>2. CASE Starts(w) \/ Advances(w) \/ Claims(w) \/ Effects(w)
    BY <2>2 DEF Starts, Advances, Claims, Effects, Stays
  <2>3. CASE Fails(w)
    BY <1>2, <2>3 DEF Fails
  <2>4. CASE Leaves(w)
    BY <1>2, <2>4 DEF Leaves
  <2> QED
    BY <2>1, <2>2, <2>3, <2>4 DEF Moves
<1>4. row'[w] = row[w] => row' = row
  BY <1>1 DEF TypeOK
<1> QED
  BY <1>1, <1>3, <1>4

LEMMA QueueStep ==
    ASSUME TypeOK, WorksInv, [Next]_vars
    PROVE  [Queue!Next]_RowStatus
<1>t. row \in [Works -> {"absent", "waiting", "delivered", "dead"}]
  BY DEF TypeOK
<1>1. ASSUME NEW w \in Works, WorkStep(w)
      PROVE  [Queue!Next]_RowStatus
  <2>1. \/ row' = row
        \/ row[w] = "absent" /\ row' = [row EXCEPT ![w] = "waiting"]
        \/ row[w] = "waiting" /\ row' = [row EXCEPT ![w] = "delivered"]
        \/ row[w] = "waiting" /\ row' = [row EXCEPT ![w] = "dead"]
        \/ row[w] = "dead" /\ row' = [row EXCEPT ![w] = "waiting"]
    BY <1>1, MovesFacts, QueueMove
  <2>2. CASE row' = row
    BY <2>2 DEF RowStatus
  <2>3. CASE row[w] = "absent" /\ row' = [row EXCEPT ![w] = "waiting"]
    BY <1>t, <2>3 DEF Queue!Next, Queue!Submit, Queue!Move, RowStatus
  <2>4. CASE row[w] = "waiting" /\ row' = [row EXCEPT ![w] = "delivered"]
    BY <1>t, <2>4 DEF Queue!Next, Queue!Deliver, Queue!Move, RowStatus
  <2>5. CASE row[w] = "waiting" /\ row' = [row EXCEPT ![w] = "dead"]
    BY <1>t, <2>5 DEF Queue!Next, Queue!GiveUp, Queue!Move, RowStatus
  <2>6. CASE row[w] = "dead" /\ row' = [row EXCEPT ![w] = "waiting"]
    BY <1>t, <2>6 DEF Queue!Next, Queue!Requeue, Queue!Move, RowStatus
  <2> QED
    BY <2>1, <2>2, <2>3, <2>4, <2>5, <2>6
<1>2. CASE Crash \/ Elsewhere \/ UNCHANGED vars \/ \E k \in Keys : Lapse(k)
  <2>1. row' = row
    BY <1>2, ElsewhereFacts, LapseFacts DEF Crash
  <2> QED
    BY <2>1 DEF RowStatus
<1> QED
  BY <1>1, <1>2 DEF Next, WorkStep, Elsewhere

(* The rows the handlers work on are a queue as the inbox promises it: a   *)
(* delivered row is over for good, whatever crashes and lost deletions     *)
(* bring back, and a dead letter is one until it is put back.              *)
THEOREM RowsAreAQueue == Spec => RowsAreQueue
<1>1. Init => TypeOK /\ WorksInv
  BY InitFacts
<1>2. TypeOK /\ WorksInv /\ [Next]_vars => TypeOK' /\ WorksInv'
  BY TypeStep, WorksStep
<1>3. Init => Queue!Init
  BY DEF Init, Queue!Init, RowStatus
<1>4. TypeOK /\ WorksInv /\ [Next]_vars => [Queue!Next]_RowStatus
  BY QueueStep
<1> QED
  BY <1>1, <1>2, <1>3, <1>4, PTL DEF Spec, RowsAreQueue, Queue!Spec


-----------------------------------------------------------------------------
(* Effects.  A completed effect keeps its guard until that lapses, an      *)
(* effect under way is not completed since, and a guard stands for one of  *)
(* the two or is lost.                                                     *)
DoneInv ==
    /\ \A k \in Keys : /\ done[k] <= 1 + lapses[k]
                       /\ done[k] > lapses[k] => k \in guards
    /\ \A w \in Works : body[w] => done[BodyKey(w)] <= lapses[BodyKey(w)]

GuardsInv ==
    \A k \in guards :
        \/ done[k] > 0
        \/ k \in lost
        \/ \E w \in Works : body[w] /\ BodyKey(w) = k

LEMMA EffectsMove ==
    ASSUME TypeOK, WorksInv, DoneInv, GuardsInv,
           NEW w \in Works, Others(w), Moves(w), Typed'
    PROVE  DoneInv' /\ GuardsInv'
<1> DEFINE K == BodyKey(w)
<1>t. /\ done \in [Keys -> Nat] /\ lapses \in [Keys -> Nat] /\ at \in [Works -> Nat] /\ guards \subseteq Keys
  BY DEF TypeOK
<1>k. \A v \in Works : at'[v] = at[v] => BodyKey(v)' = BodyKey(v)
  BY DEF BodyKey, Step
<1>o. \A v \in Works \ {w} : body'[v] = body[v] /\ BodyKey(v)' = BodyKey(v)
  BY <1>k DEF Others
<1>b. /\ body[w] => IsOnce(w, at[w]) /\ at[w] > 0 /\ K \in guards /\ done[K] <= lapses[K]
      /\ IsOnce(w, at[w]) => K \in Keys
      /\ \A v \in Works \ {w} : body[v] /\ body[w] => BodyKey(v) # K
  BY StepsOfFacts DEF WorksInv, DoneInv, IsOnce, BodyKey, Step
<1>x. \A v \in Works : body[v] => BodyKey(v) \in guards /\ BodyKey(v) \in Keys
  BY <1>t DEF WorksInv
<1>l. lapses' = lapses
  BY DEF Others
<1>f. ~body[w] /\ ~body'[w] => body'[w] = body[w]
  BY DEF TypeOK, Typed
(* Neither a guard nor an effect changes. *)
<1>1. ASSUME UNCHANGED <<guards, done, lost>>, body'[w] = body[w],
             body[w] => at'[w] = at[w]
      PROVE  DoneInv' /\ GuardsInv'
  <2>1. \A v \in Works : body'[v] = body[v] /\ (body[v] => BodyKey(v)' = BodyKey(v))
    BY <1>1, <1>k, <1>o
  <2> QED
    BY <1>1, <1>l, <2>1 DEF DoneInv, GuardsInv
<1>2. CASE Arrives(w) \/ Requeues(w)
  BY <1>1, <1>2 DEF Arrives, Requeues
<1>3. CASE Starts(w)
  BY <1>1, <1>b, <1>3 DEF Starts
<1>4. CASE Advances(w)
  BY <1>1, <1>f, <1>4 DEF Advances
<1>5. CASE Leaves(w)
  BY <1>1, <1>f, <1>5 DEF Leaves
<1>6. CASE Claims(w)
  <2>1. /\ IsOnce(w, at[w]) /\ ~body[w] /\ body'[w] /\ BodyKey(w)' = K
        /\ K \notin guards /\ guards' = guards \cup {K} /\ done' = done /\ lost' = lost
    BY <1>6, <1>k DEF Claims
  <2>2. done[K] <= lapses[K]
    BY <1>b, <1>t, <2>1 DEF DoneInv
  <2>3. DoneInv'
    <3>1. \A v \in Works : body'[v] => done'[BodyKey(v)'] <= lapses'[BodyKey(v)']
      BY <1>l, <1>o, <2>1, <2>2 DEF DoneInv
    <3> QED
      BY <1>l, <2>1, <3>1 DEF DoneInv
  <2>4. GuardsInv'
    <3>1. ASSUME NEW v \in Works, body[v]
          PROVE  body'[v] /\ BodyKey(v)' = BodyKey(v)
      BY <1>o, <2>1, <3>1
    <3> QED
      BY <2>1, <3>1 DEF GuardsInv
  <2> QED
    BY <2>3, <2>4
<1>7. CASE Effects(w)
  <2>1. /\ body[w] /\ ~body'[w] /\ done' = [done EXCEPT ![K] = @ + 1]
        /\ guards' = guards /\ lost' = lost
    BY <1>7 DEF Effects
  <2>2. K \in Keys /\ K \in guards /\ done'[K] = done[K] + 1 /\ done'[K] > 0
    BY <1>b, <1>t, <2>1
  <2>3. \A k \in Keys : k # K => done'[k] = done[k]
    BY <1>t, <2>1
  <2>4. DoneInv'
    <3>1. ASSUME NEW v \in Works, body'[v]
          PROVE  done'[BodyKey(v)'] <= lapses'[BodyKey(v)']
      <4>1. v # w /\ body[v] /\ BodyKey(v)' = BodyKey(v) /\ BodyKey(v) # K
        BY <1>b, <1>o, <2>1, <3>1
      <4> QED
        BY <1>l, <1>x, <2>3, <4>1 DEF DoneInv
    <3>2. \A k \in Keys : /\ done'[k] <= 1 + lapses'[k]
                          /\ done'[k] > lapses'[k] => k \in guards'
      BY <1>b, <1>l, <1>t, <2>1, <2>2, <2>3 DEF DoneInv
    <3> QED
      BY <3>1, <3>2 DEF DoneInv
  <2>5. GuardsInv'
    <3>1. ASSUME NEW k \in guards, k # K
          PROVE  done'[k] > 0 \/ k \in lost' \/ \E v \in Works : body'[v] /\ BodyKey(v)' = k
      <4>1. CASE done[k] > 0 \/ k \in lost
        BY <1>t, <2>1, <2>3, <3>1, <4>1
      <4>2. CASE \E v \in Works : body[v] /\ BodyKey(v) = k
        BY <1>o, <3>1, <4>2
      <4> QED
        BY <4>1, <4>2 DEF GuardsInv
    <3> QED
      BY <2>1, <2>2, <3>1 DEF GuardsInv
  <2> QED
    BY <2>4, <2>5
<1>8. CASE Fails(w)
  <2>1. ~body'[w] /\ done' = done
    BY <1>8 DEF Fails
  <2>2. CASE ~body[w] /\ UNCHANGED <<guards, lost>>
    <3>1. \A v \in Works : /\ body'[v] => body[v] /\ BodyKey(v)' = BodyKey(v)
                           /\ body[v] => body'[v] /\ BodyKey(v)' = BodyKey(v)
      BY <1>o, <2>1, <2>2
    <3> QED
      BY <1>l, <2>1, <2>2, <3>1 DEF DoneInv, GuardsInv
  <2>3. CASE body[w] /\ guards' = guards \ {K} /\ UNCHANGED lost
    <3>1. DoneInv'
      <4>1. \A k \in Keys : done[k] > lapses[k] => k # K
        BY <1>b, <1>t, <2>3
      <4>2. \A v \in Works : body'[v] => body[v] /\ BodyKey(v)' = BodyKey(v)
        BY <1>o, <2>1
      <4> QED
        BY <1>l, <2>1, <2>3, <4>1, <4>2 DEF DoneInv
    <3>2. GuardsInv'
      <4>1. \A v \in Works : body[v] /\ BodyKey(v) # K => body'[v] /\ BodyKey(v)' = BodyKey(v)
        BY <1>o
      <4> QED
        BY <2>1, <2>3, <4>1 DEF GuardsInv
    <3> QED
      BY <3>1, <3>2
  <2>4. CASE body[w] /\ lost' = lost \cup {K} /\ UNCHANGED guards
    <3>1. \A v \in Works : body'[v] => body[v] /\ BodyKey(v)' = BodyKey(v)
      BY <1>o, <2>1
    <3>2. DoneInv'
      BY <1>l, <2>1, <2>4, <3>1 DEF DoneInv
    <3>3. \A v \in Works : body[v] /\ BodyKey(v) # K => body'[v] /\ BodyKey(v)' = BodyKey(v)
      BY <1>o
    <3>4. GuardsInv'
      BY <2>1, <2>4, <3>3 DEF GuardsInv
    <3> QED
      BY <3>2, <3>4
  <2> QED
    BY <1>8, <2>2, <2>3, <2>4 DEF Fails
<1> QED
  BY <1>2, <1>3, <1>4, <1>5, <1>6, <1>7, <1>8 DEF Moves

LEMMA EffectsStep ==
    ASSUME TypeOK, WorksInv, DoneInv, GuardsInv, [Next]_vars
    PROVE  DoneInv' /\ GuardsInv'
<1>t. /\ done \in [Keys -> Nat] /\ lapses \in [Keys -> Nat]
      /\ \A w \in Works : body[w] => BodyKey(w) \in Keys
  BY StepsOfFacts DEF TypeOK, WorksInv, BodyKey, Step
<1>1. ASSUME NEW w \in Works, WorkStep(w)
      PROVE  DoneInv' /\ GuardsInv'
  BY <1>1, MovesFacts, EffectsMove
<1>2. CASE Crash
  <2>1. /\ body' = [w \in Works |-> FALSE] /\ UNCHANGED <<done, lapses, guards>>
        /\ lost' = lost \cup {BodyKey(w) : w \in {v \in Works : body[v]}}
    BY <1>2 DEF Crash, dbVars, BodyKey
  <2>2. DoneInv'
    BY <2>1 DEF DoneInv
  <2>3. GuardsInv'
    BY <2>1 DEF GuardsInv
  <2> QED
    BY <2>2, <2>3
<1>3. CASE Elsewhere \/ UNCHANGED vars
  <2>1. UNCHANGED <<row, attempts, at, body, guards, done, lapses, lost, throttled>>
    BY <1>3, ElsewhereFacts
  <2>2. \A w \in Works : BodyKey(w)' = BodyKey(w)
    BY <2>1 DEF BodyKey, Step
  <2> QED
    BY <2>1, <2>2 DEF DoneInv, GuardsInv
<1>4. ASSUME NEW k \in Keys, Lapse(k)
      PROVE  DoneInv' /\ GuardsInv'
  <2>1. DoneInv'
    BY <1>4, <1>t, LapseFacts DEF DoneInv
  <2>2. GuardsInv'
    BY <1>4, LapseFacts DEF GuardsInv
  <2> QED
    BY <2>1, <2>2
<1> QED
  BY <1>1, <1>2, <1>3, <1>4 DEF Next, WorkStep, Elsewhere

(* No guarded effect is completed more often for a message than once and   *)
(* once for each lapse of its guard: for any number of duplicate rows,     *)
(* handlers, retries, crashes and dead letters put back.                   *)
THEOREM AtMostOnce == Spec => []EffectAtMostOnce
<1>1. Init => TypeOK /\ WorksInv
  BY InitFacts
<1>2. Init => DoneInv /\ GuardsInv
  BY DEF Init, DoneInv, GuardsInv
<1>3. /\ TypeOK /\ WorksInv /\ DoneInv /\ GuardsInv /\ [Next]_vars
      => TypeOK' /\ WorksInv' /\ DoneInv' /\ GuardsInv'
  BY TypeStep, WorksStep, EffectsStep
<1>4. DoneInv => EffectAtMostOnce
  BY DEF DoneInv, EffectAtMostOnce
<1> QED
  BY <1>1, <1>2, <1>3, <1>4, PTL DEF Spec


-----------------------------------------------------------------------------
(* The effects as GuardedEffects sees them.                                *)
EffectsInv == TypeOK /\ WorksInv /\ DoneInv /\ GuardsInv

(* A work moves no effect but that of its own step.                        *)
LEMMA OwnEffect ==
    ASSUME EffectsInv, NEW w \in Works, Others(w), Moves(w), Typed',
           NEW k \in Keys, k # BodyKey(w)
    PROVE  EffectOf(k)' = EffectOf(k) /\ done'[k] = done[k]
<1>t. done \in [Keys -> Nat] /\ at \in [Works -> Nat]
  BY DEF EffectsInv, TypeOK
<1>o. \A v \in Works \ {w} : body'[v] = body[v] /\ BodyKey(v)' = BodyKey(v)
  BY DEF Others, BodyKey, Step
<1>w. ~(body[w] /\ BodyKey(w) = k) /\ ~(body'[w] /\ BodyKey(w)' = k)
  <2>1. body[w] => at[w] > 0
    BY <1>t, StepsOfFacts DEF EffectsInv, WorksInv, IsOnce
  <2>2. body'[w] => at'[w] = at[w]
    <3>1. CASE Arrives(w) \/ Requeues(w) \/ Claims(w)
      BY <3>1 DEF Arrives, Requeues, Claims
    <3>2. CASE Starts(w)
      BY <2>1, <3>2 DEF Starts
    <3>3. CASE Advances(w) \/ Effects(w) \/ Fails(w) \/ Leaves(w)
      BY <3>3 DEF Advances, Effects, Fails, Leaves
    <3> QED
      BY <3>1, <3>2, <3>3 DEF Moves
  <2>3. body'[w] => BodyKey(w)' = BodyKey(w)
    BY <2>2 DEF BodyKey, Step
  <2> QED
    BY <2>3
<1>1. UnderWay(k)' <=> UnderWay(k)
  BY <1>o, <1>w DEF UnderWay, BodyKey
<1>2. k \in guards' <=> k \in guards
  BY DEF Moves, Arrives, Requeues, Starts, Advances, Claims, Effects, Fails, Leaves
<1>3. done'[k] = done[k]
  BY <1>t DEF Moves, Arrives, Requeues, Starts, Advances, Claims, Effects, Fails, Leaves
<1> QED
  BY <1>1, <1>2, <1>3 DEF EffectOf

LEMMA EffectMoved ==
    ASSUME NEW K \in Keys, NEW to, EffectOf(K)' = to,
           \A k \in Keys : k # K => EffectOf(k)' = EffectOf(k)
    PROVE  Effect' = [Effect EXCEPT ![K] = to]
  BY DEF Effect

(* The steps of a work.                                                    *)
LEMMA GuardedMove ==
    ASSUME EffectsInv, NEW w \in Works, Others(w), Moves(w), Typed'
    PROVE  [Guarded!Next]_(Guarded!effectVars)
<1>c. PICK K : K = BodyKey(w)
  OBVIOUS
<1>t. done \in [Keys -> Nat] /\ at \in [Works -> Nat]
  BY DEF EffectsInv, TypeOK
<1>o. \A v \in Works \ {w} : body'[v] = body[v] /\ BodyKey(v)' = BodyKey(v)
  BY DEF Others, BodyKey, Step
<1>k. \A k \in Keys : k # K => EffectOf(k)' = EffectOf(k) /\ done'[k] = done[k]
  BY <1>c, OwnEffect
<1>s. at'[w] = at[w] => BodyKey(w)' = K
  BY <1>c DEF BodyKey, Step
<1>b. /\ IsOnce(w, at[w]) => K \in Keys
      /\ body[w] => /\ IsOnce(w, at[w]) /\ K \in Keys /\ K \in guards /\ at[w] > 0
  BY <1>c, <1>t, StepsOfFacts DEF EffectsInv, WorksInv, IsOnce, BodyKey, Step
<1>u. \A v \in Works \ {w} : body[v] /\ body[w] => BodyKey(v) # K
  BY <1>c DEF EffectsInv, WorksInv
(* Neither an effect nor a guard changes hands. *)
<1>1. ASSUME UNCHANGED <<guards, done>>, body'[w] = body[w], body[w] => at'[w] = at[w]
      PROVE  UNCHANGED Guarded!effectVars
  <2>1. \A v \in Works : body'[v] = body[v] /\ (body[v] => BodyKey(v)' = BodyKey(v))
    BY <1>1, <1>c, <1>o, <1>s
  <2>2. \A k \in Keys : UnderWay(k)' <=> UnderWay(k)
    BY <2>1 DEF UnderWay, BodyKey
  <2>3. Effect' = Effect
    BY <1>1, <2>2 DEF Effect, EffectOf
  <2> QED
    BY <1>1, <2>3 DEF Guarded!effectVars
<1>f. ~body[w] /\ ~body'[w] => body'[w] = body[w]
  BY DEF EffectsInv, TypeOK, Typed
<1>2. CASE Arrives(w) \/ Requeues(w) \/ Starts(w) \/ Advances(w) \/ Leaves(w)
  BY <1>1, <1>b, <1>f, <1>2 DEF Arrives, Requeues, Starts, Advances, Leaves
<1>3. CASE Claims(w)
  <2>1. /\ IsOnce(w, at[w]) /\ at'[w] = at[w] /\ ~body[w] /\ body'[w]
        /\ K \notin guards /\ guards' = guards \cup {K} /\ UNCHANGED done
    BY <1>c, <1>3 DEF Claims
  <2>2. UnderWay(K)'
    BY <1>s, <2>1 DEF UnderWay, BodyKey
  <2>3. ~UnderWay(K)
    BY <1>c, <2>1 DEF EffectsInv, WorksInv, UnderWay, BodyKey
  <2>4. EffectOf(K) = "free" /\ EffectOf(K)' = "running"
    BY <2>1, <2>2, <2>3 DEF EffectOf
  <2>5. K \in Keys /\ Guarded!TakeUp(K)
    BY <1>b, <1>k, <2>1, <2>4, EffectMoved DEF Guarded!TakeUp, Guarded!Move, Effect
  <2> QED
    BY <2>5 DEF Guarded!Next
<1>4. CASE Effects(w)
  <2>1. /\ body[w] /\ ~body'[w] /\ done' = [done EXCEPT ![K] = @ + 1] /\ UNCHANGED guards
        /\ K \in Keys /\ K \in guards
    BY <1>b, <1>c, <1>4 DEF Effects
  <2>2. UnderWay(K) /\ ~UnderWay(K)'
    BY <1>c, <1>o, <1>u, <2>1 DEF UnderWay, BodyKey
  <2>3. EffectOf(K) = "running" /\ EffectOf(K)' = "closed"
    BY <2>1, <2>2 DEF EffectOf
  <2>4. Guarded!Finish(K)
    BY <1>k, <2>1, <2>3, EffectMoved DEF Guarded!Finish, Guarded!Move, Effect
  <2> QED
    BY <2>1, <2>4 DEF Guarded!Next
<1>5. CASE Fails(w) /\ ~body[w]
  BY <1>1, <1>f, <1>5 DEF Fails
<1>6. CASE Fails(w) /\ body[w]
  <2>1. ~body'[w] /\ done' = done /\ K \in Keys /\ K \in guards
    BY <1>b, <1>6 DEF Fails
  <2>2. UnderWay(K) /\ ~UnderWay(K)'
    BY <1>c, <1>o, <1>u, <1>6, <2>1 DEF UnderWay, BodyKey
  <2>3. CASE guards' = guards \ {K}
    <3>1. EffectOf(K) = "running" /\ EffectOf(K)' = "free"
      BY <2>2, <2>3 DEF EffectOf
    <3>2. Guarded!GiveBack(K)
      BY <1>k, <2>1, <3>1, EffectMoved DEF Guarded!GiveBack, Guarded!Move, Effect
    <3> QED
      BY <2>1, <3>2 DEF Guarded!Next
  <2>4. CASE guards' = guards
    <3>1. EffectOf(K) = "running" /\ EffectOf(K)' = "closed"
      BY <2>1, <2>2, <2>4 DEF EffectOf
    <3>2. \A k \in Keys : \/ EffectOf(k)' = EffectOf(k)
                          \/ EffectOf(k) = "running" /\ EffectOf(k)' = "closed"
      BY <1>k, <3>1
    <3>3. \A k \in Keys : EffectOf(k)' \in {"free", "running", "closed"}
      BY DEF EffectOf
    <3>4. Guarded!Lose
      BY <2>1, <3>2, <3>3 DEF Guarded!Lose, Effect
    <3> QED
      BY <3>4 DEF Guarded!Next
  <2> QED
    BY <1>c, <1>6, <2>3, <2>4 DEF Fails
<1> QED
  BY <1>2, <1>3, <1>4, <1>5, <1>6 DEF Moves

(* A crash loses what is under way, a guard that lapses is forgotten, and  *)
(* nothing else touches an effect.                                         *)
LEMMA GuardedStep ==
    ASSUME EffectsInv, [Next]_vars
    PROVE  [Guarded!Next]_(Guarded!effectVars)
<1>1. ASSUME NEW w \in Works, WorkStep(w)
      PROVE  [Guarded!Next]_(Guarded!effectVars)
  BY <1>1, MovesFacts, GuardedMove DEF EffectsInv
<1>2. CASE Crash
  <2>1. body' = [w \in Works |-> FALSE] /\ UNCHANGED <<done, guards>>
    BY <1>2 DEF Crash, dbVars
  <2>2. \A k \in Keys : ~UnderWay(k)'
    BY <2>1 DEF UnderWay
  <2>3. \A k \in Keys : UnderWay(k) => k \in guards
    BY DEF EffectsInv, WorksInv, UnderWay, BodyKey
  <2>4. \A k \in Keys : \/ EffectOf(k)' = EffectOf(k)
                        \/ EffectOf(k) = "running" /\ EffectOf(k)' = "closed"
    BY <2>1, <2>2, <2>3 DEF EffectOf
  <2>5. \A k \in Keys : EffectOf(k)' \in {"free", "running", "closed"}
    BY DEF EffectOf
  <2>6. Guarded!Lose
    BY <2>1, <2>4, <2>5 DEF Guarded!Lose, Effect
  <2> QED
    BY <2>6 DEF Guarded!Next
<1>3. CASE Elsewhere \/ UNCHANGED vars
  <2>1. UNCHANGED <<row, attempts, at, body, guards, done, lapses, lost, throttled>>
    BY <1>3, ElsewhereFacts
  <2>2. Effect' = Effect
    BY <2>1 DEF Effect, EffectOf, UnderWay, Step
  <2> QED
    BY <2>1, <2>2 DEF Guarded!effectVars
<1>4. ASSUME NEW k \in Keys, Lapse(k)
      PROVE  [Guarded!Next]_(Guarded!effectVars)
  <2>1. /\ UNCHANGED <<at, body, done>> /\ k \in guards /\ guards' = guards \ {k}
        /\ ~UnderWay(k)
    BY <1>4, LapseFacts DEF EffectsInv, Lapse
  <2>2. \A j \in Keys : UnderWay(j)' <=> UnderWay(j)
    BY <2>1 DEF UnderWay, Step
  <2>3. EffectOf(k) = "closed" /\ EffectOf(k)' = "free"
    BY <2>1, <2>2 DEF EffectOf
  <2>4. \A j \in Keys : j # k => EffectOf(j)' = EffectOf(j)
    BY <2>1, <2>2 DEF EffectOf
  <2>5. Guarded!Forget(k)
    BY <2>1, <2>3, <2>4, EffectMoved DEF Guarded!Forget, Guarded!Move, Effect
  <2> QED
    BY <2>5 DEF Guarded!Next
<1> QED
  BY <1>1, <1>2, <1>3, <1>4 DEF Next, WorkStep, Elsewhere

(* Every step of the handlers, for any duplicate rows, retries, failed     *)
(* releases, crashes and dead letters put back, takes an effect up,        *)
(* completes it, gives it back, loses it, or is invisible: what was        *)
(* completed or lost is not taken up again before its guard has lapsed,    *)
(* and what is under way is so in one handler.                             *)
THEOREM EffectsAreGuarded == Spec => ImplementsEffects
<1>1. Init => EffectsInv
  <2>1. Init => TypeOK /\ WorksInv
    BY InitFacts
  <2>2. Init => DoneInv /\ GuardsInv
    BY DEF Init, DoneInv, GuardsInv
  <2> QED
    BY <2>1, <2>2 DEF EffectsInv
<1>2. EffectsInv /\ [Next]_vars => EffectsInv'
  BY TypeStep, WorksStep, EffectsStep DEF EffectsInv
<1>3. Init => Guarded!Init
  <2> SUFFICES ASSUME Init PROVE Guarded!Init
    OBVIOUS
  <2>1. \A k \in Keys : EffectOf(k) = "free"
    BY DEF Init, EffectOf, UnderWay
  <2> QED
    BY <2>1 DEF Init, Guarded!Init, Effect
<1>4. EffectsInv /\ [Next]_vars => [Guarded!Next]_(Guarded!effectVars)
  BY GuardedStep
<1> QED
  BY <1>1, <1>2, <1>3, <1>4, PTL DEF Spec, ImplementsEffects, Guarded!Spec


-----------------------------------------------------------------------------
(* Auto-raids.  A claim of the throttle is a raid in the making, and a     *)
(* window has one claim, and one more for each time it was reopened.       *)
RaidsInv ==
    /\ IsFiniteSet(holders)
    /\ raids + Cardinality(holders) <= reopened + (IF throttle > 0 THEN 1 ELSE 0)

LEMMA RaidsStep ==
    ASSUME TypeOK, RaidsInv, [Next]_vars
    PROVE  RaidsInv'
<1>t. /\ throttle \in 0 .. OFFLINE_THROTTLE_TTL_SECONDS
      /\ OFFLINE_THROTTLE_TTL_SECONDS \in Nat \ {0}
      /\ raids \in Nat /\ reopened \in Nat
      /\ IsFiniteSet(holders) /\ Cardinality(holders) \in Nat
  BY EventsAssumption, FS_CardinalityType DEF TypeOK, RaidsInv
<1>1. ASSUME UNCHANGED <<throttle, holders, raids, reopened>>
      PROVE  RaidsInv'
  BY <1>1 DEF RaidsInv
<1>2. ASSUME CloseWindow, throttle' \in Nat
      PROVE  RaidsInv'
  BY <1>2, FS_EmptySet DEF CloseWindow, RaidsInv
<1>r. ASSUME Release
      PROVE  RaidsInv'
  <2>1. CASE real
    BY <1>2, <1>r, <2>1 DEF Release
  <2>2. CASE ~real
    <3>1. /\ throttle' = 0 /\ raids' = raids /\ holders' = holders
          /\ reopened' = IF throttle > 0 THEN reopened + 1 ELSE reopened
      BY <1>r, <2>2 DEF Release
    <3> QED
      BY <1>t, <3>1 DEF RaidsInv
  <2> QED
    BY <2>1, <2>2
<1>3. ASSUME NEW w \in Works, WorkStep(w)
      PROVE  RaidsInv'
  <2>1. CASE ReleaseThrottle(w)
    BY <1>r, <2>1 DEF ReleaseThrottle
  <2>2. CASE PassThrottle(w)
    <3>1. /\ throttle = 0 /\ throttle' = OFFLINE_THROTTLE_TTL_SECONDS
          /\ holders' = holders \cup {w} /\ raids' = raids /\ reopened' = reopened
      BY <2>2 DEF PassThrottle, ClaimThrottle
    <3>2. /\ IsFiniteSet(holders \cup {w})
          /\ Cardinality(holders \cup {w}) <= Cardinality(holders) + 1
          /\ Cardinality(holders \cup {w}) \in Nat
      <4>1. /\ IsFiniteSet(holders \cup {w})
            /\ Cardinality(holders \cup {w}) =
                 IF w \in holders THEN Cardinality(holders) ELSE Cardinality(holders) + 1
        BY <1>t, FS_AddElement
      <4> QED
        BY <1>t, <4>1
    <3> QED
      BY <1>t, <3>1, <3>2 DEF RaidsInv
  <2>3. CASE EffectOk(w)
    <3>1. /\ throttle' = throttle /\ reopened' = reopened
          /\ TriggerRaid(w) \/ UNCHANGED <<holders, raids>>
      BY <2>3 DEF EffectOk
    <3>2. CASE TriggerRaid(w) /\ w \in holders
      <4>1. holders' = holders \ {w} /\ raids' = raids + 1
        BY <3>2 DEF TriggerRaid
      <4>2. /\ IsFiniteSet(holders \ {w})
            /\ Cardinality(holders \ {w}) = Cardinality(holders) - 1
        BY <1>t, <3>2, FS_RemoveElement
      <4> QED
        BY <1>t, <3>1, <4>1, <4>2 DEF RaidsInv
    <3>3. CASE TriggerRaid(w) /\ w \notin holders
      <4>1. raids' = raids /\ holders' = holders
        BY <3>3 DEF TriggerRaid
      <4> QED
        BY <1>1, <3>1, <4>1
    <3>4. CASE UNCHANGED <<holders, raids>>
      BY <1>1, <3>1, <3>4
    <3> QED
      BY <3>1, <3>2, <3>3, <3>4
  <2>4. CASE \/ Arrive(w) \/ Requeue(w) \/ Begin(w) \/ Complete(w) \/ CompleteUnmarked(w) \/ RunHook(w)
             \/ StepFails(w) \/ SkipEffect(w) \/ EffectErrUnreleased(w)
    BY <1>1, <2>4 DEF Arrive, Requeue, Begin, Complete, CompleteUnmarked, RunHook, StepFails,
                      SkipEffect, EffectErrUnreleased, dbVars, history, window
  <2>5. CASE ApplyOnline(w) \/ Throttled(w) \/ ClaimEffect(w) \/ EffectErr(w)
    BY <1>1, <2>5 DEF ApplyOnline, Throttled, ClaimEffect, EffectErr, dbVars, history, window
  <2> QED
    BY <1>3, <2>1, <2>2, <2>3, <2>4, <2>5 DEF WorkStep, Handle
<1>4. CASE PollRaid
  <2>1. CASE throttle = 0
    <3>1. /\ throttle' = OFFLINE_THROTTLE_TTL_SECONDS /\ raids' = raids + 1
          /\ holders' = holders /\ reopened' = reopened
      BY <1>4, <2>1 DEF PollRaid
    <3> QED
      BY <1>t, <2>1, <3>1 DEF RaidsInv
  <2>2. CASE throttle # 0
    BY <1>1, <1>4, <2>2 DEF PollRaid
  <2> QED
    BY <2>1, <2>2
<1>5. CASE PollGoesLive
  BY <1>r, <1>5 DEF PollGoesLive
<1>6. CASE PollAsk \/ PollRead \/ PollNoRaid \/ PollPersist \/ PollFails \/ StreamChanges
  BY <1>1, <1>6 DEF PollAsk, PollRead, PollNoRaid, PollPersist, PollFails, StreamChanges,
                    dbVars, history, window
<1>7. CASE Crash \/ UNCHANGED vars \/ \E k \in Keys : Lapse(k)
  BY <1>1, <1>7 DEF Crash, Lapse, vars, dbVars, history, window
<1>8. CASE Tick
  <2>1. CASE throttle = 1
    BY <1>2, <1>8, <2>1 DEF Tick
  <2>2. CASE throttle # 1
    <3>1. throttle > 0 /\ throttle' = throttle - 1 /\ UNCHANGED <<holders, raids, reopened>>
      BY <1>8, <2>2 DEF Tick, window
    <3> QED
      BY <1>t, <2>2, <3>1 DEF RaidsInv
  <2> QED
    BY <2>1, <2>2
<1> QED
  BY <1>3, <1>4, <1>5, <1>6, <1>7, <1>8 DEF Next, WorkStep, Poll

(* The event path and the poller's path trigger at most one auto-raid in a *)
(* window of the throttle, and one more for each release of it by a view   *)
(* of the stream from before its end, however many works claim it.         *)
THEOREM OneRaid == Spec => []NoDoubleRaid
<1>1. Init => TypeOK /\ WorksInv
  BY InitFacts
<1>2. Init => RaidsInv
  BY FS_EmptySet DEF Init, RaidsInv
<1>3. TypeOK /\ WorksInv /\ RaidsInv /\ [Next]_vars => TypeOK' /\ WorksInv' /\ RaidsInv'
  BY TypeStep, WorksStep, RaidsStep
<1>4. TypeOK /\ RaidsInv => NoDoubleRaid
  <2> SUFFICES ASSUME TypeOK, RaidsInv PROVE NoDoubleRaid
    OBVIOUS
  <2>1. Cardinality(holders) \in Nat /\ raids \in Nat /\ reopened \in Nat
    BY FS_CardinalityType DEF RaidsInv, TypeOK
  <2> QED
    BY <2>1 DEF RaidsInv, NoDoubleRaid
<1> QED
  BY <1>1, <1>2, <1>3, <1>4, PTL DEF Spec


-----------------------------------------------------------------------------
(* Completeness.  An effect still ahead of a work, or of one that failed   *)
(* for good, is open; what a handler left behind is settled.               *)
Open(k) ==
    \E u \in Works : \E j \in Nat :
        /\ IsOnce(u, j) /\ Key(u, StepsOf(u)[j]) = k
        /\ row[u] = "dead" \/ (row[u] = "waiting" /\ at[u] <= j)

Settled(k) ==
    \/ k[1] \in Optional
    \/ done[k] > 0
    \/ k \in lost
    \/ Open(k)
    \/ \E v \in throttled : WorkMessage[v] = k[2]

CompleteInv ==
    \A w \in Works : \A i \in Nat :
        IsOnce(w, i) /\ (i < at[w] \/ row[w] = "delivered")
        => Settled(Key(w, StepsOf(w)[i]))

LEMMA SettledMove ==
    ASSUME TypeOK, WorksInv, DoneInv, GuardsInv,
           NEW w \in Works, Others(w), Moves(w), Typed',
           NEW k \in Keys, Settled(k)
    PROVE  Settled(k)'
<1>t. /\ done \in [Keys -> Nat] /\ at \in [Works -> Nat] /\ throttled \subseteq Works
  BY DEF TypeOK
<1>b. /\ body[w] => BodyKey(w) \in Keys /\ at[w] > 0
      /\ at[w] > 0 => row[w] = "waiting"
  BY StepsOfFacts DEF WorksInv, DoneInv, IsOnce, BodyKey, Step
<1>m. lost \subseteq lost' /\ throttled \subseteq throttled'
  BY DEF Moves, Arrives, Requeues, Starts, Advances, Claims, Effects, Fails, Leaves
<1>1. CASE k[1] \in Optional
  BY <1>1 DEF Settled
<1>2. CASE done[k] > 0
  <2>1. done'[k] > 0
    <3>1. CASE Effects(w)
      BY <1>t, <1>b, <1>2, <3>1 DEF Effects
    <3>2. CASE ~Effects(w)
      <4>1. done' = done
        BY <3>2 DEF Moves, Arrives, Requeues, Starts, Advances, Claims, Fails, Leaves
      <4> QED
        BY <1>2, <4>1
    <3> QED
      BY <3>1, <3>2
  <2> QED
    BY <2>1 DEF Settled
<1>3. CASE k \in lost
  BY <1>m, <1>3 DEF Settled
<1>4. CASE \E v \in throttled : WorkMessage[v] = k[2]
  BY <1>m, <1>4 DEF Settled
<1>5. ASSUME NEW u \in Works, NEW j \in Nat, IsOnce(u, j), Key(u, StepsOf(u)[j]) = k,
             row[u] = "dead" \/ (row[u] = "waiting" /\ at[u] <= j)
      PROVE  Settled(k)'
  <2>s. /\ Len(StepsOf(u)) \in Nat /\ j \in 1 .. Len(StepsOf(u))
        /\ k[1] = StepsOf(u)[j].name /\ k[2] = WorkMessage[u]
    BY <1>5, StepsOfFacts DEF IsOnce, Key
  <2>o. ASSUME row'[u] = "dead" \/ (row'[u] = "waiting" /\ at'[u] <= j)
        PROVE  Settled(k)'
    BY <1>5, <2>o DEF Settled, Open
  <2>1. CASE u # w
    BY <1>5, <2>1, <2>o DEF Others
  <2>2. CASE u = w
    <3>1. CASE Arrives(w)
      BY <1>5, <2>2, <3>1 DEF Arrives
    <3>7. CASE Requeues(w)
      <4>1. at[w] = 0
        BY <1>t, <3>7 DEF Requeues, WorksInv
      <4> QED
        BY <2>2, <2>o, <3>7, <4>1 DEF Requeues
    <3>2. CASE Starts(w)
      BY <2>s, <2>2, <2>o, <3>2 DEF Starts, Stays
    <3>3. CASE Claims(w)
      BY <1>5, <2>2, <2>o, <3>3 DEF Claims, Stays
    <3>4. CASE Fails(w)
      BY <2>2, <2>o, <3>4 DEF Fails
    <3>5. CASE Leaves(w)
      <4>1. row[w] = "waiting" /\ at[w] <= j
        BY <1>b, <1>5, <2>2, <3>5 DEF Leaves
      <4>2. at[w] # Len(StepsOf(w)) + 1
        BY <1>t, <2>s, <2>2, <4>1
      <4>3. throttled' = throttled \cup {w}
        BY <3>5, <4>2 DEF Leaves
      <4> QED
        BY <2>s, <2>2, <4>3 DEF Settled
    <3>6. CASE Advances(w) \/ Effects(w)
      <4>1. row'[w] = "waiting" /\ at'[w] = at[w] + 1 /\ at[w] <= j
        BY <1>5, <2>2, <1>b, <3>6 DEF Advances, Effects, Stays
      <4>2. CASE at[w] # j
        <5>1. at'[w] <= j
          BY <1>t, <4>1, <4>2
        <5> QED
          BY <2>2, <2>o, <4>1, <5>1
      <4>3. CASE at[w] = j
        <5>k. k = BodyKey(w) /\ IsOnce(w, at[w])
          BY <1>5, <2>2, <4>3 DEF BodyKey, Step
        <5>1. CASE Effects(w)
          <6>1. done'[k] > 0
            BY <1>t, <1>b, <5>k, <5>1 DEF Effects
          <6> QED
            BY <6>1 DEF Settled
        <5>2. CASE Advances(w)
          <6>1. k \in guards \/ k[1] \in Optional
            BY <2>s, <2>2, <4>3, <5>k, <5>2 DEF Advances, Step
          <6>2. ASSUME NEW v \in Works, body[v], BodyKey(v) = k
                PROVE  Settled(k)'
            <7>1. v # w /\ IsOnce(v, at[v]) /\ at[v] \in Nat /\ at[v] > 0
              BY <1>t, <5>2, <6>2, StepsOfFacts DEF Advances, WorksInv, IsOnce
            <7>2. row[v] = "waiting" /\ row'[v] = row[v] /\ at'[v] = at[v]
              BY <7>1 DEF WorksInv, Others
            <7>3. Key(v, StepsOf(v)[at[v]]) = k
              BY <6>2 DEF BodyKey, Step
            <7>4. Open(k)'
              BY <7>1, <7>2, <7>3 DEF Open
            <7> QED
              BY <7>4 DEF Settled
          <6>3. k \in guards => Settled(k)'
            BY <1>1, <1>2, <1>3, <6>2 DEF GuardsInv
          <6> QED
            BY <1>1, <6>1, <6>3
        <5> QED
          BY <3>6, <5>1, <5>2
      <4> QED
        BY <4>2, <4>3
    <3> QED
      BY <3>1, <3>2, <3>3, <3>4, <3>5, <3>6, <3>7 DEF Moves
  <2> QED
    BY <2>1, <2>2
<1> QED
  BY <1>1, <1>2, <1>3, <1>4, <1>5 DEF Settled, Open

LEMMA CompleteMove ==
    ASSUME TypeOK, WorksInv, DoneInv, GuardsInv, CompleteInv,
           NEW w \in Works, Others(w), Moves(w), Typed'
    PROVE  CompleteInv'
<1>t. at \in [Works -> Nat] /\ at[w] \in Nat
  BY DEF TypeOK
<1> SUFFICES ASSUME NEW v \in Works, NEW i \in Nat, IsOnce(v, i),
                    i < at'[v] \/ row'[v] = "delivered"
             PROVE  Settled(Key(v, StepsOf(v)[i]))'
  BY DEF CompleteInv
<1> DEFINE k == Key(v, StepsOf(v)[i])
<1>k. /\ k \in Keys /\ k[2] = WorkMessage[v]
      /\ Len(StepsOf(v)) \in Nat /\ i \in 1 .. Len(StepsOf(v))
  BY StepsOfFacts DEF IsOnce, Key
<1>s. Settled(k) => Settled(k)'
  BY <1>k, SettledMove
<1>1. CASE i < at[v] \/ row[v] = "delivered"
  BY <1>1, <1>s DEF CompleteInv
<1>2. CASE v # w
  BY <1>1, <1>2 DEF Others
<1>3. CASE v = w /\ ~(i < at[w] \/ row[w] = "delivered")
  <2>1. CASE i < at'[w]
    <3>1. i = at[w] /\ at[w] > 0
      BY <1>t, <1>k, <1>3, <2>1, StepsOfFacts DEF Moves, Arrives, Requeues, Starts, Advances, Claims,
         Effects, Fails, Leaves, WorksInv, IsOnce
    <3>2. row[w] = "waiting"
      BY <3>1 DEF WorksInv
    <3>3. Open(k)
      BY <1>3, <3>1, <3>2 DEF Open
    <3> QED
      BY <1>s, <3>3 DEF Settled
  <2>2. CASE row'[w] = "delivered"
    <3>1. throttled' = throttled \cup {w}
      BY <1>t, <1>k, <1>3, <2>2 DEF Moves, Arrives, Requeues, Starts, Advances, Claims, Effects, Fails,
         Leaves, Stays
    <3> QED
      BY <1>k, <1>3, <3>1 DEF Settled
  <2> QED
    BY <1>3, <2>1, <2>2
<1> QED
  BY <1>1, <1>2, <1>3

LEMMA CompleteStep ==
    ASSUME TypeOK, WorksInv, DoneInv, GuardsInv, CompleteInv, [Next]_vars
    PROVE  CompleteInv'
<1>1. ASSUME NEW w \in Works, WorkStep(w)
      PROVE  CompleteInv'
  BY <1>1, MovesFacts, CompleteMove
<1>2. CASE Crash
  <2>1. /\ row' = row /\ at' = [w \in Works |-> 0] /\ done' = done
        /\ lost \subseteq lost' /\ throttled' = throttled
    BY <1>2 DEF Crash
  <2>2. ASSUME NEW k, Settled(k)
        PROVE  Settled(k)'
    <3>1. Open(k) => Open(k)'
      BY <2>1 DEF Open
    <3> QED
      BY <2>1, <2>2, <3>1 DEF Settled
  <2>3. ASSUME NEW w \in Works, NEW i \in Nat, IsOnce(w, i),
               i < at'[w] \/ row'[w] = "delivered"
        PROVE  Settled(Key(w, StepsOf(w)[i]))
    BY <2>1, <2>3 DEF CompleteInv
  <2> QED
    BY <2>2, <2>3 DEF CompleteInv
<1>3. CASE Elsewhere \/ UNCHANGED vars
  <2>1. UNCHANGED <<row, attempts, at, body, guards, done, lapses, lost, throttled>>
    BY <1>3, ElsewhereFacts
  <2> QED
    BY <2>1 DEF CompleteInv, Settled, Open
<1>4. ASSUME NEW k \in Keys, Lapse(k)
      PROVE  CompleteInv'
  <2>1. UNCHANGED <<row, attempts, at, body, done, lost, throttled>>
    BY <1>4, LapseFacts
  <2> QED
    BY <2>1 DEF CompleteInv, Settled, Open
<1> QED
  BY <1>1, <1>2, <1>3, <1>4 DEF Next, WorkStep, Elsewhere

(* A message whose works are all delivered has had its effects, but for    *)
(* those the throttle sent home and those whose guard outlived them.       *)
THEOREM AllEffects == Spec => []EffectsComplete
<1>1. Init => TypeOK /\ WorksInv
  BY InitFacts
<1>2. Init => DoneInv /\ GuardsInv /\ CompleteInv
  BY DEF Init, DoneInv, GuardsInv, CompleteInv
<1>3. /\ TypeOK /\ WorksInv /\ DoneInv /\ GuardsInv /\ CompleteInv /\ [Next]_vars
      => TypeOK' /\ WorksInv' /\ DoneInv' /\ GuardsInv' /\ CompleteInv'
  BY TypeStep, WorksStep, EffectsStep, CompleteStep
<1>4. CompleteInv => EffectsComplete
  <2> SUFFICES ASSUME CompleteInv, NEW w \in Works, MessageOver(w),
                      ~\E v \in throttled : WorkMessage[v] = WorkMessage[w],
                      NEW k \in KeysOf(w)
               PROVE  k[1] \in Optional \/ done[k] > 0 \/ k \in lost
    BY DEF EffectsComplete, EffectsDone
  <2>1. PICK i : IsOnce(w, i) /\ k = Key(w, StepsOf(w)[i])
    BY StepsOfFacts
  <2>2. i \in Nat /\ k[2] = WorkMessage[w]
    BY <2>1, StepsOfFacts DEF IsOnce, Key
  <2>3. Settled(k)
    BY <2>1, <2>2 DEF CompleteInv, MessageOver
  <2>4. ~Open(k)
    <3> SUFFICES ASSUME NEW u \in Works, NEW j \in Nat, Key(u, StepsOf(u)[j]) = k,
                        row[u] = "dead" \/ row[u] = "waiting"
                 PROVE  FALSE
      BY DEF Open
    <3>1. WorkMessage[u] = WorkMessage[w]
      BY <2>2 DEF Key
    <3> QED
      BY <3>1 DEF MessageOver
  <2> QED
    BY <2>2, <2>3, <2>4 DEF Settled
<1> QED
  BY <1>1, <1>2, <1>3, <1>4, PTL DEF Spec
=============================================================================
