----------------------- MODULE EventSubIngressProofs -----------------------
(***************************************************************************)
(* Theorems about EventSubIngress for any messages, any number of          *)
(* deliveries and faults, and any limits with a guard that lives no longer *)
(* than a message is accepted.                                             *)
(***************************************************************************)
EXTENDS EventSubIngress, TLAPS

(* A step of one delivery leaves all others where they are.                *)
LEMMA MovesOne ==
    ASSUME TypeOK, NEW m \in Messages, NEW i \in Deliveries,
           NEW from \in Stages, NEW to \in Stages, Moves(m, i, from, to)
    PROVE  /\ req[m][i] = from
           /\ req' \in [Messages -> [Deliveries -> Stages]]
           /\ \A n \in Messages, j \in Deliveries :
                req'[n][j] = IF n = m /\ j = i THEN to ELSE req[n][j]
  BY DEF TypeOK, Moves

(* The variables keep their types.                                         *)
THEOREM TypeCorrect == Spec => []TypeOK
<1> USE IngressAssumption
<1>1. Init => TypeOK
  BY DEF Init, TypeOK, Stages
<1>2. TypeOK /\ [Next]_vars => TypeOK'
  <2> SUFFICES ASSUME TypeOK, [Next]_vars PROVE TypeOK'
    OBVIOUS
  <2>1. ASSUME NEW m \in Messages, NEW i \in Deliveries, Deliver(m, i) PROVE TypeOK'
    <3>1. Moves(m, i, "unused", "received")
      BY <2>1 DEF Deliver
    <3>2. "unused" \in Stages /\ "received" \in Stages
      BY DEF Stages
    <3>3. req' \in [Messages -> [Deliveries -> Stages]]
      BY <3>1, <3>2, MovesOne
    <3> QED
      BY <2>1, <3>3 DEF Deliver, TypeOK
  <2>2. ASSUME NEW m \in Messages, NEW i \in Deliveries, Handle(m, i) PROVE TypeOK'
    <3> USE MovesOne DEF Stages, Answers, TypeOK
    <3>1. CASE Reject(m, i)
      BY <3>1 DEF Reject
    <3>2. CASE NotReady(m, i)
      BY <3>2 DEF NotReady
    <3>3. CASE Admit(m, i)
      BY <3>3 DEF Admit
    <3>4. CASE Claim(m, i)
      BY <3>4 DEF Claim, ClaimGuard
    <3>5. CASE Duplicate(m, i)
      BY <3>5 DEF Duplicate, Acknowledge
    <3>6. CASE ClaimFails(m, i)
      BY <3>6 DEF ClaimFails
    <3>7. CASE ClaimCut(m, i)
      BY <3>7 DEF ClaimCut, ClaimGuard
    <3>8. CASE Enqueue(m, i)
      BY <3>8 DEF Enqueue, Acknowledge
    <3>9. CASE RouteFails(m, i)
      BY <3>9 DEF RouteFails
    <3>10. CASE EnqueueLate(m, i)
      BY <3>10 DEF EnqueueLate
    <3>11. CASE Release(m, i)
      BY <3>11 DEF Release
    <3>12. CASE ReleaseFails(m, i)
      BY <3>12 DEF ReleaseFails
    <3> QED
      BY <2>2, <3>1, <3>2, <3>3, <3>4, <3>5, <3>6,
         <3>7, <3>8, <3>9, <3>10, <3>11, <3>12 DEF Handle, Serve, Insert
  <2>3. CASE SetDispatchActive
    BY <2>3 DEF SetDispatchActive, TypeOK
  <2>4. CASE Crash
    BY <2>4 DEF Crash, TypeOK, Stages, Answers
  <2>5. CASE Tick
    BY <2>5 DEF Tick, TypeOK
  <2>6. CASE UNCHANGED vars
    BY <2>6 DEF vars, TypeOK
  <2> QED
    BY <2>1, <2>2, <2>3, <2>4, <2>5, <2>6 DEF Next
<1> QED
  BY <1>1, <1>2, PTL DEF Spec

-----------------------------------------------------------------------------
(* Redeliveries of a young message. *)

(* The task of the delivery runs: it has claimed the guard.                *)
Routing(m, i) == req[m][i] \in {"claimed", "refused"}
Young(m)      == age[m] < MESSAGE_DEDUP_TTL_SECONDS - MaxSkew

(* While a message is young, a guard someone relies on has not expired, so *)
(* that at most one delivery is being routed, and none once a row is in.   *)
DedupFor(m) ==
    /\ ~Sent(m) => copies[m] <= late[m] /\ \A i \in Deliveries : req[m][i] = "unused"
    /\ Young(m) =>
         /\ copies[m] <= 1 + late[m]
         /\ \A i \in Deliveries : Routing(m, i) => copies[m] <= late[m]
         /\ \A i, j \in Deliveries : Routing(m, i) /\ Routing(m, j) => i = j
         /\ (copies[m] > late[m] \/ \E i \in Deliveries : Routing(m, i)) =>
              guard[m] + age[m] >= MESSAGE_DEDUP_TTL_SECONDS - MaxSkew

DedupInv == \A m \in Messages : DedupFor(m)

(* What a step of a delivery on its way means for these notions.           *)
LEMMA HandleMoves ==
    ASSUME TypeOK, NEW m \in Messages, NEW i \in Deliveries,
           NEW from \in Stages \ {"unused"}, NEW to \in Stages \ {"unused"},
           Moves(m, i, from, to)
    PROVE  /\ req[m][i] = from
           /\ \A n \in Messages : Sent(n)' = Sent(n)
           /\ \A n \in Messages, j \in Deliveries :
                /\ req'[n][j] = "unused" <=> req[n][j] = "unused"
                /\ Routing(n, j)' <=> IF n = m /\ j = i THEN to \in {"claimed", "refused"}
                                                        ELSE Routing(n, j)
<1>1. /\ req[m][i] = from
      /\ \A n \in Messages, j \in Deliveries :
           req'[n][j] = IF n = m /\ j = i THEN to ELSE req[n][j]
  BY MovesOne
<1>2. \A n \in Messages, j \in Deliveries : req'[n][j] = "unused" <=> req[n][j] = "unused"
  BY <1>1
<1>3. \A n \in Messages : Sent(n)' = Sent(n)
  BY <1>2, IngressAssumption DEF Sent, Deliveries
<1>4. \A n \in Messages, j \in Deliveries :
        Routing(n, j)' <=> IF n = m /\ j = i THEN to \in {"claimed", "refused"}
                                             ELSE Routing(n, j)
  BY <1>1 DEF Routing
<1> QED
  BY <1>1, <1>2, <1>3, <1>4

LEMMA DedupInvStep == TypeOK /\ DedupInv /\ [Next]_vars => DedupInv'
<1> SUFFICES ASSUME TypeOK, DedupInv, [Next]_vars, NEW n \in Messages
             PROVE  DedupFor(n)'
  BY DEF DedupInv
<1>0. DedupFor(n)
  BY DEF DedupInv
<1> USE IngressAssumption
<1>num. /\ age[n] \in Int /\ guard[n] \in Nat /\ copies[n] \in Nat /\ late[n] \in Nat
      /\ age[n] >= -MaxSkew
  BY DEF TypeOK
<1>1. ASSUME NEW m \in Messages, NEW i \in Deliveries, Deliver(m, i)
      PROVE  DedupFor(n)'
  <2>1. /\ req[m][i] = "unused"
        /\ \A j \in Deliveries : req'[n][j] = IF n = m /\ j = i THEN "received" ELSE req[n][j]
    <3>1. Moves(m, i, "unused", "received")
      BY <1>1 DEF Deliver
    <3>2. "unused" \in Stages /\ "received" \in Stages
      BY DEF Stages
    <3> QED
      BY <3>1, <3>2, MovesOne
  <2>2. UNCHANGED <<age, guard, copies, late>> /\ (i > 1 => req[m][i - 1] # "unused")
    BY <1>1 DEF Deliver
  <2>3. \A j \in Deliveries : Routing(n, j)' <=> Routing(n, j)
    BY <2>1 DEF Routing
  <2>4. i > 1 => Sent(m)
    BY <1>1, <2>2 DEF DedupInv, DedupFor, Deliveries
  <2>5. ~Sent(n)' => ~Sent(n) /\ n # m
    BY <2>1, <2>4 DEF Sent, Deliveries
  <2>6. ~Sent(n)' => copies[n] <= late[n] /\ \A j \in Deliveries : req'[n][j] = "unused"
    BY <1>0, <2>1, <2>5 DEF DedupFor
  <2> QED
    BY <1>0, <2>2, <2>3, <2>6 DEF DedupFor, Young
<1>2. ASSUME NEW m \in Messages, NEW i \in Deliveries, Handle(m, i)
      PROVE  DedupFor(n)'
  <2>1. CASE Reject(m, i) \/ NotReady(m, i) \/ Admit(m, i) \/ Duplicate(m, i) \/ ClaimFails(m, i)
    <3>1. PICK from \in {"received", "admitted"}, to \in {"admitted", "204", "503", "403"} :
             Moves(m, i, from, to)
      BY <2>1 DEF Reject, NotReady, Admit, Duplicate, ClaimFails
    <3>2. UNCHANGED <<age, guard, copies, late>>
      BY <2>1 DEF Reject, NotReady, Admit, Duplicate, ClaimFails
    <3>3. from \in Stages \ {"unused"} /\ to \in Stages \ {"unused"}
      BY DEF Stages, Answers
    <3>4. /\ Sent(n)' = Sent(n)
          /\ \A j \in Deliveries : /\ req'[n][j] = "unused" <=> req[n][j] = "unused"
                                   /\ Routing(n, j)' <=> Routing(n, j)
      BY <3>1, <3>3, HandleMoves DEF Routing
    <3> QED
      BY <1>0, <3>2, <3>4 DEF DedupFor, Young
  <2>2. CASE Claim(m, i) \/ ClaimCut(m, i)
    <3>1. PICK to \in {"claimed", "cut"} : Moves(m, i, "admitted", to)
      BY <2>2 DEF Claim, ClaimCut
    <3>2. /\ UNCHANGED <<age, copies, late>>
          /\ guard[m] = 0
          /\ guard'[n] = IF n = m THEN MESSAGE_DEDUP_TTL_SECONDS ELSE guard[n]
      BY <2>2 DEF Claim, ClaimCut, ClaimGuard, TypeOK
    <3>3. /\ Sent(n)' = Sent(n)
          /\ req[m][i] = "admitted"
          /\ \A j \in Deliveries :
               /\ req'[n][j] = "unused" <=> req[n][j] = "unused"
               /\ Routing(n, j)' => Routing(n, j) \/ (n = m /\ j = i)
      <4>1. "admitted" \in Stages \ {"unused"} /\ to \in Stages \ {"unused"}
        BY DEF Stages, Answers
      <4> QED
        BY <3>1, <4>1, HandleMoves
    <3>4. CASE n = m
      <4>1. Young(n) => copies[n] <= late[n] /\ \A j \in Deliveries : ~Routing(n, j)
        BY <1>0, <1>num, <3>2, <3>4 DEF DedupFor, Young
      <4> QED
        BY <1>0, <1>num, <3>2, <3>3, <3>4, <4>1 DEF DedupFor, Young
    <3>5. CASE n # m
      <4>1. \A j \in Deliveries : Routing(n, j)' <=> Routing(n, j)
        <5>1. "admitted" \in Stages \ {"unused"} /\ to \in Stages \ {"unused"}
          BY DEF Stages, Answers
        <5> QED
          BY <3>1, <3>5, <5>1, HandleMoves
      <4> QED
        BY <1>0, <3>2, <3>3, <3>5, <4>1 DEF DedupFor, Young
    <3> QED
      BY <3>4, <3>5
  <2>3. CASE Enqueue(m, i)
    <3>1. Moves(m, i, "claimed", "204") /\ UNCHANGED <<age, guard, late>>
      BY <2>3 DEF Enqueue
    <3>2. "claimed" \in Stages \ {"unused"} /\ "204" \in Stages \ {"unused"}
      BY DEF Stages, Answers
    <3>3. /\ Sent(n)' = Sent(n)
          /\ req[m][i] = "claimed"
          /\ \A j \in Deliveries :
               /\ req'[n][j] = "unused" <=> req[n][j] = "unused"
               /\ Routing(n, j)' <=> Routing(n, j) /\ ~(n = m /\ j = i)
      BY <3>1, <3>2, HandleMoves
    <3>4. copies'[n] = IF n = m THEN copies[n] + 1 ELSE copies[n]
      BY <2>3 DEF Enqueue, TypeOK
    <3>5. Routing(m, i) /\ Sent(m)
      BY <3>3 DEF Routing, DedupInv, DedupFor
    <3>6. CASE n = m
      <4>1. Young(n) =>
              /\ copies[n] <= late[n]
              /\ guard[n] + age[n] >= MESSAGE_DEDUP_TTL_SECONDS - MaxSkew
              /\ \A j \in Deliveries : ~Routing(n, j)'
        BY <1>0, <3>3, <3>5, <3>6 DEF DedupFor
      <4>2. Sent(n)'
        BY <3>3, <3>5, <3>6
      <4>3. Young(n)' = Young(n) /\ copies'[n] = copies[n] + 1 /\ late'[n] = late[n]
            /\ guard'[n] = guard[n] /\ age'[n] = age[n]
        BY <3>1, <3>4, <3>6 DEF Young
      <4> QED
        BY <1>num, <4>1, <4>2, <4>3 DEF DedupFor
    <3>7. CASE n # m
      BY <1>0, <3>1, <3>3, <3>4, <3>7 DEF DedupFor, Young
    <3> QED
      BY <3>6, <3>7
  <2>4. CASE RouteFails(m, i) \/ EnqueueLate(m, i)
    <3>1. Moves(m, i, "claimed", "refused") /\ UNCHANGED <<age, guard>>
      BY <2>4 DEF RouteFails, EnqueueLate
    <3>2. "claimed" \in Stages \ {"unused"} /\ "refused" \in Stages \ {"unused"}
      BY DEF Stages, Answers
    <3>3. /\ Sent(n)' = Sent(n)
          /\ \A j \in Deliveries :
               /\ req'[n][j] = "unused" <=> req[n][j] = "unused"
               /\ Routing(n, j)' <=> IF n = m /\ j = i THEN TRUE ELSE Routing(n, j)
          /\ req[m][i] = "claimed"
      BY <3>1, <3>2, HandleMoves
    <3>4. Routing(m, i) /\ Sent(m)
      BY <3>3 DEF Routing, DedupInv, DedupFor
    <3>5. \A j \in Deliveries : Routing(n, j)' <=> Routing(n, j)
      BY <3>3, <3>4
    <3>6. \/ copies'[n] = copies[n] /\ late'[n] = late[n]
          \/ copies'[n] = copies[n] + 1 /\ late'[n] = late[n] + 1
      BY <1>num, <2>4 DEF RouteFails, EnqueueLate, TypeOK
    <3>7. Young(n)' = Young(n) /\ guard'[n] = guard[n] /\ age'[n] = age[n]
      BY <3>1 DEF Young
    <3>8. n # m => copies'[n] = copies[n] /\ late'[n] = late[n]
      BY <2>4 DEF RouteFails, EnqueueLate, TypeOK
    <3> QED
      BY <1>0, <1>num, <3>3, <3>4, <3>5, <3>6, <3>7, <3>8 DEF DedupFor
  <2>5. CASE Release(m, i) \/ ReleaseFails(m, i)
    <3>1. Moves(m, i, "refused", "503")
      BY <2>5 DEF Release, ReleaseFails
    <3>2. /\ Sent(n)' = Sent(n)
          /\ Routing(m, i)
          /\ \A j \in Deliveries :
               /\ req'[n][j] = "unused" <=> req[n][j] = "unused"
               /\ Routing(n, j)' <=> Routing(n, j) /\ ~(n = m /\ j = i)
      <4>1. "refused" \in Stages \ {"unused"} /\ "503" \in Stages \ {"unused"}
        BY DEF Stages, Answers
      <4>2. req[m][i] = "refused"
        BY <3>1, <4>1, HandleMoves
      <4> QED
        BY <3>1, <4>1, <4>2, HandleMoves DEF Routing
    <3>3. UNCHANGED <<age, copies, late>> /\ guard'[n] \in {guard[n], IF n = m THEN 0 ELSE guard[n]}
      BY <2>5 DEF Release, ReleaseFails, TypeOK
    <3>4. CASE n = m
      <4>1. Young(n) => copies[n] <= late[n] /\ \A j \in Deliveries : ~Routing(n, j)'
        BY <1>0, <3>2, <3>4 DEF DedupFor
      <4> QED
        BY <1>0, <1>num, <3>2, <3>3, <4>1 DEF DedupFor, Young
    <3>5. CASE n # m
      BY <1>0, <3>2, <3>3, <3>5 DEF DedupFor, Young
    <3> QED
      BY <3>4, <3>5
  <2> QED
    BY <1>2, <2>1, <2>2, <2>3, <2>4, <2>5 DEF Handle, Serve, Insert
<1>3. CASE SetDispatchActive
  BY <1>0, <1>3 DEF SetDispatchActive, DedupFor, Young, Routing, Sent
<1>4. CASE Crash
  <2>1. \A j \in Deliveries :
          req'[n][j] = IF j \in Pending(n) THEN "cut" ELSE req[n][j]
    BY <1>4 DEF Crash
  <2>2. \A j \in Deliveries : /\ req'[n][j] = "unused" <=> req[n][j] = "unused"
                              /\ ~Routing(n, j)'
    BY <2>1 DEF Pending, Routing
  <2>3. Sent(n)' = Sent(n)
    BY <2>2 DEF Sent, Deliveries
  <2>4. UNCHANGED <<age, guard, copies, late>>
    BY <1>4 DEF Crash
  <2> QED
    BY <1>0, <2>2, <2>3, <2>4 DEF DedupFor, Young
<1>5. CASE Tick
  <2>1. /\ UNCHANGED <<req, copies, late>>
        /\ guard'[n] = IF guard[n] > 0 THEN guard[n] - 1 ELSE 0
        /\ age'[n] = IF Sent(n) /\ age[n] <= MAX_MESSAGE_AGE_SECONDS
                     THEN age[n] + 1 ELSE age[n]
    BY <1>5 DEF Tick
  <2>2. Sent(n)' = Sent(n) /\ \A j \in Deliveries : Routing(n, j)' <=> Routing(n, j)
    BY <2>1 DEF Sent, Routing
  <2>3. CASE Sent(n)
    <3>1. Young(n)' => Young(n) /\ age'[n] = age[n] + 1
      BY <1>num, <2>1, <2>3 DEF Young
    <3> QED
      BY <1>0, <1>num, <2>1, <2>2, <2>3, <3>1 DEF DedupFor, Young
  <2>4. CASE ~Sent(n)
    <3>1. \A j \in Deliveries : ~Routing(n, j)
      BY <1>0, <2>4 DEF DedupFor, Routing
    <3> QED
      BY <1>0, <1>num, <2>1, <2>2, <2>4, <3>1 DEF DedupFor, Young
  <2> QED
    BY <2>3, <2>4
<1>6. CASE UNCHANGED vars
  BY <1>0, <1>6 DEF vars, DedupFor, Young, Routing, Sent
<1> QED
  BY <1>1, <1>2, <1>3, <1>4, <1>5, <1>6 DEF Next

(* While a message is younger than a guard lives, it gets into the inbox   *)
(* once, not counting inserts that were written and reported as failed.    *)
THEOREM NoSecondRow == Spec => []DedupWhileYoung
<1>1. Init => DedupInv
  BY IngressAssumption DEF Init, DedupInv, DedupFor, Young, Routing, Sent, Deliveries
<1>2. DedupInv => DedupWhileYoung
  BY DEF DedupInv, DedupFor, DedupWhileYoung, Young
<1> QED
  BY <1>1, <1>2, DedupInvStep, TypeCorrect, PTL DEF Spec

-----------------------------------------------------------------------------
(* Messages whose deliveries were neither cut off nor overlapped. *)

(* They are delivered one at a time, and a guard stands for a delivery     *)
(* that is being routed or for a row.                                      *)
CalmFor(m) ==
    m \notin troubled =>
      /\ \A i, j \in Pending(m) : i = j
      /\ guard[m] > 0 /\ copies[m] = 0 => \E i \in Deliveries : Routing(m, i)
      /\ m \in acked => copies[m] > 0

CalmInv == \A m \in Messages : CalmFor(m)

LEMMA HandlePending ==
    ASSUME TypeOK, NEW m \in Messages, NEW i \in Deliveries,
           NEW from \in Stages \ {"unused"}, NEW to \in Stages \ {"unused"},
           Moves(m, i, from, to)
    PROVE  from \in {"received", "admitted", "claimed", "refused"} =>
             i \in Pending(m) /\ \A n \in Messages : Pending(n)' \subseteq Pending(n)
<1>1. /\ req[m][i] = from
      /\ \A n \in Messages, j \in Deliveries :
           req'[n][j] = IF n = m /\ j = i THEN to ELSE req[n][j]
  BY MovesOne
<1> QED
  BY <1>1 DEF Pending

LEMMA CalmInvStep == TypeOK /\ CalmInv /\ [Next]_vars => CalmInv'
<1> SUFFICES ASSUME TypeOK, CalmInv, [Next]_vars, NEW n \in Messages
             PROVE  CalmFor(n)'
  BY DEF CalmInv
<1>0. CalmFor(n)
  BY DEF CalmInv
<1>num. guard[n] \in Nat /\ copies[n] \in Nat
  BY DEF TypeOK
<1>1. ASSUME NEW m \in Messages, NEW i \in Deliveries, Deliver(m, i)
      PROVE  CalmFor(n)'
  <2>1. Moves(m, i, "unused", "received")
    BY <1>1 DEF Deliver
  <2>2. "unused" \in Stages /\ "received" \in Stages
    BY DEF Stages
  <2>3. /\ req[m][i] = "unused"
        /\ \A j \in Deliveries :
             req'[n][j] = IF n = m /\ j = i THEN "received" ELSE req[n][j]
    BY <2>1, <2>2, MovesOne
  <2>4. \A j \in Deliveries : Routing(n, j)' <=> Routing(n, j)
    BY <2>3 DEF Routing
  <2>5. Pending(n)' = IF n = m THEN Pending(n) \cup {i} ELSE Pending(n)
    BY <2>3 DEF Pending
  <2>6. /\ UNCHANGED <<guard, copies, acked>>
        /\ troubled' = IF Pending(m) # {} THEN troubled \cup {m} ELSE troubled
    BY <1>1 DEF Deliver
  <2> QED
    BY <1>0, <2>4, <2>5, <2>6 DEF CalmFor
<1>2. ASSUME NEW m \in Messages, NEW i \in Deliveries, Handle(m, i)
      PROVE  CalmFor(n)'
  <2>1. CASE Reject(m, i)
    <3>1. Moves(m, i, "received", "403")
      BY <2>1 DEF Reject
    <3>2. "received" \in Stages \ {"unused"} /\ "403" \in Stages \ {"unused"}
      BY DEF Stages, Answers
    <3>3. /\ req[m][i] = "received" /\ i \in Pending(m)
          /\ Pending(n)' \subseteq Pending(n)
          /\ \A j \in Deliveries :
               Routing(n, j)' <=> IF n = m /\ j = i THEN FALSE ELSE Routing(n, j)
      BY <3>1, <3>2, HandleMoves, HandlePending
    <3>4. UNCHANGED <<guard, copies, acked, troubled>>
      BY <2>1 DEF Reject
    <3>5. ~Routing(m, i)
      BY <3>3 DEF Routing
    <3> QED
      BY <1>0, <3>3, <3>4, <3>5 DEF CalmFor
  <2>2. CASE NotReady(m, i)
    <3>1. Moves(m, i, "received", "503")
      BY <2>2 DEF NotReady
    <3>2. "received" \in Stages \ {"unused"} /\ "503" \in Stages \ {"unused"}
      BY DEF Stages, Answers
    <3>3. /\ req[m][i] = "received" /\ i \in Pending(m)
          /\ Pending(n)' \subseteq Pending(n)
          /\ \A j \in Deliveries :
               Routing(n, j)' <=> IF n = m /\ j = i THEN FALSE ELSE Routing(n, j)
      BY <3>1, <3>2, HandleMoves, HandlePending
    <3>4. UNCHANGED <<guard, copies, acked, troubled>>
      BY <2>2 DEF NotReady
    <3>5. ~Routing(m, i)
      BY <3>3 DEF Routing
    <3> QED
      BY <1>0, <3>3, <3>4, <3>5 DEF CalmFor
  <2>3. CASE Admit(m, i)
    <3>1. Moves(m, i, "received", "admitted")
      BY <2>3 DEF Admit
    <3>2. "received" \in Stages \ {"unused"} /\ "admitted" \in Stages \ {"unused"}
      BY DEF Stages, Answers
    <3>3. /\ req[m][i] = "received" /\ i \in Pending(m)
          /\ Pending(n)' \subseteq Pending(n)
          /\ \A j \in Deliveries :
               Routing(n, j)' <=> IF n = m /\ j = i THEN FALSE ELSE Routing(n, j)
      BY <3>1, <3>2, HandleMoves, HandlePending
    <3>4. UNCHANGED <<guard, copies, acked, troubled>>
      BY <2>3 DEF Admit
    <3>5. ~Routing(m, i)
      BY <3>3 DEF Routing
    <3> QED
      BY <1>0, <3>3, <3>4, <3>5 DEF CalmFor
  <2>4. CASE ClaimFails(m, i)
    <3>1. Moves(m, i, "admitted", "503")
      BY <2>4 DEF ClaimFails
    <3>2. "admitted" \in Stages \ {"unused"} /\ "503" \in Stages \ {"unused"}
      BY DEF Stages, Answers
    <3>3. /\ req[m][i] = "admitted" /\ i \in Pending(m)
          /\ Pending(n)' \subseteq Pending(n)
          /\ \A j \in Deliveries :
               Routing(n, j)' <=> IF n = m /\ j = i THEN FALSE ELSE Routing(n, j)
      BY <3>1, <3>2, HandleMoves, HandlePending
    <3>4. UNCHANGED <<guard, copies, acked, troubled>>
      BY <2>4 DEF ClaimFails
    <3>5. ~Routing(m, i)
      BY <3>3 DEF Routing
    <3> QED
      BY <1>0, <3>3, <3>4, <3>5 DEF CalmFor
  <2>5. CASE Claim(m, i)
    <3>1. Moves(m, i, "admitted", "claimed")
      BY <2>5 DEF Claim
    <3>2. "admitted" \in Stages \ {"unused"} /\ "claimed" \in Stages \ {"unused"}
      BY DEF Stages, Answers
    <3>3. /\ req[m][i] = "admitted" /\ i \in Pending(m)
          /\ Pending(n)' \subseteq Pending(n)
          /\ \A j \in Deliveries :
               Routing(n, j)' <=> IF n = m /\ j = i THEN TRUE ELSE Routing(n, j)
      BY <3>1, <3>2, HandleMoves, HandlePending
    <3>4. /\ UNCHANGED <<copies, acked, troubled>>
          /\ n # m => guard'[n] = guard[n]
      BY <2>5 DEF Claim, ClaimGuard, TypeOK
    <3> QED
      BY <1>0, <1>num, <3>3, <3>4 DEF CalmFor
  <2>6. CASE Duplicate(m, i)
    <3>1. Moves(m, i, "admitted", "204")
      BY <2>6 DEF Duplicate
    <3>2. "admitted" \in Stages \ {"unused"} /\ "204" \in Stages \ {"unused"}
      BY DEF Stages, Answers
    <3>3. /\ req[m][i] = "admitted" /\ i \in Pending(m)
          /\ Pending(n)' \subseteq Pending(n)
          /\ \A j \in Deliveries :
               Routing(n, j)' <=> IF n = m /\ j = i THEN FALSE ELSE Routing(n, j)
      BY <3>1, <3>2, HandleMoves, HandlePending
    <3>4. /\ UNCHANGED <<guard, copies, troubled>>
          /\ guard[m] > 0 /\ acked' \in {acked, acked \cup {m}}
      BY <2>6 DEF Duplicate, Acknowledge
    <3>5. \A j \in Deliveries : Routing(n, j) => j \in Pending(n)
      BY DEF Routing, Pending
    <3>6. ~Routing(m, i)
      BY <3>3 DEF Routing
    <3> QED
      BY <1>0, <1>num, <3>3, <3>4, <3>5, <3>6 DEF CalmFor
  <2>7. CASE ClaimCut(m, i)
    <3>1. Moves(m, i, "admitted", "cut")
      BY <2>7 DEF ClaimCut
    <3>2. "admitted" \in Stages \ {"unused"} /\ "cut" \in Stages \ {"unused"}
      BY DEF Stages, Answers
    <3>3. /\ req[m][i] = "admitted" /\ i \in Pending(m)
          /\ Pending(n)' \subseteq Pending(n)
          /\ \A j \in Deliveries :
               Routing(n, j)' <=> IF n = m /\ j = i THEN FALSE ELSE Routing(n, j)
      BY <3>1, <3>2, HandleMoves, HandlePending
    <3>4. /\ UNCHANGED <<copies, acked>> /\ troubled' = troubled \cup {m}
          /\ n # m => guard'[n] = guard[n]
      BY <2>7 DEF ClaimCut, ClaimGuard, TypeOK
    <3> QED
      BY <1>0, <1>num, <3>3, <3>4 DEF CalmFor
  <2>8. CASE Enqueue(m, i)
    <3>1. Moves(m, i, "claimed", "204")
      BY <2>8 DEF Enqueue
    <3>2. "claimed" \in Stages \ {"unused"} /\ "204" \in Stages \ {"unused"}
      BY DEF Stages, Answers
    <3>3. /\ req[m][i] = "claimed" /\ i \in Pending(m)
          /\ Pending(n)' \subseteq Pending(n)
          /\ \A j \in Deliveries :
               Routing(n, j)' <=> IF n = m /\ j = i THEN FALSE ELSE Routing(n, j)
      BY <3>1, <3>2, HandleMoves, HandlePending
    <3>4. /\ UNCHANGED <<guard, troubled>> /\ acked' \in {acked, acked \cup {m}}
          /\ copies'[n] = IF n = m THEN copies[n] + 1 ELSE copies[n]
      BY <2>8 DEF Enqueue, Acknowledge, TypeOK
    <3> QED
      BY <1>0, <1>num, <3>3, <3>4 DEF CalmFor
  <2>9. CASE RouteFails(m, i)
    <3>1. Moves(m, i, "claimed", "refused")
      BY <2>9 DEF RouteFails
    <3>2. "claimed" \in Stages \ {"unused"} /\ "refused" \in Stages \ {"unused"}
      BY DEF Stages, Answers
    <3>3. /\ req[m][i] = "claimed" /\ i \in Pending(m)
          /\ Pending(n)' \subseteq Pending(n)
          /\ \A j \in Deliveries :
               Routing(n, j)' <=> IF n = m /\ j = i THEN TRUE ELSE Routing(n, j)
      BY <3>1, <3>2, HandleMoves, HandlePending
    <3>4. UNCHANGED <<guard, copies, acked, troubled>>
      BY <2>9 DEF RouteFails
    <3>5. Routing(m, i)
      BY <3>3 DEF Routing
    <3> QED
      BY <1>0, <3>3, <3>4, <3>5 DEF CalmFor
  <2>10. CASE EnqueueLate(m, i)
    <3>1. Moves(m, i, "claimed", "refused")
      BY <2>10 DEF EnqueueLate
    <3>2. "claimed" \in Stages \ {"unused"} /\ "refused" \in Stages \ {"unused"}
      BY DEF Stages, Answers
    <3>3. /\ req[m][i] = "claimed" /\ i \in Pending(m)
          /\ Pending(n)' \subseteq Pending(n)
          /\ \A j \in Deliveries :
               Routing(n, j)' <=> IF n = m /\ j = i THEN TRUE ELSE Routing(n, j)
      BY <3>1, <3>2, HandleMoves, HandlePending
    <3>4. /\ UNCHANGED <<guard, acked, troubled>>
          /\ copies'[n] = IF n = m THEN copies[n] + 1 ELSE copies[n]
      BY <2>10 DEF EnqueueLate, TypeOK
    <3> QED
      BY <1>0, <1>num, <3>3, <3>4 DEF CalmFor
  <2>11. CASE Release(m, i)
    <3>1. Moves(m, i, "refused", "503")
      BY <2>11 DEF Release
    <3>2. "refused" \in Stages \ {"unused"} /\ "503" \in Stages \ {"unused"}
      BY DEF Stages, Answers
    <3>3. /\ req[m][i] = "refused" /\ i \in Pending(m)
          /\ Pending(n)' \subseteq Pending(n)
          /\ \A j \in Deliveries :
               Routing(n, j)' <=> IF n = m /\ j = i THEN FALSE ELSE Routing(n, j)
      BY <3>1, <3>2, HandleMoves, HandlePending
    <3>4. /\ UNCHANGED <<copies, acked, troubled>>
          /\ guard'[n] = IF n = m THEN 0 ELSE guard[n]
      BY <2>11 DEF Release, TypeOK
    <3> QED
      BY <1>0, <1>num, <3>3, <3>4 DEF CalmFor
  <2>12. CASE ReleaseFails(m, i)
    <3>1. Moves(m, i, "refused", "503")
      BY <2>12 DEF ReleaseFails
    <3>2. "refused" \in Stages \ {"unused"} /\ "503" \in Stages \ {"unused"}
      BY DEF Stages, Answers
    <3>3. /\ req[m][i] = "refused" /\ i \in Pending(m)
          /\ Pending(n)' \subseteq Pending(n)
          /\ \A j \in Deliveries :
               Routing(n, j)' <=> IF n = m /\ j = i THEN FALSE ELSE Routing(n, j)
      BY <3>1, <3>2, HandleMoves, HandlePending
    <3>4. UNCHANGED <<guard, copies, acked>> /\ troubled' = troubled \cup {m}
      BY <2>12 DEF ReleaseFails
    <3> QED
      BY <1>0, <1>num, <3>3, <3>4 DEF CalmFor
  <2> QED
    BY <1>2, <2>1, <2>2, <2>3, <2>4, <2>5, <2>6, <2>7, <2>8, <2>9,
       <2>10, <2>11, <2>12 DEF Handle, Serve, Insert
<1>3. CASE SetDispatchActive
  BY <1>0, <1>3 DEF SetDispatchActive, CalmFor, Pending, Routing
<1>4. CASE Crash
  <2>1. /\ UNCHANGED <<guard, copies, acked>>
        /\ troubled' = troubled \cup {m \in Messages : Pending(m) # {}}
        /\ \A j \in Deliveries :
             req'[n][j] = IF j \in Pending(n) THEN "cut" ELSE req[n][j]
    BY <1>4 DEF Crash
  <2>2. n \notin troubled' => n \notin troubled /\ Pending(n) = {}
    BY <2>1
  <2>3. Pending(n) = {} => Pending(n)' = {}
    BY <2>1 DEF Pending
  <2>4. Pending(n) = {} => \A j \in Deliveries : Routing(n, j)' <=> Routing(n, j)
    BY <2>1 DEF Routing
  <2> QED
    BY <1>0, <2>1, <2>2, <2>3, <2>4 DEF CalmFor
<1>5. CASE Tick
  <2>1. /\ UNCHANGED <<req, copies, acked, troubled>>
        /\ guard'[n] = IF guard[n] > 0 THEN guard[n] - 1 ELSE 0
    BY <1>5 DEF Tick
  <2>2. Pending(n)' = Pending(n) /\ \A j \in Deliveries : Routing(n, j)' <=> Routing(n, j)
    BY <2>1 DEF Pending, Routing
  <2> QED
    BY <1>0, <1>num, <2>1, <2>2 DEF CalmFor
<1>6. CASE UNCHANGED vars
  BY <1>0, <1>6 DEF vars, CalmFor, Pending, Routing
<1> QED
  BY <1>1, <1>2, <1>3, <1>4, <1>5, <1>6 DEF Next

LEMMA CalmInvariant == Spec => []CalmInv
<1>1. Init => CalmInv
  BY DEF Init, CalmInv, CalmFor, Pending
<1> QED
  BY <1>1, CalmInvStep, TypeCorrect, PTL DEF Spec

(* What Twitch is told was taken is in the inbox, when no delivery of the  *)
(* message was cut off, overlapped another or left its guard behind.       *)
THEOREM CalmAckIsDurable == Spec => []AckedUnlessTroubled
<1>1. TypeOK /\ CalmInv => AckedUnlessTroubled
  BY DEF TypeOK, CalmInv, CalmFor, AckedUnlessTroubled
<1> QED
  BY <1>1, CalmInvariant, TypeCorrect, PTL

(* Under the same condition the delivery after an error can claim.         *)
THEOREM CalmRetryIsTaken == Spec => []RetryNotBlocked
<1>1. TypeOK /\ CalmInv => RetryNotBlocked
  BY DEF TypeOK, CalmInv, CalmFor, RetryNotBlocked, Routing, Pending
<1> QED
  BY <1>1, CalmInvariant, TypeCorrect, PTL
=============================================================================
