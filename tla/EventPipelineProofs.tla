------------------------ MODULE EventPipelineProofs ------------------------
(***************************************************************************)
(* Theorems about EventPipeline, for any messages, deliveries, works,      *)
(* workers, limits and numbers of faults.  A behaviour of the pipeline is  *)
(* one of the ingress and one of the inbox, so that what is proved of      *)
(* these holds in it; an invariant about the message column joins the two. *)
(***************************************************************************)
EXTENDS EventPipeline, EventSubIngressProofs, FiniteSetTheorems

(* The inbox with its theorems. *)
BoxP == INSTANCE EventSubInboxProofs
            WITH MaxFaults <- MaxBoxFaults, faults <- boxFaults

LEMMA BoxAssumptions ==
    BoxP!WorkerAssumption /\ BoxP!InboxAssumption /\ BoxP!DelayAssumption
  BY BoxAssumption
     DEF Box!WorkerAssumption, Box!InboxAssumption, Box!DelayAssumption,
         Box!RetryDelay, BoxP!WorkerAssumption, BoxP!InboxAssumption, BoxP!DelayAssumption,
         BoxP!RetryDelay

(* Box and BoxP are two instances of one module: their actions, initial    *)
(* states and type invariants are the same.                                *)
LEMMA SameNext == Box!Next <=> BoxP!Next
<1> USE DEF Box!tables, BoxP!tables, Box!workers, BoxP!workers,
            Box!bounds, BoxP!bounds, Box!history, BoxP!history
<1>1. \A k : Box!Enqueue(k) <=> BoxP!Enqueue(k)
  BY DEF Box!Enqueue, BoxP!Enqueue, Box!InsertRow, BoxP!InsertRow
<1>2. \A k : Box!RequeueDeadLetter(k) <=> BoxP!RequeueDeadLetter(k)
  BY DEF Box!RequeueDeadLetter, BoxP!RequeueDeadLetter, Box!InsertRow, BoxP!InsertRow
<1>3. \A w : Box!Lease(w) <=> BoxP!Lease(w)
  BY DEF Box!Lease, BoxP!Lease, Box!Due, BoxP!Due, Box!Oldest, BoxP!Oldest,
         Box!TakeBatch, BoxP!TakeBatch, Box!Cardinality, BoxP!Cardinality,
         Box!IsFiniteSet, BoxP!IsFiniteSet
<1>4. \A w : Box!Start(w) <=> BoxP!Start(w)
  BY DEF Box!Start, BoxP!Start
<1>5. \A w : Box!NextWork(w) <=> BoxP!NextWork(w)
  BY DEF Box!NextWork, BoxP!NextWork
<1>6. \A w : Box!EndBatch(w) <=> BoxP!EndBatch(w)
  BY DEF Box!EndBatch, BoxP!EndBatch
<1>7. \A w : Box!HandlerOk(w) <=> BoxP!HandlerOk(w)
  BY DEF Box!HandlerOk, BoxP!HandlerOk
<1>8. \A w : Box!HandlerErr(w) <=> BoxP!HandlerErr(w)
  BY DEF Box!HandlerErr, BoxP!HandlerErr
<1>9. \A w : Box!Settle(w) <=> BoxP!Settle(w)
  BY DEF Box!Settle, BoxP!Settle, Box!MarkDelivered, BoxP!MarkDelivered,
         Box!MarkRetry, BoxP!MarkRetry, Box!MarkDeadLetter, BoxP!MarkDeadLetter,
         Box!DeleteRow, BoxP!DeleteRow, Box!Settled, BoxP!Settled,
         Box!RetryDelay, BoxP!RetryDelay
<1>10. \A w : Box!MarkFails(w) <=> BoxP!MarkFails(w)
  BY DEF Box!MarkFails, BoxP!MarkFails, Box!Settled, BoxP!Settled
<1>11. \A w : Box!Shutdown(w) <=> BoxP!Shutdown(w)
  BY DEF Box!Shutdown, BoxP!Shutdown
<1>12. \A w : Box!Stopped(w) <=> BoxP!Stopped(w)
  BY DEF Box!Stopped, BoxP!Stopped
<1>13. \A w : Box!Crash(w) <=> BoxP!Crash(w)
  BY DEF Box!Crash, BoxP!Crash
<1>14. Box!Tick <=> BoxP!Tick
  BY DEF Box!Tick, BoxP!Tick, Box!Less, BoxP!Less, Box!Holding, BoxP!Holding
<1> QED
  BY <1>1, <1>2, <1>3, <1>4, <1>5, <1>6, <1>7, <1>8, <1>9, <1>10, <1>11, <1>12,
     <1>13, <1>14
     DEF Box!Next, BoxP!Next, Box!Progress, BoxP!Progress, Box!Fault, BoxP!Fault

LEMMA SameInit == Box!Init <=> BoxP!Init
  BY DEF Box!Init, BoxP!Init

LEMMA SameTypes == Box!TypeOK <=> BoxP!TypeOK
  BY DEF Box!TypeOK, BoxP!TypeOK, Box!Attempts, BoxP!Attempts,
         Box!Phases, BoxP!Phases, Box!LeasedWork, BoxP!LeasedWork

-----------------------------------------------------------------------------
(* The two parts. *)

(* A step of the pipeline is a step of the ingress or leaves it alone.     *)
LEMMA IngressSteps == [PipelineNext]_pipelineVars => [Next]_vars
  BY DEF PipelineNext, pipelineVars, Write, ProcessCrash, IngressStep, BoxStep,
         PipelineTick, Next, Handle

(* A step of the pipeline is a step of the inbox or leaves it alone.       *)
LEMMA BoxSteps == [PipelineNext]_pipelineVars => [BoxP!Next]_BoxP!vars
<1> SUFFICES ASSUME [PipelineNext]_pipelineVars PROVE Box!Next \/ UNCHANGED boxVars
  BY SameNext DEF boxVars, BoxP!vars, BoxP!tables, BoxP!workers, BoxP!bounds, BoxP!history
<1>1. ASSUME NEW m \in Messages, NEW i \in Deliveries, NEW k \in Works, Write(m, i, k)
      PROVE  Box!Next
  BY <1>1 DEF Write, Box!Next
<1>2. CASE ProcessCrash
  BY <1>2, PipelineAssumption DEF ProcessCrash, Box!Next, Box!Fault
<1>3. CASE IngressStep
  BY <1>3 DEF IngressStep
<1>4. CASE BoxStep
  BY <1>4 DEF BoxStep, Box!Next, Box!Fault
<1>5. CASE PipelineTick
  BY <1>5 DEF PipelineTick, Box!Next
<1> QED
  BY <1>1, <1>2, <1>3, <1>4, <1>5 DEF PipelineNext, pipelineVars

(* The pipeline is an ingress as EventSubIngress describes it.             *)
THEOREM PipelineIsIngress == PipelineSpec => Spec
<1>1. PipelineInit => Init
  BY DEF PipelineInit
<1> QED
  BY <1>1, IngressSteps, PTL DEF PipelineSpec, Spec

(* The pipeline is an inbox as EventSubInbox describes it.                 *)
THEOREM PipelineIsInbox == PipelineSpec => BoxP!Spec
<1>1. PipelineInit => BoxP!Init
  BY SameInit DEF PipelineInit
<1> QED
  BY <1>1, BoxSteps, PTL DEF PipelineSpec, BoxP!Spec

LEMMA BoxTypes == PipelineSpec => []BoxP!TypeOK
  BY PipelineIsInbox, BoxP!TypeCorrect, BoxAssumptions, PTL

LEMMA BoxTimely == Timely => (PipelineSpec => []BoxP!TimelyInv)
<1> SUFFICES ASSUME Timely PROVE PipelineSpec => []BoxP!TimelyInv
  OBVIOUS
<1> QED
  BY PipelineIsInbox, BoxP!TimelyInvHolds, BoxAssumptions, PTL

-----------------------------------------------------------------------------
(* The message column. *)

(* The rows of the inbox's history are what the ingress counts in copies.  *)
RowsInv ==
    /\ message \in [Works -> Messages \cup {NoMessage}]
    /\ submitted = {k \in Works : message[k] \in Messages}
    /\ IsFiniteSet(submitted)
    /\ \A m \in Messages : copies[m] = Cardinality(WorksOf(m))

LEMMA WorksFinite ==
    ASSUME IsFiniteSet(submitted), NEW m
    PROVE  IsFiniteSet(WorksOf(m)) /\ Cardinality(WorksOf(m)) \in Nat
<1>1. WorksOf(m) \subseteq submitted
  BY DEF WorksOf
<1> QED
  BY <1>1, FS_Subset, FS_CardinalityType

LEMMA RowsInvInit == PipelineInit => RowsInv
<1> SUFFICES ASSUME PipelineInit PROVE RowsInv
  OBVIOUS
<1>1. submitted = {} /\ message = [k \in Works |-> NoMessage]
      /\ copies = [m \in Messages |-> 0]
  BY DEF PipelineInit, Box!Init, Init
<1>2. \A m \in Messages : WorksOf(m) = {}
  BY <1>1 DEF WorksOf
<1> QED
  BY <1>1, <1>2, FS_EmptySet, PipelineAssumption DEF RowsInv

(* Only Write submits a work, names its message or counts a copy.          *)
LEMMA RowsStay ==
    ASSUME PipelineNext \/ UNCHANGED pipelineVars,
           ~ \E m \in Messages, i \in Deliveries, k \in Works : Write(m, i, k)
    PROVE  UNCHANGED <<copies, message, submitted>>
<1> USE DEF Box!tables, Box!workers, Box!bounds, Box!history
<1>1. CASE ProcessCrash
  BY <1>1 DEF ProcessCrash, Crash, Box!Crash, boxVars
<1>2. CASE IngressStep
  BY <1>2 DEF IngressStep, boxVars, Deliver, Serve, Reject, NotReady, Admit, Claim,
              Duplicate, ClaimFails, ClaimCut, RouteFails, Release, ReleaseFails,
              SetDispatchActive
<1>3. CASE BoxStep
  <2>1. UNCHANGED <<copies, message>>
    BY <1>3 DEF BoxStep, vars
  <2>2. ASSUME NEW k \in Works, Box!RequeueDeadLetter(k) PROVE submitted' = submitted
    BY <2>2 DEF Box!RequeueDeadLetter
  <2>3. ASSUME NEW w \in Workers, Box!Progress(w) PROVE submitted' = submitted
    BY <2>3 DEF Box!Progress, Box!Settle, Box!Start, Box!Lease, Box!NextWork, Box!EndBatch,
                Box!HandlerOk, Box!HandlerErr, Box!MarkDelivered, Box!MarkRetry,
                Box!MarkDeadLetter, Box!Stopped
  <2>4. ASSUME NEW w \in Workers, Box!MarkFails(w) \/ Box!Shutdown(w) \/ Box!Crash(w)
        PROVE  submitted' = submitted
    BY <2>4 DEF Box!MarkFails, Box!Shutdown, Box!Crash
  <2> QED
    BY <1>3, <2>1, <2>2, <2>3, <2>4 DEF BoxStep
<1>4. CASE PipelineTick
  BY <1>4 DEF PipelineTick, Tick, Box!Tick
<1>5. CASE UNCHANGED pipelineVars
  BY <1>5 DEF pipelineVars, vars, boxVars
<1> QED
  BY <1>1, <1>2, <1>3, <1>4, <1>5 DEF PipelineNext

LEMMA RowsInvStep ==
    ASSUME TypeOK, RowsInv, [PipelineNext]_pipelineVars PROVE RowsInv'
<1>1. ASSUME NEW m \in Messages, NEW i \in Deliveries, NEW k \in Works, Write(m, i, k)
      PROVE  RowsInv'
  <2>1. /\ k \notin submitted
        /\ submitted' = submitted \cup {k}
        /\ message' = [message EXCEPT ![k] = m]
        /\ copies' = [copies EXCEPT ![m] = @ + 1]
    BY <1>1 DEF Write, Insert, Enqueue, EnqueueLate, Box!Enqueue
  <2>2. IsFiniteSet(submitted')
    BY <2>1, FS_AddElement DEF RowsInv
  <2>3. submitted' = {j \in Works : message'[j] \in Messages}
    BY <2>1 DEF RowsInv
  <2>4. WorksOf(m)' = WorksOf(m) \cup {k} /\ k \notin WorksOf(m)
    BY <2>1 DEF RowsInv, WorksOf
  <2>5. Cardinality(WorksOf(m)') = Cardinality(WorksOf(m)) + 1
    BY <2>4, FS_AddElement, WorksFinite DEF RowsInv
  <2>6. ASSUME NEW n \in Messages, n # m PROVE WorksOf(n)' = WorksOf(n)
    BY <2>1, <2>6 DEF RowsInv, WorksOf
  <2>7. \A n \in Messages : copies'[n] = Cardinality(WorksOf(n)')
    BY <2>1, <2>5, <2>6 DEF RowsInv, TypeOK
  <2>8. message' \in [Works -> Messages \cup {NoMessage}]
    BY <2>1 DEF RowsInv
  <2> QED
    BY <2>2, <2>3, <2>7, <2>8 DEF RowsInv
<1>2. CASE ~ \E m \in Messages, i \in Deliveries, k \in Works : Write(m, i, k)
  <2>1. UNCHANGED <<copies, message, submitted>>
    BY <1>2, RowsStay
  <2>2. \A m \in Messages : WorksOf(m)' = WorksOf(m)
    BY <2>1 DEF WorksOf
  <2> QED
    BY <2>1, <2>2 DEF RowsInv
<1> QED
  BY <1>1, <1>2

LEMMA RowsInvHolds == PipelineSpec => []RowsInv
<1>1. TypeOK /\ RowsInv /\ [PipelineNext]_pipelineVars => RowsInv'
  BY RowsInvStep
<1> QED
  BY <1>1, RowsInvInit, PipelineIsIngress, TypeCorrect, PTL DEF PipelineSpec

-----------------------------------------------------------------------------
(* The theorems. *)

(* The parts keep their types, and every submitted work has its message.   *)
THEOREM PipelineTypeCorrect == PipelineSpec => []PipelineTypeOK
<1>1. TypeOK /\ BoxP!TypeOK /\ RowsInv => PipelineTypeOK
  BY SameTypes DEF PipelineTypeOK, RowsInv
<1> QED
  BY <1>1, PipelineIsIngress, TypeCorrect, BoxTypes, RowsInvHolds, PTL

(* What the ingress promises of a message holds with the inbox behind it.  *)
THEOREM PipelineDedup == PipelineSpec => []DedupWhileYoung
  BY PipelineIsIngress, NoSecondRow, PTL

(* Nor does a guard stand in the way of a retry after an error.            *)
THEOREM PipelineRetry == PipelineSpec => []RetryNotBlocked
  BY PipelineIsIngress, CalmRetryIsTaken, PTL

(* What the handlers see of the inbox behind the ingress is a queue: the   *)
(* one StreamEvents is shown to work on.                                   *)
THEOREM PipelineIsQueue == Timely => (PipelineSpec => BoxP!ImplementsWorkQueue)
<1> SUFFICES ASSUME Timely PROVE PipelineSpec => BoxP!ImplementsWorkQueue
  OBVIOUS
<1> QED
  BY PipelineIsInbox, BoxP!InboxIsWorkQueue, BoxAssumptions, PTL

(* No acknowledged message is lost between Twitch and its handler, with    *)
(* leases that may run out.                                                *)
THEOREM AckedAreKept == PipelineSpec => []AckedIsKept
<1>1. TypeOK /\ AckedUnlessTroubled /\ BoxP!NoLostWork /\ RowsInv => AckedIsKept
  <2> SUFFICES ASSUME TypeOK, AckedUnlessTroubled, BoxP!NoLostWork, RowsInv,
                      NEW m \in acked \ troubled
               PROVE  WorksOf(m) \cap (inbox \cup dead \cup handled) # {}
    BY DEF AckedIsKept
  <2>1. m \in Messages /\ copies[m] > 0
    BY DEF TypeOK, AckedUnlessTroubled
  <2>2. WorksOf(m) # {}
    <3>1. IsFiniteSet(WorksOf(m)) /\ Cardinality(WorksOf(m)) > 0
      BY <2>1, WorksFinite DEF RowsInv
    <3> QED
      BY <3>1, FS_EmptySet
  <2>3. WorksOf(m) \subseteq inbox \cup dead \cup handled
    BY DEF WorksOf, BoxP!NoLostWork
  <2> QED
    BY <2>2, <2>3
<1>2. PipelineSpec => []BoxP!NoLostWork
  BY PipelineIsInbox, BoxP!NothingLost, BoxAssumptions, PTL
<1> QED
  BY <1>1, <1>2, PipelineIsIngress, TypeCorrect, CalmAckIsDurable, RowsInvHolds, PTL

(* A worker comes to handle a work only through NextWork.                  *)
LEMMA OnlyNextWork ==
    ASSUME BoxP!TypeOK, [PipelineNext]_pipelineVars, NEW w \in Workers,
           pc[w] = "batch", pc'[w] = "handling"
    PROVE  cur'[w] \subseteq held[w]
<1> USE DEF BoxP!TypeOK
<1>1. CASE PipelineTick \/ IngressStep \/ UNCHANGED pipelineVars
           \/ \E m \in Messages, i \in Deliveries, k \in Works : Write(m, i, k)
  BY <1>1 DEF PipelineTick, Box!Tick, IngressStep, pipelineVars, boxVars, Write,
              Box!Enqueue, Box!workers
<1>2. CASE ProcessCrash
  BY <1>2, PipelineAssumption DEF ProcessCrash, Box!Crash, boxVars
<1>3. CASE BoxStep
  <2>1. ASSUME NEW k \in Works, Box!RequeueDeadLetter(k) PROVE FALSE
    BY <2>1 DEF Box!RequeueDeadLetter, Box!workers
  <2>2. ASSUME NEW v \in Workers, Box!Progress(v) PROVE cur'[w] \subseteq held[w]
    <3> USE DEF Box!TakeBatch, Box!Settled
    <3>1. CASE Box!NextWork(v)
      BY <3>1 DEF Box!NextWork
    <3>2. CASE Box!Settle(v)
      BY <3>2 DEF Box!Settle, Box!MarkDelivered, Box!MarkRetry, Box!MarkDeadLetter
    <3>3. CASE Box!Start(v) \/ Box!Lease(v) \/ Box!EndBatch(v) \/ Box!HandlerOk(v)
               \/ Box!HandlerErr(v) \/ Box!Stopped(v)
      BY <3>3 DEF Box!Start, Box!Lease, Box!EndBatch, Box!HandlerOk, Box!HandlerErr,
                  Box!Stopped
    <3> QED
      BY <2>2, <3>1, <3>2, <3>3 DEF Box!Progress
  <2>3. ASSUME NEW v \in Workers, Box!MarkFails(v) \/ Box!Shutdown(v) \/ Box!Crash(v)
        PROVE  FALSE
    BY <2>3 DEF Box!MarkFails, Box!Shutdown, Box!Crash, Box!Settled
  <2> QED
    BY <1>3, <2>1, <2>2, <2>3 DEF BoxStep
<1> QED
  BY <1>1, <1>2, <1>3 DEF PipelineNext

(* A fresh message has at most one work.                                   *)
LEMMA FreshIsSingle ==
    ASSUME TypeOK, RowsInv, DedupWhileYoung, NEW m \in Messages, Fresh(m),
           NEW j \in WorksOf(m), NEW k \in WorksOf(m)
    PROVE  j = k
<1>1. copies[m] <= 1 /\ copies[m] = Cardinality(WorksOf(m))
  BY DEF TypeOK, RowsInv, DedupWhileYoung, Fresh
<1> SUFFICES ASSUME j # k PROVE FALSE
  OBVIOUS
<1>2. {j, k} \subseteq WorksOf(m) /\ IsFiniteSet(WorksOf(m))
  BY WorksFinite DEF RowsInv
<1>3. Cardinality({j, k}) <= Cardinality(WorksOf(m))
  BY <1>2, FS_Subset
<1>4. Cardinality({j}) = 1 /\ IsFiniteSet({j})
  BY FS_Singleton
<1>5. Cardinality({j} \cup {k}) = 2
  BY <1>4, FS_AddElement
<1>6. {j} \cup {k} = {j, k}
  OBVIOUS
<1> QED
  BY <1>1, <1>2, <1>3, <1>5, <1>6, FS_CardinalityType

(* With batches that end within their leases, the handler of a fresh       *)
(* message is never started twice at a time nor again after it succeeded.  *)
THEOREM HandlersStartAlone == Timely => (PipelineSpec => StartsAlone)
<1> SUFFICES ASSUME Timely PROVE PipelineSpec => StartsAlone
  OBVIOUS
<1>1. ASSUME TypeOK, BoxP!TypeOK, BoxP!TimelyInv, RowsInv, DedupWhileYoung,
             [PipelineNext]_pipelineVars,
             NEW w \in Workers, NEW m \in Messages, HandlerStarts(w, m), Fresh(m)
      PROVE  /\ \A v \in Workers \ {w} : ~InHandOf(v, m)
             /\ ~Done(m)
  <2>1. PICK r \in held[w] : r.work \in WorksOf(m)
    BY <1>1, OnlyNextWork DEF HandlerStarts
  <2>2. r \in BoxP!Holding(w)
    BY <2>1 DEF BoxP!Holding
  <2>3. r.work \in inbox
    BY <1>1, <2>2 DEF BoxP!TimelyInv, BoxP!HandsLeased
  <2>4. \A k \in WorksOf(m) : k = r.work
    BY <1>1, <2>1, FreshIsSingle
  <2>5. ASSUME NEW v \in Workers \ {w}, InHandOf(v, m) PROVE FALSE
    <3>1. PICK k \in WorksOf(m) : Box!InHand(v, k)
      BY <2>5 DEF InHandOf
    <3>2. PICK s \in BoxP!Holding(v) : s.work = k
      BY <3>1 DEF Box!InHand, Box!Holding, BoxP!Holding
    <3> QED
      BY <1>1, <2>2, <2>4, <3>2 DEF BoxP!TimelyInv, BoxP!HandsDisjoint
  <2> QED
    BY <2>3, <2>4, <2>5 DEF Done
<1>2. TypeOK /\ BoxP!TypeOK /\ BoxP!TimelyInv /\ RowsInv /\ DedupWhileYoung
      /\ [PipelineNext]_pipelineVars
      => [\A w \in Workers, m \in Messages :
            HandlerStarts(w, m) /\ Fresh(m) =>
               /\ \A v \in Workers \ {w} : ~InHandOf(v, m)
               /\ ~Done(m)]_pipelineVars
  BY <1>1
<1> QED
  BY <1>2, PipelineIsIngress, TypeCorrect, BoxTypes, BoxTimely, RowsInvHolds,
     PipelineDedup, PTL DEF PipelineSpec, StartsAlone
=============================================================================
