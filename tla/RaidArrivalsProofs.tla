------------------------ MODULE RaidArrivalsProofs ------------------------
(***************************************************************************)
(* Theorems about RaidArrivals for any sources, targets and partners, any  *)
(* number of tasks, raids and troubles, and any recruitment limit.         *)
(***************************************************************************)
EXTENDS RaidArrivals, FiniteSetTheorems, TLAPS

(* A task that is idle has a task's type.                                  *)
LEMMA IdleFacts ==
    ASSUME NEW a PROVE Idle(a) \in Tasks /\ Idle(a).at = "idle" /\ Idle(a).flow = 0
<1>1. (CHOOSE t \in Targets : TRUE) \in Targets
  BY RaidsAssumption
<1>2. 0 \in 0..MaxRaids /\ "idle" \in Stages
  BY RaidsAssumption DEF Stages
<1> QED
  BY <1>1, <1>2 DEF Idle, Tasks

(* A task that goes on keeps its target and its flow, and the others stay. *)
LEMMA GoesFacts ==
    ASSUME TypeOK, NEW a \in Actors, NEW st \in Stages, Goes(a, st)
    PROVE  /\ act' \in [Actors -> Tasks]
           /\ \A b \in Actors : /\ act'[b].at = IF b = a THEN st ELSE act[b].at
                                /\ act'[b].to = act[b].to
                                /\ act'[b].flow = act[b].flow
  BY DEF TypeOK, Goes, Tasks

LEMMA EndsFacts ==
    ASSUME TypeOK, NEW a \in Actors, Ends(a)
    PROVE  /\ act' \in [Actors -> Tasks]
           /\ act'[a] \in Tasks /\ act'[a].at = "idle" /\ act'[a].flow = 0
           /\ \A b \in Actors \ {a} : act'[b] = act[b]
  BY IdleFacts DEF TypeOK, Ends, Tasks

LEMMA ReturnsFacts ==
    ASSUME TypeOK, NEW a \in Actors, Returns(a)
    PROVE  /\ act' \in [Actors -> Tasks]
           /\ act'[a].at = (IF a[1] \in Runs THEN "finish" ELSE "idle")
           /\ act'[a].flow \in {0, act[a].flow}
           /\ act'[a].flow # 0 => act'[a].to = act[a].to
           /\ \A b \in Actors \ {a} : act'[b] = act[b]
<1>1. CASE a[1] \in Runs
  <2>1. "finish" \in Stages /\ Goes(a, "finish")
    BY <1>1 DEF Stages, Returns
  <2> QED
    BY <1>1, <2>1, GoesFacts DEF TypeOK, Tasks, Goes
<1>2. CASE a[1] \notin Runs
  BY <1>2, EndsFacts DEF Returns
<1> QED
  BY <1>1, <1>2

(* An actor's pair is a pair, and its parts are its source and its target. *)
LEMMA PairFacts ==
    ASSUME TypeOK, NEW a \in Actors
    PROVE  /\ Pair(a) \in Pairs /\ Pair(a)[1] = a[2] /\ Pair(a)[2] = act[a].to
           /\ a[1] \in Signals \cup Runs /\ a[2] \in Sources
           /\ act[a] \in Tasks
           /\ act[a].to \in Targets /\ act[a].flow \in 0..MaxRaids
  BY DEF TypeOK, Actors, Pair, Pairs, Tasks

LEMMA MarkTypes ==
    ASSUME TypeOK, NEW s \in Sources, Mark(s)
    PROVE  marks' \subseteq Sources /\ noted' \subseteq Sources
  BY DEF TypeOK, Mark

LEMMA TroubleTypes ==
    ASSUME TypeOK, Trouble PROVE troubles' \in 0..MaxTroubles
  BY RaidsAssumption DEF TypeOK, Trouble

LEMMA WriteTypes ==
    ASSUME TypeOK, NEW p \in Pairs, WriteArrival(p)
    PROVE  /\ arrivals' \subseteq Pairs /\ excused' \subseteq Pairs
           /\ troubles' \in 0..MaxTroubles
  BY TroubleTypes DEF TypeOK, WriteArrival, RecordArrival, RecordFails, Excuse

(* Where a task of each kind can be, and when it has a flow at hand.       *)
StagesOf(kind) ==
    CASE kind = "unraid" -> {"idle", "look", "store"}
      [] kind \in {"raid", "chat"} -> {"idle", "look", "store", "confirm", "write",
                                      "orphan", "independent", "mark"}
      [] kind \in Runs -> {"idle", "grace", "run", "register", "replay", "confirm",
                           "write", "finish"}

ShapeOf(a) ==
    /\ act[a].at \in StagesOf(a[1])
    /\ act[a].at \in {"store", "write"} => act[a].flow # 0
    /\ act[a].at \in {"idle", "grace", "run", "register", "replay"} => act[a].flow = 0

Shape == \A a \in Actors : ShapeOf(a)

(* The variables keep their types.                                         *)
LEMMA TypeStep == TypeOK /\ Shape /\ [Next]_vars => TypeOK'
<1> SUFFICES ASSUME TypeOK, Shape, [Next]_vars PROVE TypeOK'
  OBVIOUS
<1> USE RaidsAssumption
<1> USE DEF memory, database, twitch, history
<1>a. ASSUME NEW a \in Actors, TaskStep(a) \/ NoRaid(a) \/ \E t \in Targets : StartRaid(a, t) \/ Hear(a, t)
      PROVE  TypeOK'
  <2> "idle" \in Stages /\ "replay" \in Stages /\ "confirm" \in Stages /\ "finish" \in Stages
      /\ "store" \in Stages /\ "mark" \in Stages /\ "look" \in Stages /\ "write" \in Stages
      /\ "orphan" \in Stages /\ "independent" \in Stages /\ "register" \in Stages
    BY DEF Stages
  <2>p. /\ Pair(a) \in Pairs /\ Pair(a)[1] = a[2] /\ Pair(a)[2] = act[a].to
        /\ a[2] \in Sources /\ act[a].to \in Targets /\ act[a].flow \in 0..MaxRaids
    BY PairFacts
  <2>1. CASE Register(a)
    <3>1. act' \in [Actors -> Tasks]
      BY <2>1, GoesFacts DEF Register
    <3>2. flows + 1 \in Flows /\ flows + 1 \in 0..MaxRaids
      BY <2>1 DEF Register, Flows, TypeOK
    <3>3. pending' \in [Pairs -> 0..MaxRaids]
      BY <2>1, <3>2 DEF Register, TypeOK
    <3> QED
      BY <2>1, <3>1, <3>2, <3>3, <2>p DEF Register, Excuse, Superseded, TypeOK
  <2>2. CASE Replay(a)
    <3>1. act' \in [Actors -> Tasks]
      BY <2>2, GoesFacts DEF Replay
    <3> QED
      BY <2>2, <3>1 DEF Replay, TypeOK
  <2>3. CASE Finish(a)
    <3>1. act' \in [Actors -> Tasks]
      BY <2>3, EndsFacts DEF Finish
    <3>2. marks' \subseteq Sources /\ noted' \subseteq Sources
      BY <2>3, <2>p, MarkTypes DEF Finish, TypeOK
    <3> QED
      BY <2>3, <3>1, <3>2 DEF Finish, TypeOK
  <2>4. CASE Recall(a)
    <3>1. act' \in [Actors -> Tasks]
      <4> PICK recent \in BOOLEAN :
             LET st == Plan(a[1], act[a].to, act[a].flow, recent)
             IN  IF st = "idle" THEN Ends(a) ELSE Goes(a, st)
        BY <2>4 DEF Recall
      <4>1. Plan(a[1], act[a].to, act[a].flow, recent) \in Stages
        BY DEF Plan
      <4> QED
        BY <4>1, EndsFacts, GoesFacts
    <3>2. troubles' \in 0..MaxTroubles
      BY <2>4, TroubleTypes DEF Recall, TypeOK
    <3> QED
      BY <2>4, <3>1, <3>2 DEF Recall, TypeOK
  <2>5. CASE StorePending(a)
    <3>1. act' \in [Actors -> Tasks]
      BY <2>5, GoesFacts, EndsFacts DEF StorePending
    <3>2. pending' \in [Pairs -> 0..MaxRaids]
      BY <2>5, <2>p DEF StorePending, TypeOK
    <3>3. \A f \in Flows : revived[f] \in Nat /\ revived[f] + 1 \in Nat
      BY DEF TypeOK
    <3>4. revived' \in [Flows -> Nat]
      BY <2>5, <3>3 DEF StorePending, TypeOK
    <3> QED
      BY <2>5, <3>1, <3>2, <3>4 DEF StorePending, TypeOK
  <2>6. CASE Confirm(a)
    <3>1. CASE pending[Pair(a)] = 0
      <4>1. act' \in [Actors -> Tasks]
        BY <2>6, <3>1, ReturnsFacts DEF Confirm
      <4> QED
        BY <2>6, <3>1, <4>1 DEF Confirm, TypeOK
    <3>2. CASE pending[Pair(a)] # 0
      <4> DEFINE f == pending[Pair(a)]
      <4>1. f \in Flows /\ f \in 0..MaxRaids
        BY <3>2, <2>p DEF TypeOK, Flows
      <4>2. /\ pending' = [pending EXCEPT ![Pair(a)] = 0]
            /\ confirms' = [confirms EXCEPT ![f] = @ + 1]
            /\ act' = [act EXCEPT ![a].at = "write", ![a].flow = f]
        BY <2>6, <3>2 DEF Confirm
      <4>3. act' \in [Actors -> Tasks]
        BY <4>1, <4>2 DEF TypeOK, Tasks
      <4>4. pending' \in [Pairs -> 0..MaxRaids] /\ confirms' \in [Flows -> Nat]
        BY <4>1, <4>2, <2>p DEF TypeOK
      <4> QED
        BY <2>6, <4>3, <4>4 DEF Confirm, TypeOK
    <3> QED
      BY <3>1, <3>2
  <2>7. CASE WritePartner(a)
    BY <2>7, <2>p, ReturnsFacts, WriteTypes DEF WritePartner, TypeOK
  <2>8. CASE WriteExternal(a)
    <3>1. act' \in [Actors -> Tasks]
      BY <2>8, ReturnsFacts DEF WriteExternal
    <3>2. troubles' \in 0..MaxTroubles
      BY <2>8, TroubleTypes DEF WriteExternal, TypeOK
    <3>3. rows' \in [Targets -> Nat] /\ due' \subseteq Targets
      BY <2>8, <2>p DEF WriteExternal, RecordConfirmedRaid, TypeOK
    <3>4. external' \subseteq Flows
      <4>1. act[a].flow \in Flows
        BY <2>8, <2>p DEF Shape, ShapeOf, WriteExternal, At, Flows
      <4> QED
        BY <2>8, <4>1 DEF WriteExternal, RecordConfirmedRaid, TypeOK
    <3> QED
      BY <2>8, <3>1, <3>2, <3>3, <3>4 DEF WriteExternal, TypeOK
  <2>9. CASE StoreOrphan(a)
    BY <2>9, <2>p, EndsFacts DEF StoreOrphan, TypeOK
  <2>10. CASE Independent(a)
    BY <2>10, <2>p, GoesFacts, WriteTypes DEF Independent, TypeOK
  <2>11. CASE MarkManualRaidStarted(a)
    BY <2>11, <2>p, EndsFacts, MarkTypes DEF MarkManualRaidStarted, TypeOK
  <2>12. CASE NoRaid(a)
    BY <2>12, EndsFacts DEF NoRaid, TypeOK
  <2>13. ASSUME NEW t \in Targets, StartRaid(a, t) PROVE TypeOK'
    <3>1. act' \in [Actors -> Tasks]
      <4>1. CASE act' = [act EXCEPT ![a].at = "register", ![a].to = t]
        BY <4>1 DEF TypeOK, Tasks
      <4> QED
        BY <2>13, <4>1, EndsFacts DEF StartRaid
    <3>2. started' \in 0..MaxRaids
      BY <2>13 DEF StartRaid, TypeOK
    <3>3. troubles' \in 0..MaxTroubles
      BY <2>13, TroubleTypes DEF StartRaid, TypeOK
    <3> QED
      BY <2>13, <2>p, <3>1, <3>2, <3>3 DEF StartRaid, Pairs, TypeOK
  <2>14. ASSUME NEW t \in Targets, Hear(a, t) PROVE TypeOK'
    <3>0. <<a[2], t>> \in Pairs
      BY <2>p DEF Pairs
    <3>1. act' \in [Actors -> Tasks]
      BY <2>14, <3>0 DEF Hear, TypeOK, Tasks
    <3> QED
      BY <2>14, <3>0, <3>1 DEF Hear, TypeOK
  <2> QED
    BY <1>a, <2>1, <2>2, <2>3, <2>4, <2>5, <2>6, <2>7, <2>8, <2>9, <2>10, <2>11,
       <2>12, <2>13, <2>14 DEF TaskStep
<1>b. ASSUME NEW p \in Pairs,
             \/ OwnRaid(p) \/ ObserveOwnRaid(p) \/ Land(p) \/ CallOff(p)
             \/ ClaimStaleOrphan(p) \/ PromoteOrphan(p) \/ Sweep(p) \/ SelfUnraid(p)
      PROVE  TypeOK'
  <2>p. p[1] \in Sources /\ p[2] \in Targets
    BY DEF Pairs
  <2>1. CASE OwnRaid(p)
    BY <2>1 DEF OwnRaid, TypeOK
  <2>2. CASE ObserveOwnRaid(p)
    BY <2>2, <2>p, MarkTypes DEF ObserveOwnRaid, TypeOK
  <2>3. CASE Land(p)
    BY <2>3 DEF Land, TypeOK, Signals
  <2>4. CASE CallOff(p)
    BY <2>4, TroubleTypes DEF CallOff, TypeOK, Signals
  <2>5. CASE ClaimStaleOrphan(p)
    BY <2>5 DEF ClaimStaleOrphan, TypeOK
  <2>6. CASE PromoteOrphan(p)
    <3>1. marks' \subseteq Sources /\ noted' \subseteq Sources
      BY <2>6, <2>p, MarkTypes DEF PromoteOrphan, TypeOK
    <3>2. /\ arrivals' \subseteq Pairs /\ excused' \subseteq Pairs
          /\ troubles' \in 0..MaxTroubles
      BY <2>6, WriteTypes DEF PromoteOrphan, WriteArrival, TypeOK
    <3> QED
      BY <2>6, <3>1, <3>2 DEF PromoteOrphan, TypeOK
  <2>7. CASE Sweep(p)
    BY <2>7, TroubleTypes DEF Sweep, Excuse, TypeOK
  <2>8. CASE SelfUnraid(p)
    BY <2>8 DEF SelfUnraid, CancelFromSource, Excuse, TypeOK
  <2> QED
    BY <1>b, <2>1, <2>2, <2>3, <2>4, <2>5, <2>6, <2>7, <2>8
<1>c. ASSUME NEW s \in Sources,
             Offline(s) \/ GraceOver(s) \/ ManualRaid(s) \/ GoLive(s) \/ MarkExpires(s)
      PROVE  TypeOK'
  <2>0. <<"auto", s>> \in Actors /\ <<"manual", s>> \in Actors
    BY DEF Actors, Runs
  <2>s. "grace" \in Stages /\ "run" \in Stages
    BY DEF Stages
  <2>1. CASE Offline(s)
    BY <2>0, <2>s, <2>1, GoesFacts DEF Offline, TypeOK
  <2>2. CASE GraceOver(s)
    BY <2>0, <2>s, <2>2, GoesFacts, EndsFacts DEF GraceOver, TypeOK
  <2>3. CASE ManualRaid(s)
    BY <2>0, <2>s, <2>3, GoesFacts DEF ManualRaid, TypeOK
  <2>4. CASE GoLive(s)
    <3>1. marks' \subseteq Sources /\ noted' \subseteq Sources
      BY <2>4, MarkTypes DEF GoLive, TypeOK
    <3> QED
      BY <2>4, <3>1, TroubleTypes DEF GoLive, CancelFromSource, Excuse, TypeOK
  <2>5. CASE MarkExpires(s)
    BY <2>5 DEF MarkExpires, TypeOK
  <2> QED
    BY <1>c, <2>1, <2>2, <2>3, <2>4, <2>5
<1>d. ASSUME NEW t \in Targets, Blacklist(t) \/ CleanupDue(t) PROVE TypeOK'
  BY <1>d DEF Blacklist, CleanupDue, TypeOK
<1>e. CASE Restart
  <2>1. act' \in [Actors -> Tasks]
    BY <1>e, IdleFacts DEF Restart
  <2> QED
    BY <1>e, <2>1, TroubleTypes DEF Restart, Excuse, TypeOK
<1>f. CASE UNCHANGED vars
  BY <1>f DEF vars, TypeOK
<1> QED
  BY <1>a, <1>b, <1>c, <1>d, <1>e, <1>f DEF Next

-----------------------------------------------------------------------------
(* The shape of the tasks. *)

LEMMA Kinds == /\ \A a \in Actors : a[1] \in Signals \cup Runs /\ a[2] \in Sources
               /\ Signals \cap Runs = {}
  BY DEF Actors, Signals, Runs

LEMMA StagesFacts ==
    /\ StagesOf("unraid") = {"idle", "look", "store"}
    /\ StagesOf("raid") = {"idle", "look", "store", "confirm", "write", "orphan",
                           "independent", "mark"}
    /\ StagesOf("chat") = StagesOf("raid")
    /\ \A k \in Signals : "look" \in StagesOf(k)
<1>1. StagesOf("unraid") = {"idle", "look", "store"}
  BY DEF StagesOf, Runs
<1>2. StagesOf("raid") = {"idle", "look", "store", "confirm", "write", "orphan",
                          "independent", "mark"}
  BY DEF StagesOf, Runs
<1>3. StagesOf("chat") = {"idle", "look", "store", "confirm", "write", "orphan",
                          "independent", "mark"}
  BY DEF StagesOf, Runs
<1> QED
  BY <1>1, <1>2, <1>3 DEF Signals

(* What a step does to the task that takes it.                             *)
LEMMA TaskMoves ==
    ASSUME TypeOK, Shape, NEW a \in Actors,
           \/ TaskStep(a) \/ NoRaid(a)
           \/ \E t \in Targets : StartRaid(a, t) \/ Hear(a, t)
    PROVE  ShapeOf(a)' /\ \A b \in Actors \ {a} : act'[b] = act[b]
<1> DEFINE Others == \A b \in Actors \ {a} : act'[b] = act[b]
<1>0. ShapeOf(a) /\ act[a] \in Tasks
  BY PairFacts DEF Shape
<1>k. a[1] \in Signals \cup Runs /\ Signals \cap Runs = {}
  BY Kinds
<1> "idle" \in Stages /\ "replay" \in Stages /\ "confirm" \in Stages /\ "finish" \in Stages
    /\ "store" \in Stages /\ "mark" \in Stages /\ "look" \in Stages /\ "write" \in Stages
    /\ "orphan" \in Stages /\ "independent" \in Stages /\ "register" \in Stages
  BY DEF Stages
<1>g. ASSUME NEW st \in Stages, Goes(a, st)
      PROVE  act'[a].at = st /\ act'[a].flow = act[a].flow /\ Others
  BY <1>g, GoesFacts DEF TypeOK, Goes
<1>e. ASSUME Ends(a)
      PROVE  ShapeOf(a)' /\ Others
  <2>1. act'[a].at = "idle" /\ act'[a].flow = 0
    BY <1>e, EndsFacts
  <2> QED
    BY <1>e, <1>k, <2>1, EndsFacts DEF ShapeOf, StagesOf, Signals, Runs
<1>r. ASSUME Returns(a), act[a].at \in {"confirm", "write"}
      PROVE  ShapeOf(a)' /\ Others
  <2>1. CASE a[1] \in Runs
    <3>1. act'[a].at = "finish" /\ Others
      BY <1>r, <2>1, <1>g DEF Returns
    <3> QED
      BY <2>1, <3>1, <1>k DEF ShapeOf, StagesOf, Signals, Runs
  <2> QED
    BY <1>r, <1>e, <2>1 DEF Returns
<1>1. CASE Register(a)
  BY <1>1, <1>0, <1>k, <1>g DEF Register, At, ShapeOf, StagesOf, Runs
<1>2. CASE Replay(a)
  <2>1. Others /\ act'[a].at \in {"confirm", "finish"}
    BY <1>2, <1>g DEF Replay
  <2> QED
    BY <1>2, <2>1 DEF Replay, ShapeOf, StagesOf, Runs
<1>3. CASE Finish(a)
  BY <1>3, <1>e DEF Finish
<1>4. CASE Recall(a)
  <2> PICK recent \in BOOLEAN :
         LET st == Plan(a[1], act[a].to, act[a].flow, recent)
         IN  IF st = "idle" THEN Ends(a) ELSE Goes(a, st)
    BY <1>4 DEF Recall
  <2> DEFINE st == Plan(a[1], act[a].to, act[a].flow, recent)
  <2>1. CASE st = "idle"
    BY <2>1, <1>e
  <2>2. CASE st # "idle"
    <3>1. Goes(a, st) /\ a[1] \in Signals
      BY <1>4, <2>2 DEF Recall
    <3>2. /\ st \in {"store", "orphan", "independent"}
          /\ st = "store" => act[a].flow # 0
          /\ st = "orphan" => a[1] = "chat"
          /\ st = "independent" => a[1] = "raid"
      BY <2>2 DEF Plan
    <3>3. act'[a].at = st /\ act'[a].flow = act[a].flow /\ Others
      BY <3>1, <3>2, <1>g
    <3> HIDE DEF st
    <3> QED
      BY <3>1, <3>2, <3>3 DEF ShapeOf, StagesOf, Signals, Runs
  <2> QED
    BY <2>1, <2>2
<1>5. CASE StorePending(a)
  <2>1. CASE a[1] = "unraid"
    BY <1>5, <2>1, <1>e DEF StorePending
  <2>2. CASE a[1] # "unraid"
    <3>1. act'[a].at = "confirm" /\ act'[a].flow = act[a].flow /\ Others
      BY <1>5, <2>2, <1>g DEF StorePending
    <3> QED
      BY <1>5, <2>2, <3>1 DEF StorePending, ShapeOf, StagesOf, Signals, Runs
  <2> QED
    BY <2>1, <2>2
<1>6. CASE Confirm(a)
  <2>1. CASE pending[Pair(a)] = 0
    BY <1>6, <2>1, <1>r DEF Confirm, At
  <2>2. CASE pending[Pair(a)] # 0
    <3>1. act'[a].at = "write" /\ act'[a].flow # 0 /\ Others
      BY <1>6, <2>2 DEF Confirm, TypeOK, Tasks
    <3>2. a[1] # "unraid"
      BY <1>0, <1>6, StagesFacts DEF Confirm, At, ShapeOf
    <3> QED
      BY <1>k, <3>1, <3>2 DEF ShapeOf, StagesOf, Signals, Runs
  <2> QED
    BY <2>1, <2>2
<1>7. CASE WritePartner(a)
  BY <1>7, <1>r DEF WritePartner, At
<1>8. CASE WriteExternal(a)
  BY <1>8, <1>r DEF WriteExternal, At
<1>9. CASE StoreOrphan(a)
  BY <1>9, <1>e DEF StoreOrphan
<1>10. CASE Independent(a)
  <2>1. act'[a].at = "mark" /\ Others
    BY <1>10, <1>g DEF Independent
  <2>2. act[a].at = "independent" /\ act[a].at \in StagesOf(a[1])
    BY <1>0, <1>10 DEF Independent, At, ShapeOf
  <2>3. a[1] # "unraid" /\ a[1] \notin Runs
    BY <2>2, StagesFacts DEF StagesOf, Runs
  <2>4. a[1] = "raid" \/ a[1] = "chat"
    BY <2>3, <1>k DEF Signals
  <2>5. "mark" \in StagesOf(a[1])
    BY <2>4, StagesFacts
  <2> QED
    BY <2>1, <2>5 DEF ShapeOf
<1>11. CASE MarkManualRaidStarted(a)
  BY <1>11, <1>e DEF MarkManualRaidStarted
<1>12. CASE NoRaid(a)
  BY <1>12, <1>e DEF NoRaid
<1>13. ASSUME NEW t \in Targets, StartRaid(a, t) PROVE ShapeOf(a)' /\ Others
  <2>1. CASE act' = [act EXCEPT ![a].at = "register", ![a].to = t]
    <3>1. act'[a].at = "register" /\ act'[a].flow = act[a].flow /\ Others
      BY <2>1 DEF TypeOK, Tasks
    <3>2. act[a].flow = 0 /\ a[1] \in Runs
      BY <1>0, <1>13 DEF StartRaid, At, ShapeOf
    <3> QED
      BY <3>1, <3>2 DEF ShapeOf, StagesOf, Runs
  <2> QED
    BY <1>13, <1>e, <2>1 DEF StartRaid
<1>14. ASSUME NEW t \in Targets, Hear(a, t) PROVE ShapeOf(a)' /\ Others
  <2>1. act'[a].at = "look" /\ Others /\ a[1] \in Signals
    BY <1>14 DEF Hear, TypeOK
  <2>2. "look" \in StagesOf(a[1])
    BY <2>1, StagesFacts
  <2> QED
    BY <2>1, <2>2 DEF ShapeOf
<1> QED
  BY <1>1, <1>2, <1>3, <1>4, <1>5, <1>6, <1>7, <1>8, <1>9, <1>10, <1>11, <1>12,
     <1>13, <1>14 DEF TaskStep

LEMMA ShapeStep == TypeOK /\ Shape /\ [Next]_vars => Shape'
<1> SUFFICES ASSUME TypeOK, Shape, [Next]_vars PROVE Shape'
  OBVIOUS
<1> USE DEF memory, database, twitch, history
<1>a. ASSUME NEW a \in Actors, TaskStep(a) \/ NoRaid(a) \/ \E t \in Targets : StartRaid(a, t) \/ Hear(a, t)
      PROVE  Shape'
  BY <1>a, TaskMoves DEF Shape, ShapeOf
<1>s. ASSUME UNCHANGED act PROVE Shape'
  BY <1>s DEF Shape, ShapeOf
<1>b. ASSUME NEW p \in Pairs,
             \/ OwnRaid(p) \/ ObserveOwnRaid(p) \/ Land(p) \/ CallOff(p)
             \/ ClaimStaleOrphan(p) \/ PromoteOrphan(p) \/ Sweep(p) \/ SelfUnraid(p)
      PROVE  UNCHANGED act
  BY <1>b DEF OwnRaid, ObserveOwnRaid, Land, CallOff, ClaimStaleOrphan, PromoteOrphan,
              Sweep, SelfUnraid
<1>c. ASSUME NEW s \in Sources, Offline(s) \/ GraceOver(s) \/ ManualRaid(s)
      PROVE  Shape'
  <2>0. <<"auto", s>> \in Actors /\ <<"manual", s>> \in Actors
    BY DEF Actors, Runs
  <2>1. "grace" \in Stages /\ "run" \in Stages
    BY DEF Stages
  <2>2. ASSUME NEW a \in Actors, a[1] \in Runs, NEW st \in {"grace", "run"}, Goes(a, st),
               act[a].at \in {"idle", "grace"}
        PROVE  Shape'
    <3>1. act'[a].at = st /\ act'[a].flow = 0
      BY <2>1, <2>2, GoesFacts DEF Shape, ShapeOf
    <3>2. \A b \in Actors \ {a} : act'[b] = act[b]
      BY <2>2 DEF Goes, TypeOK
    <3>3. ShapeOf(a)'
      BY <2>2, <3>1 DEF ShapeOf, StagesOf, Runs
    <3> QED
      BY <3>2, <3>3 DEF Shape, ShapeOf
  <2>3. ASSUME NEW a \in Actors, a[1] \in Runs, Ends(a) PROVE Shape'
    <3>1. ShapeOf(a)'
      BY <2>3, EndsFacts DEF ShapeOf, StagesOf, Runs
    <3> QED
      BY <2>3, <3>1, EndsFacts DEF Shape, ShapeOf
  <2>4. CASE Offline(s)
    BY <2>0, <2>2, <2>4 DEF Offline, At, Runs
  <2>5. CASE GraceOver(s)
    BY <2>0, <2>2, <2>3, <2>5 DEF GraceOver, At, Runs
  <2>6. CASE ManualRaid(s)
    BY <2>0, <2>2, <2>6 DEF ManualRaid, At, Runs
  <2> QED
    BY <1>c, <2>4, <2>5, <2>6
<1>d. ASSUME NEW s \in Sources, GoLive(s) \/ MarkExpires(s) PROVE UNCHANGED act
  BY <1>d DEF GoLive, MarkExpires
<1>e. ASSUME NEW t \in Targets, Blacklist(t) \/ CleanupDue(t) PROVE UNCHANGED act
  BY <1>e DEF Blacklist, CleanupDue
<1>f. CASE Restart
  <2> SUFFICES ASSUME NEW a \in Actors PROVE ShapeOf(a)'
    BY DEF Shape
  <2>1. act'[a].at = "idle" /\ act'[a].flow = 0
    BY <1>f, IdleFacts DEF Restart
  <2> QED
    BY <2>1, Kinds DEF ShapeOf, StagesOf, Signals, Runs
<1>g. CASE UNCHANGED vars
  BY <1>g, <1>s DEF vars
<1> QED
  BY <1>a, <1>s, <1>b, <1>c, <1>d, <1>e, <1>f, <1>g DEF Next

(* The variables keep their types.                                         *)
TypeInv == TypeOK /\ Shape

LEMMA TypeInit == Init => TypeInv
<1> SUFFICES ASSUME Init PROVE TypeInv
  OBVIOUS
<1>1. (CHOOSE p \in Pairs : TRUE) \in Pairs
  <2>1. PICK s \in Sources, t \in Targets : TRUE
    BY RaidsAssumption
  <2>2. <<s, t>> \in Pairs
    BY DEF Pairs
  <2> QED
    BY <2>2
<1>2. act \in [Actors -> Tasks]
  BY IdleFacts DEF Init
<1>3. TypeOK
  BY <1>1, <1>2, RaidsAssumption DEF Init, TypeOK
<1>4. ASSUME NEW a \in Actors PROVE ShapeOf(a)
  <2>1. act[a].at = "idle" /\ act[a].flow = 0
    BY IdleFacts DEF Init
  <2> QED
    BY <2>1, Kinds DEF ShapeOf, StagesOf, Signals, Runs
<1> QED
  BY <1>3, <1>4 DEF TypeInv, Shape

LEMMA TypeInvariant == Spec => []TypeInv
<1>1. TypeInv /\ [Next]_vars => TypeInv'
  BY TypeStep, ShapeStep DEF TypeInv
<1> QED
  BY <1>1, TypeInit, PTL DEF Spec

THEOREM TypeCorrect == Spec => []TypeOK
<1>1. TypeInv => TypeOK
  BY DEF TypeInv
<1> QED
  BY <1>1, TypeInvariant, PTL

-----------------------------------------------------------------------------
(* What the flows stand for. *)

(* A pending and a task's copy of one carry a flow that was registered for *)
(* their pair, and only a registered flow has been confirmed.              *)
PendingOk(p) ==
    pending[p] # 0 => pending[p] \in 1..flows /\ pairOf[pending[p]] = p
CopyOk(a) ==
    act[a].flow # 0 => act[a].flow \in 1..flows /\ pairOf[act[a].flow] = Pair(a)
FlowInv ==
    /\ \A p \in Pairs : PendingOk(p)
    /\ \A a \in Actors : CopyOk(a)
    /\ \A f \in Flows : confirms[f] > 0 => f <= flows

(* A task's copy is the one it had, of the same pair, or it is read from   *)
(* the store.                                                              *)
LEMMA TaskCopies ==
    ASSUME TypeOK, Shape, NEW a \in Actors,
           \/ TaskStep(a) \/ NoRaid(a)
           \/ \E t \in Targets : StartRaid(a, t) \/ Hear(a, t)
    PROVE  /\ \/ act'[a].flow = 0
              \/ act'[a].flow = act[a].flow /\ act'[a].to = act[a].to
              \/ /\ <<a[2], act'[a].to>> \in Pairs
                 /\ act'[a].flow = pending[<<a[2], act'[a].to>>]
           /\ \A b \in Actors \ {a} : act'[b] = act[b]
<1> DEFINE Goal == \/ act'[a].flow = 0
                   \/ act'[a].flow = act[a].flow /\ act'[a].to = act[a].to
                   \/ /\ <<a[2], act'[a].to>> \in Pairs
                      /\ act'[a].flow = pending[<<a[2], act'[a].to>>]
<1>0. \A b \in Actors \ {a} : act'[b] = act[b]
  BY TaskMoves
<1> SUFFICES Goal
  BY <1>0
<1>p. Pair(a) \in Pairs /\ a[2] \in Sources /\ act[a] \in Tasks
  BY PairFacts
<1>g. ASSUME NEW st, Goes(a, st) PROVE Goal
  BY <1>g DEF Goes, TypeOK, Tasks
<1>e. ASSUME Ends(a) PROVE Goal
  BY <1>e, EndsFacts
<1>r. ASSUME Returns(a) PROVE Goal
  BY <1>r, <1>g, <1>e DEF Returns
<1>1. CASE Register(a) \/ Replay(a) \/ Independent(a)
  BY <1>1, <1>g DEF Register, Replay, Independent
<1>3. CASE Finish(a) \/ StoreOrphan(a) \/ MarkManualRaidStarted(a) \/ NoRaid(a)
  BY <1>3, <1>e DEF Finish, StoreOrphan, MarkManualRaidStarted, NoRaid
<1>4. CASE Recall(a)
  BY <1>4, <1>e, <1>g DEF Recall
<1>5. CASE StorePending(a)
  BY <1>5, <1>e, <1>g DEF StorePending
<1>6. CASE Confirm(a)
  <2>1. CASE pending[Pair(a)] = 0
    BY <1>6, <2>1, <1>r DEF Confirm
  <2>2. CASE pending[Pair(a)] # 0
    <3>1. act' = [act EXCEPT ![a].at = "write", ![a].flow = pending[Pair(a)]]
      BY <1>6, <2>2 DEF Confirm
    <3>2. act'[a].flow = pending[Pair(a)] /\ act'[a].to = act[a].to
      BY <3>1 DEF TypeOK, Tasks
    <3> QED
      BY <3>2, <1>p DEF Pair
  <2> QED
    BY <2>1, <2>2
<1>7. CASE WritePartner(a) \/ WriteExternal(a)
  BY <1>7, <1>r DEF WritePartner, WriteExternal
<1>13. ASSUME NEW t \in Targets, StartRaid(a, t) PROVE Goal
  <2>1. CASE act' = [act EXCEPT ![a].at = "register", ![a].to = t]
    <3>1. act'[a].flow = act[a].flow
      BY <2>1 DEF TypeOK, Tasks
    <3>2. act[a].flow = 0
      BY <1>13 DEF StartRaid, At, Shape, ShapeOf
    <3> QED
      BY <3>1, <3>2
  <2> QED
    BY <1>13, <1>e, <2>1 DEF StartRaid
<1>14. ASSUME NEW t \in Targets, Hear(a, t) PROVE Goal
  <2>1. act' = [act EXCEPT ![a] = [at |-> "look", to |-> t, flow |-> pending[<<a[2], t>>]]]
    BY <1>14 DEF Hear
  <2>2. act'[a].flow = pending[<<a[2], t>>] /\ act'[a].to = t
    BY <2>1 DEF TypeOK
  <2> QED
    BY <2>2, <1>p DEF Pair, Pairs
<1> QED
  BY <1>1, <1>3, <1>4, <1>5, <1>6, <1>7, <1>13, <1>14 DEF TaskStep

(* The start and the end of a grace, and the start of a manual run.        *)
LEMMA SourceMoves ==
    ASSUME TypeOK, Shape, NEW s \in Sources, Offline(s) \/ GraceOver(s) \/ ManualRaid(s)
    PROVE  \E a \in Actors :
             /\ a[1] \in Runs
             /\ act'[a].at \in {"idle", "grace", "run"} /\ act'[a].flow = 0
             /\ \A b \in Actors \ {a} : act'[b] = act[b]
<1>0. <<"auto", s>> \in Actors /\ <<"manual", s>> \in Actors
  BY DEF Actors, Runs
<1>1. "grace" \in Stages /\ "run" \in Stages
  BY DEF Stages
<1>2. ASSUME NEW a \in Actors, a[1] \in Runs, NEW st \in {"grace", "run"}, Goes(a, st),
             act[a].at \in {"idle", "grace"}
      PROVE  /\ act'[a].at = st /\ act'[a].flow = 0
             /\ \A b \in Actors \ {a} : act'[b] = act[b]
  BY <1>1, <1>2, GoesFacts DEF Shape, ShapeOf, Goes, TypeOK
<1>3. CASE Offline(s)
  BY <1>0, <1>2, <1>3 DEF Offline, At, Runs
<1>4. CASE GraceOver(s)
  <2>1. CASE s \in marks
    BY <1>0, <1>4, <2>1, EndsFacts DEF GraceOver, Runs
  <2>2. CASE s \notin marks
    BY <1>0, <1>2, <1>4, <2>2 DEF GraceOver, At, Runs
  <2> QED
    BY <2>1, <2>2
<1>5. CASE ManualRaid(s)
  BY <1>0, <1>2, <1>5 DEF ManualRaid, At, Runs
<1> QED
  BY <1>3, <1>4, <1>5

(* Only three steps touch the flows of the store other than removing some. *)
StoreKept ==
    /\ UNCHANGED <<pairOf, flows, confirms, revived>>
    /\ \A p \in Pairs : pending'[p] \in {0, pending[p]}

LEMMA StoreMoves ==
    ASSUME TypeOK, [Next]_vars
    PROVE  \/ \E a \in Actors : Register(a) \/ StorePending(a) \/ Confirm(a)
           \/ StoreKept
<1> USE DEF memory, database, twitch, history, StoreKept
<1>a. ASSUME NEW a \in Actors,
             \/ Replay(a) \/ Finish(a) \/ Recall(a) \/ WritePartner(a)
             \/ WriteExternal(a) \/ StoreOrphan(a) \/ Independent(a)
             \/ MarkManualRaidStarted(a) \/ NoRaid(a)
      PROVE  StoreKept
  BY <1>a DEF Replay, Finish, Recall, WritePartner, WriteExternal, StoreOrphan,
              Independent, MarkManualRaidStarted, NoRaid
<1>b. ASSUME NEW a \in Actors, NEW t \in Targets, StartRaid(a, t) \/ Hear(a, t)
      PROVE  StoreKept
  BY <1>b DEF StartRaid, Hear
<1>c. ASSUME NEW p \in Pairs,
             \/ OwnRaid(p) \/ ObserveOwnRaid(p) \/ Land(p) \/ CallOff(p)
             \/ ClaimStaleOrphan(p) \/ PromoteOrphan(p)
      PROVE  StoreKept
  BY <1>c DEF OwnRaid, ObserveOwnRaid, Land, CallOff, ClaimStaleOrphan, PromoteOrphan
<1>d. ASSUME NEW p \in Pairs, Sweep(p) PROVE StoreKept
  BY <1>d DEF Sweep, TypeOK
<1>e. ASSUME NEW p \in Pairs, SelfUnraid(p) PROVE StoreKept
  BY <1>e DEF SelfUnraid, CancelFromSource
<1>f. ASSUME NEW s \in Sources,
             Offline(s) \/ GraceOver(s) \/ ManualRaid(s) \/ MarkExpires(s)
      PROVE  StoreKept
  BY <1>f DEF Offline, GraceOver, ManualRaid, MarkExpires
<1>g. ASSUME NEW s \in Sources, GoLive(s) PROVE StoreKept
  BY <1>g DEF GoLive, CancelFromSource
<1>h. ASSUME NEW t \in Targets, Blacklist(t) \/ CleanupDue(t) PROVE StoreKept
  BY <1>h DEF Blacklist, CleanupDue
<1>i. CASE Restart
  BY <1>i DEF Restart
<1>j. CASE UNCHANGED vars
  BY <1>j DEF vars
<1> QED
  BY <1>a, <1>b, <1>c, <1>d, <1>e, <1>f, <1>g, <1>h, <1>i, <1>j DEF Next, TaskStep

(* The same of every task and every step.                                  *)
CopyKept(a) ==
    \/ act'[a].flow = 0
    \/ act'[a].flow = act[a].flow /\ act'[a].to = act[a].to
    \/ /\ <<a[2], act'[a].to>> \in Pairs
       /\ act'[a].flow = pending[<<a[2], act'[a].to>>]

LEMMA CopiesMove ==
    ASSUME TypeOK, Shape, [Next]_vars, NEW c \in Actors PROVE CopyKept(c)
<1> USE DEF memory, database, twitch, history
<1>a. ASSUME NEW a \in Actors,
             \/ TaskStep(a) \/ NoRaid(a)
             \/ \E t \in Targets : StartRaid(a, t) \/ Hear(a, t)
      PROVE  CopyKept(c)
  BY <1>a, TaskCopies DEF CopyKept
<1>b. ASSUME NEW s \in Sources, Offline(s) \/ GraceOver(s) \/ ManualRaid(s)
      PROVE  CopyKept(c)
  BY <1>b, SourceMoves DEF CopyKept
<1>c. ASSUME NEW p \in Pairs,
             \/ OwnRaid(p) \/ ObserveOwnRaid(p) \/ Land(p) \/ CallOff(p)
             \/ ClaimStaleOrphan(p) \/ PromoteOrphan(p) \/ Sweep(p) \/ SelfUnraid(p)
      PROVE  act' = act
  BY <1>c DEF OwnRaid, ObserveOwnRaid, Land, CallOff, ClaimStaleOrphan, PromoteOrphan,
              Sweep, SelfUnraid
<1>d. ASSUME NEW s \in Sources, GoLive(s) \/ MarkExpires(s) PROVE act' = act
  BY <1>d DEF GoLive, MarkExpires
<1>e. ASSUME NEW t \in Targets, Blacklist(t) \/ CleanupDue(t) PROVE act' = act
  BY <1>e DEF Blacklist, CleanupDue
<1>f. CASE Restart
  BY <1>f, IdleFacts DEF Restart, CopyKept
<1>g. CASE UNCHANGED vars
  BY <1>g DEF vars, CopyKept
<1>h. ASSUME act' = act PROVE CopyKept(c)
  BY <1>h DEF CopyKept
<1> QED
  BY <1>a, <1>b, <1>c, <1>d, <1>e, <1>f, <1>g, <1>h DEF Next

LEMMA FlowStep == TypeOK /\ TypeOK' /\ Shape /\ FlowInv /\ [Next]_vars => FlowInv'
<1> SUFFICES ASSUME TypeOK, TypeOK', Shape, FlowInv, [Next]_vars PROVE FlowInv'
  OBVIOUS
<1>t. /\ flows \in Nat /\ \A f \in Flows : f \in Nat \ {0} /\ pairOf[f] \in Pairs
      /\ 1..flows \subseteq Flows
  BY RaidsAssumption DEF TypeOK, Flows
<1>1. /\ flows' \in Nat /\ flows' >= flows
      /\ \A f \in 1..flows : pairOf'[f] = pairOf[f]
  <2>1. ASSUME NEW a \in Actors, Register(a)
        PROVE  flows' = flows + 1 /\ \A f \in 1..flows : pairOf'[f] = pairOf[f]
    BY <1>t, <2>1 DEF Register, TypeOK
  <2>2. ASSUME NEW a \in Actors, StorePending(a) \/ Confirm(a)
        PROVE  flows' = flows /\ pairOf' = pairOf
    BY <2>2 DEF StorePending, Confirm
  <2> QED
    BY <1>t, <2>1, <2>2, StoreMoves DEF StoreKept
<1>2. ASSUME NEW c \in Actors PROVE CopyOk(c)'
  <2> SUFFICES ASSUME act'[c].flow # 0
               PROVE  act'[c].flow \in 1..flows /\ pairOf[act'[c].flow] = <<c[2], act'[c].to>>
    BY <1>1, <1>t DEF CopyOk, Pair
  <2> QED
    BY CopiesMove DEF CopyKept, CopyOk, PendingOk, FlowInv, Pair
<1>3. ASSUME NEW p \in Pairs PROVE PendingOk(p)'
  <2>1. ASSUME NEW a \in Actors, Register(a) PROVE PendingOk(p)'
    <3>1. \/ pending'[p] = 0 \/ pending'[p] = pending[p]
          \/ p = Pair(a) /\ pending'[p] = flows + 1
      BY <2>1 DEF Register
    <3>2. flows' = flows + 1 /\ flows + 1 \in Flows /\ pairOf'[flows + 1] = Pair(a)
      BY <2>1, <1>t DEF Register, TypeOK, Flows
    <3> QED
      BY <3>1, <3>2, <1>1, <1>t DEF PendingOk, FlowInv
  <2>2. ASSUME NEW a \in Actors, StorePending(a) PROVE PendingOk(p)'
    <3>1. \/ pending'[p] = pending[p]
          \/ p = Pair(a) /\ pending'[p] = act[a].flow
      <4>1. pending' = [pending EXCEPT ![Pair(a)] = act[a].flow]
        BY <2>2 DEF StorePending
      <4>2. CASE p = Pair(a)
        <5>1. pending'[p] = act[a].flow
          BY <4>1, <4>2 DEF TypeOK
        <5> QED
          BY <4>2, <5>1
      <4>3. CASE p # Pair(a)
        <5>1. pending'[p] = pending[p]
          BY <4>1, <4>3 DEF TypeOK
        <5> QED
          BY <5>1
      <4> QED
        BY <4>2, <4>3
    <3> QED
      BY <3>1, <1>1, <1>t DEF PendingOk, FlowInv, CopyOk
  <2>3. ASSUME NEW a \in Actors, Confirm(a) PROVE PendingOk(p)'
    <3>1. pending'[p] \in {0, pending[p]}
      BY <2>3 DEF Confirm, TypeOK
    <3> QED
      BY <3>1, <1>1, <1>t DEF PendingOk, FlowInv
  <2>4. ASSUME StoreKept PROVE PendingOk(p)'
    BY <2>4, <1>1, <1>t DEF StoreKept, PendingOk, FlowInv
  <2> QED
    BY <2>1, <2>2, <2>3, <2>4, StoreMoves
<1>4. ASSUME NEW f \in Flows, confirms'[f] > 0 PROVE f <= flows'
  <2>1. ASSUME NEW a \in Actors, Confirm(a) PROVE f <= flows
    <3>1. \/ confirms'[f] = confirms[f]
          \/ f = pending[Pair(a)] /\ pending[Pair(a)] # 0
      <4>1. CASE pending[Pair(a)] = 0
        <5>1. UNCHANGED confirms
          BY <2>1, <4>1 DEF Confirm
        <5> QED
          BY <5>1
      <4>2. CASE pending[Pair(a)] # 0
        <5>1. confirms' = [confirms EXCEPT ![pending[Pair(a)]] = @ + 1]
          BY <2>1, <4>2 DEF Confirm
        <5> QED
          BY <4>2, <5>1 DEF TypeOK
      <4> QED
        BY <4>1, <4>2
    <3> QED
      BY <1>4, <3>1, <1>t, PairFacts DEF FlowInv, PendingOk, TypeOK
  <2>2. ASSUME NEW a \in Actors, Register(a) \/ StorePending(a) PROVE confirms' = confirms
    BY <2>2 DEF Register, StorePending
  <2> QED
    BY <1>4, <2>1, <2>2, <1>1, <1>t, StoreMoves DEF StoreKept, FlowInv, TypeOK
<1> QED
  BY <1>2, <1>3, <1>4 DEF FlowInv

LEMMA OnceStep ==
    TypeOK /\ TypeOK' /\ Shape /\ FlowInv /\ ConfirmedOncePerStore /\ [Next]_vars
        => ConfirmedOncePerStore'
<1> DEFINE Bound(f, p) ==
      confirms[f] + (IF pending[p] = f THEN 1 ELSE 0) <=
        (IF f <= flows THEN 1 ELSE 0) + revived[f]
<1> SUFFICES ASSUME TypeOK, TypeOK', Shape, FlowInv, ConfirmedOncePerStore, [Next]_vars,
                    NEW f \in Flows, NEW p \in Pairs
             PROVE  Bound(f, p)'
  BY DEF ConfirmedOncePerStore
<1>t. /\ flows \in Nat /\ f \in Nat \ {0} /\ confirms[f] \in Nat /\ revived[f] \in Nat
      /\ pending[p] \in 0..MaxRaids
  BY RaidsAssumption DEF TypeOK, Flows
<1>0. Bound(f, p) /\ (confirms[f] > 0 => f <= flows) /\ PendingOk(p)
  BY DEF ConfirmedOncePerStore, FlowInv
<1>1. ASSUME NEW a \in Actors, Register(a) PROVE Bound(f, p)'
  <2>1. /\ flows' = flows + 1 /\ UNCHANGED <<confirms, revived>>
        /\ \/ pending'[p] = 0 \/ pending'[p] = pending[p]
           \/ pending'[p] = flows + 1
    BY <1>1 DEF Register
  <2> QED
    BY <1>0, <1>t, <2>1 DEF PendingOk
<1>2. ASSUME NEW a \in Actors, StorePending(a) PROVE Bound(f, p)'
  <2>1. /\ UNCHANGED <<flows, confirms>>
        /\ pending' = [pending EXCEPT ![Pair(a)] = act[a].flow]
        /\ revived' = [revived EXCEPT ![act[a].flow] =
                         IF pending[Pair(a)] = act[a].flow THEN @ ELSE @ + 1]
    BY <1>2 DEF StorePending
  <2>2. CASE f = act[a].flow
    <3>1. CASE pending[Pair(a)] = f
      <4>1. revived'[f] = revived[f] /\ pending'[p] = pending[p]
        BY <2>1, <2>2, <3>1 DEF TypeOK
      <4> QED
        BY <1>0, <2>1, <4>1
    <3>2. CASE pending[Pair(a)] # f
      <4>1. revived'[f] = revived[f] + 1
        BY <2>1, <2>2, <3>2 DEF TypeOK
      <4>2. confirms[f] <= (IF f <= flows THEN 1 ELSE 0) + revived[f]
        BY <1>0, <1>t
      <4> QED
        BY <1>t, <2>1, <4>1, <4>2
    <3> QED
      BY <3>1, <3>2
  <2>3. CASE f # act[a].flow
    <3>1. revived'[f] = revived[f]
      BY <2>1, <2>3 DEF TypeOK
    <3>2. pending'[p] = f => pending[p] = f
      BY <2>1, <2>3 DEF TypeOK
    <3> QED
      BY <1>0, <1>t, <2>1, <3>1, <3>2
  <2> QED
    BY <2>2, <2>3
<1>3. ASSUME NEW a \in Actors, Confirm(a) PROVE Bound(f, p)'
  <2>0. UNCHANGED <<flows, revived>>
    BY <1>3 DEF Confirm
  <2>1. CASE pending[Pair(a)] = 0
    <3>1. UNCHANGED <<pending, confirms>>
      BY <1>3, <2>1 DEF Confirm
    <3> QED
      BY <1>0, <2>0, <3>1
  <2>2. CASE pending[Pair(a)] # 0
    <3>1. /\ pending' = [pending EXCEPT ![Pair(a)] = 0]
          /\ confirms' = [confirms EXCEPT ![pending[Pair(a)]] = @ + 1]
      BY <1>3, <2>2 DEF Confirm
    <3>p. Pair(a) \in Pairs
      BY PairFacts
    <3>2. CASE f = pending[Pair(a)]
      <4>1. Bound(f, Pair(a)) /\ f <= flows
        BY <3>p, <3>2, <1>t DEF ConfirmedOncePerStore, FlowInv, PendingOk
      <4>2. confirms'[f] = confirms[f] + 1
        BY <3>1, <3>2 DEF TypeOK
      <4>3. pending'[p] # f
        <5>1. CASE p = Pair(a)
          BY <1>t, <3>1, <5>1 DEF TypeOK
        <5>2. CASE p # Pair(a)
          <6>1. PendingOk(p) /\ PendingOk(Pair(a))
            BY <3>p DEF FlowInv
          <6>2. pending[p] # f
            BY <1>t, <3>2, <5>2, <6>1 DEF PendingOk
          <6> QED
            BY <3>1, <5>2, <6>2 DEF TypeOK
        <5> QED
          BY <5>1, <5>2
      <4> QED
        BY <1>t, <2>0, <3>2, <4>1, <4>2, <4>3
    <3>3. CASE f # pending[Pair(a)]
      <4>1. confirms'[f] = confirms[f]
        BY <3>1, <3>3 DEF TypeOK
      <4>2. pending'[p] = f => pending[p] = f
        BY <1>t, <3>1 DEF TypeOK
      <4> QED
        BY <1>0, <1>t, <2>0, <4>1, <4>2
    <3> QED
      BY <3>2, <3>3
  <2> QED
    BY <2>1, <2>2
<1>4. ASSUME StoreKept PROVE Bound(f, p)'
  BY <1>0, <1>4, <1>t DEF StoreKept
<1> QED
  BY <1>1, <1>2, <1>3, <1>4, StoreMoves

FlowsInv == TypeInv /\ FlowInv /\ ConfirmedOncePerStore

LEMMA FlowsInvariant == Spec => []FlowsInv
<1>1. Init => FlowsInv
  <2> SUFFICES ASSUME Init PROVE FlowsInv
    OBVIOUS
  <2>1. TypeInv
    BY TypeInit
  <2>2. FlowInv
    BY IdleFacts DEF Init, FlowInv, PendingOk, CopyOk
  <2>3. ConfirmedOncePerStore
    BY DEF Init, ConfirmedOncePerStore, Flows
  <2> QED
    BY <2>1, <2>2, <2>3 DEF FlowsInv
<1>2. FlowsInv /\ [Next]_vars => FlowsInv'
  BY TypeStep, ShapeStep, FlowStep, OnceStep DEF FlowsInv, TypeInv
<1> QED
  BY <1>1, <1>2, PTL DEF Spec

(* However the handlers interleave, a flow is taken for confirmation once  *)
(* for its registration and once for each stale copy that was put back.    *)
THEOREM OncePerStore == Spec => []ConfirmedOncePerStore
<1>1. FlowsInv => ConfirmedOncePerStore
  BY DEF FlowsInv
<1> QED
  BY <1>1, FlowsInvariant, PTL

-----------------------------------------------------------------------------
(* Only raids that Twitch executed are recorded. *)

(* Where a task of a raid, of a chat notification or of a run knows that   *)
(* Twitch executed its raid.                                               *)
Late == {"look", "store", "confirm", "write", "orphan", "independent", "mark"}

LandedOf(a) == a[1] # "unraid" /\ act[a].at \in Late => Pair(a) \in landed

LandedInv ==
    /\ arrivals \subseteq landed
    /\ orphans \subseteq landed /\ promoting \subseteq landed
    /\ \A k \in {"raid", "chat"}, p \in Pairs : <<k, p>> \in inbound => p \in landed
    /\ \A a \in Actors : LandedOf(a)
    /\ \A f \in Flows : confirms[f] > 0 => pairOf[f] \in landed

(* A task gets there from there, from an orphan, or by a signal.           *)
LateKept(a) ==
    act'[a].at \in Late =>
      \/ act[a].at \in Late /\ act'[a].to = act[a].to
      \/ <<a[2], act'[a].to>> \in orphans
      \/ /\ a[1] \in Signals /\ <<a[1], <<a[2], act'[a].to>>>> \in inbound
         /\ a[1] # "unraid" => <<a[2], act'[a].to>> \in heard'

LEMMA TaskLate ==
    ASSUME TypeOK, Shape, NEW a \in Actors,
           \/ TaskStep(a) \/ NoRaid(a)
           \/ \E t \in Targets : StartRaid(a, t) \/ Hear(a, t)
    PROVE  LateKept(a)
<1>n. /\ "idle" \notin Late /\ "finish" \notin Late /\ "replay" \notin Late
      /\ "register" \notin Late
  BY DEF Late
<1>g. ASSUME NEW st, Goes(a, st), st \in Late => act[a].at \in Late PROVE LateKept(a)
  <2>1. act'[a].at = st /\ act'[a].to = act[a].to
    BY <1>g DEF Goes, TypeOK, Tasks
  <2> QED
    BY <1>g, <2>1 DEF LateKept
<1>e. ASSUME Ends(a) PROVE LateKept(a)
  BY <1>e, <1>n, EndsFacts DEF LateKept
<1>r. ASSUME Returns(a) PROVE LateKept(a)
  BY <1>r, <1>e, <1>g, <1>n DEF Returns
<1>1. CASE Register(a)
  BY <1>1, <1>g, <1>n DEF Register
<1>2. CASE Replay(a)
  <2>1. CASE Pair(a) \in orphans
    <3>1. act'[a].to = act[a].to
      BY <1>2 DEF Replay, Goes, TypeOK, Tasks
    <3> QED
      BY <2>1, <3>1 DEF LateKept, Pair
  <2>2. CASE Pair(a) \notin orphans
    BY <1>2, <1>g, <1>n, <2>2 DEF Replay
  <2> QED
    BY <2>1, <2>2
<1>3. CASE Finish(a) \/ StoreOrphan(a) \/ MarkManualRaidStarted(a) \/ NoRaid(a)
  BY <1>3, <1>e DEF Finish, StoreOrphan, MarkManualRaidStarted, NoRaid
<1>4. CASE Recall(a) \/ StorePending(a) \/ Independent(a)
  <2>1. act[a].at \in Late
    BY <1>4 DEF Recall, StorePending, Independent, At, Late
  <2> QED
    BY <1>4, <1>e, <1>g, <2>1 DEF Recall, StorePending, Independent
<1>6. CASE Confirm(a)
  <2>1. CASE pending[Pair(a)] = 0
    <3>1. Returns(a)
      BY <1>6, <2>1 DEF Confirm
    <3> QED
      BY <3>1, <1>r
  <2>2. CASE pending[Pair(a)] # 0
    <3>1. act' = [act EXCEPT ![a].at = "write", ![a].flow = pending[Pair(a)]]
      BY <1>6, <2>2 DEF Confirm
    <3>2. act'[a].to = act[a].to
      BY <3>1 DEF TypeOK, Tasks
    <3> QED
      BY <1>6, <3>2 DEF Confirm, At, Late, LateKept
  <2> QED
    BY <2>1, <2>2
<1>7. CASE WritePartner(a) \/ WriteExternal(a)
  BY <1>7, <1>r DEF WritePartner, WriteExternal
<1>13. ASSUME NEW t \in Targets, StartRaid(a, t) PROVE LateKept(a)
  <2>1. CASE act' = [act EXCEPT ![a].at = "register", ![a].to = t]
    <3>1. act'[a].at = "register"
      BY <2>1 DEF TypeOK, Tasks
    <3> QED
      BY <1>n, <3>1 DEF LateKept
  <2> QED
    BY <1>13, <1>e, <2>1 DEF StartRaid
<1>14. ASSUME NEW t \in Targets, Hear(a, t) PROVE LateKept(a)
  <2>1. /\ act' = [act EXCEPT ![a] = [at |-> "look", to |-> t, flow |-> pending[<<a[2], t>>]]]
        /\ a[1] \in Signals /\ <<a[1], <<a[2], t>>>> \in inbound
        /\ a[1] # "unraid" => <<a[2], t>> \in heard'
    BY <1>14 DEF Hear
  <2>2. act'[a].to = t
    BY <2>1 DEF TypeOK
  <2> QED
    BY <2>1, <2>2 DEF LateKept
<1> QED
  BY <1>1, <1>2, <1>3, <1>4, <1>6, <1>7, <1>13, <1>14 DEF TaskStep

LEMMA LateMoves ==
    ASSUME TypeOK, Shape, [Next]_vars, NEW c \in Actors PROVE LateKept(c)
<1> USE DEF memory, database, twitch, history
<1>h. ASSUME act'[c] = act[c] PROVE LateKept(c)
  BY <1>h DEF LateKept
<1>a. ASSUME NEW a \in Actors,
             \/ TaskStep(a) \/ NoRaid(a)
             \/ \E t \in Targets : StartRaid(a, t) \/ Hear(a, t)
      PROVE  LateKept(c)
  BY <1>a, <1>h, TaskLate, TaskMoves
<1>b. ASSUME NEW s \in Sources, Offline(s) \/ GraceOver(s) \/ ManualRaid(s)
      PROVE  LateKept(c)
  BY <1>b, <1>h, SourceMoves DEF LateKept, Late
<1>c. ASSUME NEW p \in Pairs,
             \/ OwnRaid(p) \/ ObserveOwnRaid(p) \/ Land(p) \/ CallOff(p)
             \/ ClaimStaleOrphan(p) \/ PromoteOrphan(p) \/ Sweep(p) \/ SelfUnraid(p)
      PROVE  act' = act
  BY <1>c DEF OwnRaid, ObserveOwnRaid, Land, CallOff, ClaimStaleOrphan, PromoteOrphan,
              Sweep, SelfUnraid
<1>d. ASSUME NEW s \in Sources, GoLive(s) \/ MarkExpires(s) PROVE act' = act
  BY <1>d DEF GoLive, MarkExpires
<1>e. ASSUME NEW t \in Targets, Blacklist(t) \/ CleanupDue(t) PROVE act' = act
  BY <1>e DEF Blacklist, CleanupDue
<1>f. CASE Restart
  <2>1. act'[c].at = "idle"
    BY <1>f, IdleFacts DEF Restart
  <2> QED
    BY <2>1 DEF LateKept, Late
<1>g. CASE UNCHANGED vars
  BY <1>g, <1>h DEF vars
<1> QED
  BY <1>a, <1>b, <1>c, <1>d, <1>e, <1>f, <1>g, <1>h DEF Next

LEMMA LateLanded ==
    ASSUME TypeOK, Shape, LandedInv, NEW a \in Actors,
           act[a].at \in {"confirm", "write", "orphan", "independent"}
    PROVE  Pair(a) \in Pairs /\ Pair(a) \in landed
<1>1. act[a].at \in StagesOf(a[1])
  BY DEF Shape, ShapeOf
<1>2. a[1] # "unraid"
  BY <1>1, StagesFacts
<1> QED
  BY <1>2, PairFacts DEF LandedInv, LandedOf, Late

(* What a step adds to what is recorded, and to what is on its way.        *)
LEMMA RecordsLanded ==
    ASSUME TypeOK, Shape, LandedInv, [Next]_vars
    PROVE  /\ landed \subseteq landed'
           /\ arrivals' \subseteq landed /\ orphans' \subseteq landed
           /\ promoting' \subseteq landed
           /\ \A k \in {"raid", "chat"}, p \in Pairs :
                <<k, p>> \in inbound' => p \in landed'
<1> DEFINE Goal == /\ landed \subseteq landed'
                   /\ arrivals' \subseteq landed /\ orphans' \subseteq landed
                   /\ promoting' \subseteq landed
                   /\ \A k \in {"raid", "chat"}, p \in Pairs :
                        <<k, p>> \in inbound' => p \in landed'
<1> USE DEF memory, database, twitch, history
<1>0. /\ arrivals \subseteq landed /\ orphans \subseteq landed
      /\ promoting \subseteq landed
      /\ \A k \in {"raid", "chat"}, p \in Pairs : <<k, p>> \in inbound => p \in landed
  BY DEF LandedInv
<1>a. ASSUME NEW a \in Actors,
             \/ Replay(a) \/ Finish(a) \/ Recall(a) \/ WriteExternal(a)
             \/ MarkManualRaidStarted(a) \/ NoRaid(a) \/ Register(a)
             \/ StorePending(a) \/ Confirm(a)
      PROVE  Goal
  <2>1. UNCHANGED <<landed, arrivals, promoting, inbound>>
    BY <1>a DEF Replay, Finish, Recall, WriteExternal, MarkManualRaidStarted, NoRaid,
                Register, StorePending, Confirm
  <2>2. orphans' \subseteq orphans
    BY <1>a DEF Replay, Finish, Recall, WriteExternal, MarkManualRaidStarted, NoRaid,
                Register, StorePending, Confirm
  <2> QED
    BY <1>0, <2>1, <2>2
<1>b. ASSUME NEW a \in Actors, WritePartner(a) \/ Independent(a) PROVE Goal
  <2>1. Pair(a) \in landed
    BY <1>b, LateLanded DEF WritePartner, Independent, At
  <2>2. arrivals' \subseteq arrivals \cup {Pair(a)}
    BY <1>b DEF WritePartner, Independent, WriteArrival, RecordArrival, RecordFails
  <2>3. UNCHANGED <<landed, orphans, promoting, inbound>>
    BY <1>b DEF WritePartner, Independent
  <2> QED
    BY <1>0, <2>1, <2>2, <2>3
<1>c. ASSUME NEW a \in Actors, StoreOrphan(a) PROVE Goal
  <2>1. Pair(a) \in landed
    BY <1>c, LateLanded DEF StoreOrphan, At
  <2> QED
    BY <1>0, <1>c, <2>1 DEF StoreOrphan
<1>d. ASSUME NEW a \in Actors, NEW t \in Targets, StartRaid(a, t) \/ Hear(a, t)
      PROVE  Goal
  <2>1. UNCHANGED <<landed, arrivals, orphans, promoting>> /\ inbound' \subseteq inbound
    BY <1>d DEF StartRaid, Hear
  <2> QED
    BY <1>0, <2>1
<1>e. ASSUME NEW q \in Pairs, OwnRaid(q) \/ ObserveOwnRaid(q) \/ Sweep(q)
                              \/ SelfUnraid(q) \/ CallOff(q)
      PROVE  Goal
  <2>1. UNCHANGED <<landed, arrivals, orphans, promoting>>
    BY <1>e DEF OwnRaid, ObserveOwnRaid, Sweep, SelfUnraid, CallOff
  <2>2. \A k \in {"raid", "chat"}, p \in Pairs : <<k, p>> \in inbound' => <<k, p>> \in inbound
    BY <1>e DEF OwnRaid, ObserveOwnRaid, Sweep, SelfUnraid, CallOff
  <2> QED
    BY <1>0, <2>1, <2>2
<1>f. ASSUME NEW q \in Pairs, Land(q) PROVE Goal
  BY <1>0, <1>f DEF Land
<1>g. ASSUME NEW q \in Pairs, ClaimStaleOrphan(q) PROVE Goal
  BY <1>0, <1>g DEF ClaimStaleOrphan
<1>h. ASSUME NEW q \in Pairs, PromoteOrphan(q) PROVE Goal
  <2>1. arrivals' \subseteq arrivals \cup {q} /\ q \in promoting
    BY <1>h DEF PromoteOrphan, RecordArrival, RecordFails
  <2>2. UNCHANGED <<landed, orphans, inbound>> /\ promoting' \subseteq promoting
    BY <1>h DEF PromoteOrphan
  <2> QED
    BY <1>0, <2>1, <2>2
<1>i. ASSUME NEW s \in Sources, Offline(s) \/ GraceOver(s) \/ ManualRaid(s) \/ GoLive(s)
                                \/ MarkExpires(s)
      PROVE  Goal
  <2>1. UNCHANGED <<landed, arrivals, orphans, promoting, inbound>>
    BY <1>i DEF Offline, GraceOver, ManualRaid, GoLive, MarkExpires
  <2> QED
    BY <1>0, <2>1
<1>j. ASSUME NEW t \in Targets, Blacklist(t) \/ CleanupDue(t) PROVE Goal
  BY <1>0, <1>j DEF Blacklist, CleanupDue
<1>k. CASE Restart
  BY <1>0, <1>k DEF Restart
<1>l. CASE UNCHANGED vars
  BY <1>0, <1>l DEF vars
<1>m. Goal
  BY <1>a, <1>b, <1>c, <1>d, <1>e, <1>f, <1>g, <1>h, <1>i, <1>j, <1>k, <1>l
     DEF Next, TaskStep
<1> QED
  BY <1>m

LEMMA LandedStep ==
    TypeOK /\ TypeOK' /\ Shape /\ FlowInv /\ LandedInv /\ [Next]_vars => LandedInv'
<1> SUFFICES ASSUME TypeOK, TypeOK', Shape, FlowInv, LandedInv, [Next]_vars
             PROVE  LandedInv'
  OBVIOUS
<1>1. landed \subseteq landed'
  BY RecordsLanded
<1>2. ASSUME NEW c \in Actors PROVE LandedOf(c)'
  <2> SUFFICES ASSUME c[1] # "unraid", act'[c].at \in Late
               PROVE  <<c[2], act'[c].to>> \in landed
    BY <1>1 DEF LandedOf, Pair
  <2>1. CASE act[c].at \in Late /\ act'[c].to = act[c].to
    BY <2>1 DEF LandedInv, LandedOf, Pair
  <2>2. CASE <<c[2], act'[c].to>> \in orphans
    BY <2>2 DEF LandedInv
  <2>3. CASE c[1] \in Signals /\ <<c[1], <<c[2], act'[c].to>>>> \in inbound
    <3>1. c[1] = "raid" \/ c[1] = "chat"
      BY <2>3 DEF Signals
    <3>2. <<c[2], act'[c].to>> \in Pairs
      BY PairFacts DEF TypeOK, Tasks, Pairs
    <3> QED
      BY <2>3, <3>1, <3>2 DEF LandedInv
  <2> QED
    BY <2>1, <2>2, <2>3, LateMoves DEF LateKept
<1>3. ASSUME NEW f \in Flows, confirms'[f] > 0 PROVE pairOf'[f] \in landed
  <2>t. /\ flows \in Nat /\ \A g \in Flows : g \in Nat \ {0} /\ confirms[g] \in Nat
    BY RaidsAssumption DEF TypeOK, Flows
  <2>1. ASSUME NEW a \in Actors, Register(a) PROVE pairOf'[f] = pairOf[f] /\ confirms[f] > 0
    <3>1. confirms' = confirms /\ pairOf' = [pairOf EXCEPT ![flows + 1] = Pair(a)]
      BY <2>1 DEF Register
    <3>2. f <= flows
      BY <1>3, <3>1 DEF FlowInv
    <3> QED
      BY <1>3, <2>t, <3>1, <3>2 DEF TypeOK
  <2>2. ASSUME NEW a \in Actors, StorePending(a) PROVE pairOf'[f] = pairOf[f] /\ confirms[f] > 0
    BY <1>3, <2>2 DEF StorePending
  <2>3. ASSUME NEW a \in Actors, Confirm(a)
        PROVE  pairOf'[f] = pairOf[f] /\ (confirms[f] > 0 \/ pairOf[f] \in landed)
    <3>1. CASE pending[Pair(a)] = 0
      <4>1. UNCHANGED <<pairOf, confirms>>
        BY <2>3, <3>1 DEF Confirm
      <4> QED
        BY <1>3, <4>1
    <3>2. CASE pending[Pair(a)] # 0
      <4>1. pairOf' = pairOf /\ confirms' = [confirms EXCEPT ![pending[Pair(a)]] = @ + 1]
        BY <2>3, <3>2 DEF Confirm
      <4>2. Pair(a) \in Pairs /\ Pair(a) \in landed
        BY <2>3, LateLanded DEF Confirm, At
      <4>3. pairOf[pending[Pair(a)]] = Pair(a)
        BY <3>2, <4>2 DEF FlowInv, PendingOk
      <4>4. CASE f = pending[Pair(a)]
        BY <4>1, <4>2, <4>3, <4>4
      <4>5. CASE f # pending[Pair(a)]
        <5>1. confirms'[f] = confirms[f]
          BY <4>1, <4>5 DEF TypeOK
        <5> QED
          BY <1>3, <4>1, <5>1
      <4> QED
        BY <4>4, <4>5
    <3> QED
      BY <3>1, <3>2
  <2>4. ASSUME StoreKept PROVE pairOf'[f] = pairOf[f] /\ confirms[f] > 0
    BY <1>3, <2>4 DEF StoreKept
  <2> QED
    BY <2>1, <2>2, <2>3, <2>4, StoreMoves DEF LandedInv
<1> QED
  BY <1>1, <1>2, <1>3, RecordsLanded DEF LandedInv

LandsInv == TypeInv /\ FlowInv /\ LandedInv

(* An arrival row or a confirmation stands for an executed raid of that    *)
(* pair, which need not be the raid of the confirmed flow.                 *)
THEOREM OnlyLanded == Spec => []ArrivalsLanded
<1>1. Init => LandsInv
  <2> SUFFICES ASSUME Init PROVE LandsInv
    OBVIOUS
  <2>1. FlowInv
    BY IdleFacts DEF Init, FlowInv, PendingOk, CopyOk
  <2>2. LandedInv
    BY IdleFacts DEF Init, LandedInv, LandedOf, Late
  <2> QED
    BY <2>1, <2>2, TypeInit DEF LandsInv
<1>2. LandsInv /\ [Next]_vars => LandsInv'
  BY TypeStep, ShapeStep, FlowStep, LandedStep DEF LandsInv, TypeInv
<1>3. LandsInv => ArrivalsLanded
  BY DEF LandsInv, LandedInv, ArrivalsLanded
<1> QED
  BY <1>1, <1>2, <1>3, PTL DEF Spec

-----------------------------------------------------------------------------
(* The auto-raid stands back. *)

YieldInv ==
    /\ noted \subseteq marks
    /\ \A s \in Sources : act[<<"auto", s>>].at = "run" => s \notin noted

(* A mark is noted as long as the auto-raid has not looked at the marks    *)
(* for the last time.                                                      *)
NotesKept ==
    /\ noted' \subseteq marks'
    /\ \A s \in noted' : s \in noted \/ act[<<"auto", s>>].at \in {"idle", "grace"}

LEMMA NotesMove ==
    ASSUME TypeOK, YieldInv, [Next]_vars PROVE NotesKept
<1> USE DEF memory, database, twitch, history
<1>0. noted \subseteq marks
  BY DEF YieldInv
<1>m. ASSUME NEW s \in Sources, Mark(s) PROVE NotesKept
  BY <1>0, <1>m DEF Mark, NotesKept
<1>u. ASSUME UNCHANGED <<marks, noted>> PROVE NotesKept
  BY <1>0, <1>u DEF NotesKept
<1>a. ASSUME NEW a \in Actors,
             \/ Replay(a) \/ Recall(a) \/ WriteExternal(a) \/ NoRaid(a) \/ Register(a)
             \/ StorePending(a) \/ Confirm(a) \/ WritePartner(a) \/ Independent(a)
             \/ StoreOrphan(a) \/ \E t \in Targets : StartRaid(a, t) \/ Hear(a, t)
      PROVE  UNCHANGED <<marks, noted>>
  BY <1>a DEF Replay, Recall, WriteExternal, NoRaid, Register, StorePending, Confirm,
              WritePartner, Independent, StoreOrphan, StartRaid, Hear
<1>b. ASSUME NEW a \in Actors, Finish(a) \/ MarkManualRaidStarted(a)
      PROVE  Mark(a[2]) \/ UNCHANGED <<marks, noted>>
  BY <1>b DEF Finish, MarkManualRaidStarted
<1>c. ASSUME NEW p \in Pairs, ObserveOwnRaid(p) \/ PromoteOrphan(p)
      PROVE  Mark(p[1]) \/ UNCHANGED <<marks, noted>>
  BY <1>c DEF ObserveOwnRaid, PromoteOrphan
<1>d. ASSUME NEW p \in Pairs, OwnRaid(p) \/ Land(p) \/ CallOff(p) \/ ClaimStaleOrphan(p)
                              \/ Sweep(p) \/ SelfUnraid(p)
      PROVE  UNCHANGED <<marks, noted>>
  BY <1>d DEF OwnRaid, Land, CallOff, ClaimStaleOrphan, Sweep, SelfUnraid
<1>e. ASSUME NEW s \in Sources, Offline(s) \/ GraceOver(s) \/ ManualRaid(s) \/ GoLive(s)
      PROVE  Mark(s) \/ UNCHANGED <<marks, noted>>
  BY <1>e DEF Offline, GraceOver, ManualRaid, GoLive
<1>f. ASSUME NEW s \in Sources, MarkExpires(s) PROVE NotesKept
  BY <1>0, <1>f DEF MarkExpires, NotesKept
<1>g. ASSUME NEW t \in Targets, Blacklist(t) \/ CleanupDue(t)
      PROVE  UNCHANGED <<marks, noted>>
  BY <1>g DEF Blacklist, CleanupDue
<1>h. CASE Restart
  BY <1>h DEF Restart, NotesKept
<1>i. CASE UNCHANGED vars
  BY <1>i, <1>u DEF vars
<1>j. /\ \A a \in Actors : a[2] \in Sources
      /\ \A p \in Pairs : p[1] \in Sources
  BY Kinds DEF Pairs
<1> QED
  BY <1>a, <1>b, <1>c, <1>d, <1>e, <1>f, <1>g, <1>h, <1>i, <1>j, <1>m, <1>u
     DEF Next, TaskStep

(* An auto-raid comes to its run only from the end of its grace, and only  *)
(* without a mark.                                                         *)
RunKept(s) ==
    act'[<<"auto", s>>].at = "run" =>
      \/ act[<<"auto", s>>].at = "run"
      \/ s \notin marks /\ UNCHANGED noted

LEMMA TaskNotRun ==
    ASSUME TypeOK, Shape, NEW a \in Actors,
           \/ TaskStep(a) \/ NoRaid(a)
           \/ \E t \in Targets : StartRaid(a, t) \/ Hear(a, t)
    PROVE  act'[a].at # "run"
<1>g. ASSUME NEW st, Goes(a, st), st # "run" PROVE act'[a].at # "run"
  BY <1>g DEF Goes, TypeOK, Tasks
<1>e. ASSUME Ends(a) PROVE act'[a].at # "run"
  BY <1>e, EndsFacts
<1>r. ASSUME Returns(a) PROVE act'[a].at # "run"
  BY <1>r, <1>g, <1>e DEF Returns
<1>1. CASE Register(a) \/ Replay(a) \/ Independent(a)
  BY <1>1, <1>g DEF Register, Replay, Independent
<1>3. CASE Finish(a) \/ StoreOrphan(a) \/ MarkManualRaidStarted(a) \/ NoRaid(a)
  BY <1>3, <1>e DEF Finish, StoreOrphan, MarkManualRaidStarted, NoRaid
<1>4. CASE Recall(a)
  <2>1. \A recent \in BOOLEAN : Plan(a[1], act[a].to, act[a].flow, recent) # "run"
    BY DEF Plan
  <2> QED
    BY <1>4, <1>e, <1>g, <2>1 DEF Recall
<1>5. CASE StorePending(a)
  BY <1>5, <1>e, <1>g DEF StorePending
<1>6. CASE Confirm(a)
  <2>1. CASE pending[Pair(a)] = 0
    <3>1. Returns(a)
      BY <1>6, <2>1 DEF Confirm
    <3> QED
      BY <3>1, <1>r
  <2>2. CASE pending[Pair(a)] # 0
    <3>1. act' = [act EXCEPT ![a].at = "write", ![a].flow = pending[Pair(a)]]
      BY <1>6, <2>2 DEF Confirm
    <3> QED
      BY <3>1 DEF TypeOK, Tasks
  <2> QED
    BY <2>1, <2>2
<1>7. CASE WritePartner(a) \/ WriteExternal(a)
  BY <1>7, <1>r DEF WritePartner, WriteExternal
<1>13. ASSUME NEW t \in Targets, StartRaid(a, t) PROVE act'[a].at # "run"
  <2>1. CASE act' = [act EXCEPT ![a].at = "register", ![a].to = t]
    BY <2>1 DEF TypeOK, Tasks
  <2> QED
    BY <1>13, <1>e, <2>1 DEF StartRaid
<1>14. ASSUME NEW t \in Targets, Hear(a, t) PROVE act'[a].at # "run"
  BY <1>14 DEF Hear, TypeOK
<1> QED
  BY <1>1, <1>3, <1>4, <1>5, <1>6, <1>7, <1>13, <1>14 DEF TaskStep

LEMMA RunMoves ==
    ASSUME TypeOK, Shape, [Next]_vars, NEW s \in Sources PROVE RunKept(s)
<1> USE DEF memory, database, twitch, history
<1>0. <<"auto", s>> \in Actors
  BY DEF Actors, Runs
<1>h. ASSUME act'[<<"auto", s>>] = act[<<"auto", s>>] PROVE RunKept(s)
  BY <1>h DEF RunKept
<1>a. ASSUME NEW a \in Actors,
             \/ TaskStep(a) \/ NoRaid(a)
             \/ \E t \in Targets : StartRaid(a, t) \/ Hear(a, t)
      PROVE  RunKept(s)
  BY <1>0, <1>a, <1>h, TaskNotRun, TaskMoves DEF RunKept
<1>b. ASSUME NEW r \in Sources, Offline(r) PROVE RunKept(s)
  BY <1>0, <1>b DEF Offline, Goes, TypeOK, Tasks, RunKept
<1>c. ASSUME NEW r \in Sources, GraceOver(r) PROVE RunKept(s)
  <2>1. CASE r = s
    <3>1. CASE s \in marks
      BY <1>0, <1>c, <2>1, <3>1, EndsFacts DEF GraceOver, RunKept
    <3>2. CASE s \notin marks
      BY <1>c, <3>2 DEF GraceOver, RunKept
    <3> QED
      BY <3>1, <3>2
  <2>2. CASE r # s
    <3>1. act'[<<"auto", s>>] = act[<<"auto", s>>]
      BY <1>0, <1>c, <2>2 DEF GraceOver, Goes, Ends, TypeOK
    <3> QED
      BY <3>1, <1>h
  <2> QED
    BY <2>1, <2>2
<1>d. ASSUME NEW r \in Sources, ManualRaid(r) PROVE RunKept(s)
  <2>1. act'[<<"auto", s>>] = act[<<"auto", s>>]
    BY <1>0, <1>d DEF ManualRaid, Goes, TypeOK
  <2> QED
    BY <2>1, <1>h
<1>e. ASSUME NEW p \in Pairs,
             \/ OwnRaid(p) \/ ObserveOwnRaid(p) \/ Land(p) \/ CallOff(p)
             \/ ClaimStaleOrphan(p) \/ PromoteOrphan(p) \/ Sweep(p) \/ SelfUnraid(p)
      PROVE  act' = act
  BY <1>e DEF OwnRaid, ObserveOwnRaid, Land, CallOff, ClaimStaleOrphan, PromoteOrphan,
              Sweep, SelfUnraid
<1>f. ASSUME NEW r \in Sources, GoLive(r) \/ MarkExpires(r) PROVE act' = act
  BY <1>f DEF GoLive, MarkExpires
<1>g. ASSUME NEW t \in Targets, Blacklist(t) \/ CleanupDue(t) PROVE act' = act
  BY <1>g DEF Blacklist, CleanupDue
<1>i. CASE Restart
  <2>1. act'[<<"auto", s>>].at = "idle"
    BY <1>0, <1>i, IdleFacts DEF Restart
  <2> QED
    BY <2>1 DEF RunKept
<1>j. CASE UNCHANGED vars
  BY <1>j, <1>h DEF vars
<1> QED
  BY <1>a, <1>b, <1>c, <1>d, <1>e, <1>f, <1>g, <1>h, <1>i, <1>j DEF Next

YieldsInv == TypeInv /\ YieldInv

(* No auto-raid is started for a streamer whose own raid was noted before  *)
(* the end of the grace.                                                   *)
THEOREM AutoYields == Spec => AutoRaidYields
<1>1. Init => YieldsInv
  <2>1. \A s \in Sources : <<"auto", s>> \in Actors
    BY DEF Actors, Runs
  <2> QED
    BY <2>1, TypeInit, IdleFacts DEF YieldsInv, YieldInv, Init
<1>2. YieldsInv /\ [Next]_vars => YieldsInv'
  <2> SUFFICES ASSUME YieldsInv, [Next]_vars PROVE YieldInv'
    BY TypeStep, ShapeStep DEF YieldsInv, TypeInv
  <2>1. NotesKept /\ \A s \in Sources : RunKept(s)
    BY NotesMove, RunMoves DEF YieldsInv, TypeInv
  <2>2. ASSUME NEW s \in Sources, act'[<<"auto", s>>].at = "run" PROVE s \notin noted'
    <3>1. CASE act[<<"auto", s>>].at = "run"
      BY <2>1, <3>1 DEF NotesKept, YieldsInv, YieldInv
    <3>2. CASE s \notin marks /\ UNCHANGED noted
      BY <3>2 DEF YieldsInv, YieldInv
    <3> QED
      BY <2>1, <2>2, <3>1, <3>2 DEF RunKept
  <2> QED
    BY <2>1, <2>2 DEF NotesKept, YieldInv
<1>3. YieldsInv => \A s \in Sources, t \in Targets : StartRaid(<<"auto", s>>, t) => s \notin noted
  BY DEF YieldsInv, YieldInv, StartRaid, At
<1> QED
  BY <1>1, <1>2, <1>3, PTL DEF Spec, AutoRaidYields

-----------------------------------------------------------------------------
(* The recruitment blacklist. *)

(* What is registered or confirmed stays so.                               *)
LEMMA FlowsGrow ==
    ASSUME TypeOK, [Next]_vars
    PROVE  /\ flows' \in Nat /\ flows' >= flows
           /\ \A f \in 1..flows : pairOf'[f] = pairOf[f]
           /\ \A f \in Flows : confirms[f] > 0 => confirms'[f] > 0
<1>t. /\ flows \in Nat /\ 1..flows \subseteq Flows
      /\ \A f \in Flows : confirms[f] \in Nat
  BY RaidsAssumption DEF TypeOK, Flows
<1> DEFINE Goal == /\ flows' \in Nat /\ flows' >= flows
                   /\ \A f \in 1..flows : pairOf'[f] = pairOf[f]
                   /\ \A f \in Flows : confirms[f] > 0 => confirms'[f] > 0
<1>1. ASSUME NEW a \in Actors, Register(a) PROVE Goal
  BY <1>t, <1>1 DEF Register, TypeOK
<1>2. ASSUME NEW a \in Actors, StorePending(a) PROVE Goal
  BY <1>t, <1>2 DEF StorePending
<1>3. ASSUME NEW a \in Actors, Confirm(a) PROVE Goal
  <2>1. CASE pending[Pair(a)] = 0
    <3>1. UNCHANGED <<flows, pairOf, confirms>>
      BY <1>3, <2>1 DEF Confirm
    <3> QED
      BY <1>t, <3>1
  <2>2. CASE pending[Pair(a)] # 0
    <3>1. /\ UNCHANGED <<flows, pairOf>>
          /\ confirms' = [confirms EXCEPT ![pending[Pair(a)]] = @ + 1]
      BY <1>3, <2>2 DEF Confirm
    <3>2. ASSUME NEW f \in Flows, confirms[f] > 0 PROVE confirms'[f] > 0
      BY <1>t, <3>1, <3>2 DEF TypeOK
    <3> QED
      BY <1>t, <3>1, <3>2
  <2> QED
    BY <2>1, <2>2
<1>4. ASSUME StoreKept PROVE Goal
  BY <1>t, <1>4 DEF StoreKept
<1>5. Goal
  BY <1>1, <1>2, <1>3, <1>4, StoreMoves
<1> QED
  BY <1>5

(* The rows of a target are the flows counted for it, each confirmed.      *)
Counted(t) == {f \in external : pairOf[f][2] = t}

EarnedInv ==
    /\ \A f \in external : f \in 1..flows /\ confirms[f] > 0
    /\ \A a \in Actors : act[a].at = "write" => confirms[act[a].flow] > 0
    /\ \A t \in Targets : rows[t] = Cardinality(Counted(t))
    /\ \A t \in due \cup blacklist : rows[t] >= EXTERNAL_RECRUITMENT_RAID_LIMIT

CountsKept ==
    /\ UNCHANGED <<external, rows>>
    /\ due' \cup blacklist' \subseteq due \cup blacklist

LEMMA CountsMove ==
    ASSUME TypeOK, [Next]_vars
    PROVE  (\E a \in Actors : WriteExternal(a)) \/ CountsKept
<1> USE DEF memory, database, twitch, history, CountsKept
<1>a. ASSUME NEW a \in Actors,
             \/ Replay(a) \/ Finish(a) \/ Recall(a) \/ NoRaid(a) \/ Register(a)
             \/ StorePending(a) \/ Confirm(a) \/ Independent(a)
             \/ StoreOrphan(a) \/ MarkManualRaidStarted(a)
             \/ \E t \in Targets : StartRaid(a, t) \/ Hear(a, t)
      PROVE  CountsKept
  BY <1>a DEF Replay, Finish, Recall, NoRaid, Register, StorePending, Confirm,
              Independent, StoreOrphan, MarkManualRaidStarted, StartRaid, Hear
<1>b. ASSUME NEW a \in Actors, WritePartner(a) PROVE CountsKept
  BY <1>b DEF WritePartner
<1>c. ASSUME NEW p \in Pairs,
             \/ OwnRaid(p) \/ ObserveOwnRaid(p) \/ Land(p) \/ CallOff(p)
             \/ ClaimStaleOrphan(p) \/ PromoteOrphan(p) \/ Sweep(p) \/ SelfUnraid(p)
      PROVE  CountsKept
  BY <1>c DEF OwnRaid, ObserveOwnRaid, Land, CallOff, ClaimStaleOrphan, PromoteOrphan,
              Sweep, SelfUnraid
<1>d. ASSUME NEW s \in Sources, Offline(s) \/ GraceOver(s) \/ ManualRaid(s) \/ GoLive(s)
                                \/ MarkExpires(s)
      PROVE  CountsKept
  BY <1>d DEF Offline, GraceOver, ManualRaid, GoLive, MarkExpires
<1>e. ASSUME NEW t \in Targets, Blacklist(t) PROVE CountsKept
  BY <1>e DEF Blacklist
<1>f. ASSUME NEW t \in Targets, CleanupDue(t) PROVE CountsKept
  BY <1>f DEF CleanupDue
<1>g. CASE Restart
  BY <1>g DEF Restart
<1>h. CASE UNCHANGED vars
  BY <1>h DEF vars
<1> QED
  BY <1>a, <1>b, <1>c, <1>d, <1>e, <1>f, <1>g, <1>h DEF Next, TaskStep

(* A task gets to its writes by a confirmation.                            *)
WriteKept(a) ==
    act'[a].at = "write" => act'[a] = act[a] \/ confirms'[act'[a].flow] > 0

LEMMA TaskWrites ==
    ASSUME TypeOK, Shape, NEW a \in Actors,
           \/ TaskStep(a) \/ NoRaid(a)
           \/ \E t \in Targets : StartRaid(a, t) \/ Hear(a, t)
    PROVE  WriteKept(a)
<1>g. ASSUME NEW st, Goes(a, st), st # "write" PROVE WriteKept(a)
  BY <1>g DEF Goes, TypeOK, Tasks, WriteKept
<1>e. ASSUME Ends(a) PROVE WriteKept(a)
  BY <1>e, EndsFacts DEF WriteKept
<1>r. ASSUME Returns(a) PROVE WriteKept(a)
  BY <1>r, <1>g, <1>e DEF Returns
<1>1. CASE Register(a) \/ Replay(a) \/ Independent(a)
  BY <1>1, <1>g DEF Register, Replay, Independent
<1>3. CASE Finish(a) \/ StoreOrphan(a) \/ MarkManualRaidStarted(a) \/ NoRaid(a)
  BY <1>3, <1>e DEF Finish, StoreOrphan, MarkManualRaidStarted, NoRaid
<1>4. CASE Recall(a)
  <2>1. \A recent \in BOOLEAN : Plan(a[1], act[a].to, act[a].flow, recent) # "write"
    BY DEF Plan
  <2> QED
    BY <1>4, <1>e, <1>g, <2>1 DEF Recall
<1>5. CASE StorePending(a)
  BY <1>5, <1>e, <1>g DEF StorePending
<1>6. CASE Confirm(a)
  <2>1. CASE pending[Pair(a)] = 0
    <3>1. Returns(a)
      BY <1>6, <2>1 DEF Confirm
    <3> QED
      BY <3>1, <1>r
  <2>2. CASE pending[Pair(a)] # 0
    <3>1. /\ act' = [act EXCEPT ![a].at = "write", ![a].flow = pending[Pair(a)]]
          /\ confirms' = [confirms EXCEPT ![pending[Pair(a)]] = @ + 1]
      BY <1>6, <2>2 DEF Confirm
    <3>2. pending[Pair(a)] \in Flows
      BY <2>2, PairFacts DEF TypeOK, Flows
    <3>3. act'[a].flow = pending[Pair(a)]
      BY <3>1 DEF TypeOK, Tasks
    <3>4. confirms'[pending[Pair(a)]] > 0
      BY <3>1, <3>2 DEF TypeOK
    <3> QED
      BY <3>3, <3>4 DEF WriteKept
  <2> QED
    BY <2>1, <2>2
<1>7. CASE WritePartner(a) \/ WriteExternal(a)
  BY <1>7, <1>r DEF WritePartner, WriteExternal
<1>13. ASSUME NEW t \in Targets, StartRaid(a, t) PROVE WriteKept(a)
  <2>1. CASE act' = [act EXCEPT ![a].at = "register", ![a].to = t]
    BY <2>1 DEF TypeOK, Tasks, WriteKept
  <2> QED
    BY <1>13, <1>e, <2>1 DEF StartRaid
<1>14. ASSUME NEW t \in Targets, Hear(a, t) PROVE WriteKept(a)
  BY <1>14 DEF Hear, TypeOK, WriteKept
<1> QED
  BY <1>1, <1>3, <1>4, <1>5, <1>6, <1>7, <1>13, <1>14 DEF TaskStep

LEMMA WriteMoves ==
    ASSUME TypeOK, Shape, [Next]_vars, NEW c \in Actors PROVE WriteKept(c)
<1> USE DEF memory, database, twitch, history
<1>h. ASSUME act'[c] = act[c] PROVE WriteKept(c)
  BY <1>h DEF WriteKept
<1>a. ASSUME NEW a \in Actors,
             \/ TaskStep(a) \/ NoRaid(a)
             \/ \E t \in Targets : StartRaid(a, t) \/ Hear(a, t)
      PROVE  WriteKept(c)
  BY <1>a, <1>h, TaskWrites, TaskMoves
<1>b. ASSUME NEW s \in Sources, Offline(s) \/ GraceOver(s) \/ ManualRaid(s)
      PROVE  WriteKept(c)
  BY <1>b, <1>h, SourceMoves DEF WriteKept
<1>c. ASSUME NEW p \in Pairs,
             \/ OwnRaid(p) \/ ObserveOwnRaid(p) \/ Land(p) \/ CallOff(p)
             \/ ClaimStaleOrphan(p) \/ PromoteOrphan(p) \/ Sweep(p) \/ SelfUnraid(p)
      PROVE  act' = act
  BY <1>c DEF OwnRaid, ObserveOwnRaid, Land, CallOff, ClaimStaleOrphan, PromoteOrphan,
              Sweep, SelfUnraid
<1>d. ASSUME NEW s \in Sources, GoLive(s) \/ MarkExpires(s) PROVE act' = act
  BY <1>d DEF GoLive, MarkExpires
<1>e. ASSUME NEW t \in Targets, Blacklist(t) \/ CleanupDue(t) PROVE act' = act
  BY <1>e DEF Blacklist, CleanupDue
<1>f. CASE Restart
  <2>1. act'[c].at = "idle"
    BY <1>f, IdleFacts DEF Restart
  <2> QED
    BY <2>1 DEF WriteKept
<1>g. CASE UNCHANGED vars
  BY <1>g, <1>h DEF vars
<1> QED
  BY <1>a, <1>b, <1>c, <1>d, <1>e, <1>f, <1>g, <1>h DEF Next

LEMMA EarnedStep ==
    TypeOK /\ TypeOK' /\ Shape /\ FlowInv /\ EarnedInv /\ [Next]_vars => EarnedInv'
<1> SUFFICES ASSUME TypeOK, TypeOK', Shape, FlowInv, EarnedInv, [Next]_vars
             PROVE  EarnedInv'
  OBVIOUS
<1> USE RaidsAssumption
<1>t. /\ flows \in Nat /\ 1..flows \subseteq Flows
      /\ external \subseteq 1..flows
      /\ \A t \in Targets : rows[t] \in Nat
  BY DEF TypeOK, Flows, EarnedInv
<1>1. ASSUME NEW c \in Actors, act'[c].at = "write" PROVE confirms'[act'[c].flow] > 0
  <2>1. CASE act'[c] = act[c]
    <3>1. act[c].at = "write" /\ act[c].flow \in Flows
      BY <1>1, <2>1, PairFacts DEF Shape, ShapeOf, Flows
    <3> QED
      BY <2>1, <3>1, FlowsGrow DEF EarnedInv
  <2> QED
    BY <1>1, <2>1, WriteMoves DEF WriteKept
<1>2. CASE CountsKept
  <2>1. \A f \in external' : f \in 1..flows' /\ confirms'[f] > 0
    BY <1>2, <1>t, FlowsGrow DEF CountsKept, EarnedInv
  <2>2. ASSUME NEW t \in Targets PROVE rows'[t] = Cardinality(Counted(t)')
    <3>1. \A f \in external : pairOf'[f] = pairOf[f]
      BY <1>t, FlowsGrow
    <3>2. Counted(t)' = Counted(t)
      BY <1>2, <3>1 DEF CountsKept, Counted
    <3> QED
      BY <1>2, <3>2 DEF CountsKept, EarnedInv
  <2>3. \A t \in due' \cup blacklist' : rows'[t] >= EXTERNAL_RECRUITMENT_RAID_LIMIT
    BY <1>2 DEF CountsKept, EarnedInv
  <2> QED
    BY <1>1, <2>1, <2>2, <2>3 DEF EarnedInv
<1>3. ASSUME NEW a \in Actors, WriteExternal(a) PROVE EarnedInv'
  <2> DEFINE f == act[a].flow
             to == act[a].to
  <2>0. /\ f \in 1..flows /\ pairOf[f][2] = to /\ to \in Targets
        /\ confirms[f] > 0
    <3>1. act[a].at = "write" /\ act[a].flow # 0
      BY <1>3 DEF WriteExternal, At, Shape, ShapeOf
    <3> QED
      BY <3>1, PairFacts DEF FlowInv, CopyOk, EarnedInv
  <2>1. UNCHANGED <<pairOf, flows, confirms, blacklist>>
    BY <1>3 DEF WriteExternal, history
  <2>2. CASE UNCHANGED <<external, rows, due>>
    <3>1. CountsKept
      BY <2>1, <2>2 DEF CountsKept
    <3> QED
      BY <1>2, <3>1
  <2>3. CASE /\ RecordConfirmedRaid(f, to)
             /\ due' = IF rows'[to] < EXTERNAL_RECRUITMENT_RAID_LIMIT
                       THEN due ELSE due \cup {to}
    <3>1. /\ external' = external \cup {f}
          /\ rows' = [rows EXCEPT ![to] = IF f \in external THEN @ ELSE @ + 1]
      BY <2>3 DEF RecordConfirmedRaid
    <3>2. \A g \in external' : g \in 1..flows' /\ confirms'[g] > 0
      BY <2>0, <2>1, <3>1 DEF EarnedInv
    <3>3. ASSUME NEW t \in Targets PROVE rows'[t] = Cardinality(Counted(t)')
      <4>1. CASE t # to
        <5>1. Counted(t)' = Counted(t)
          BY <2>0, <2>1, <3>1, <4>1 DEF Counted
        <5>2. rows'[t] = rows[t]
          BY <3>1, <4>1 DEF TypeOK
        <5> QED
          BY <5>1, <5>2 DEF EarnedInv
      <4>2. CASE t = to /\ f \in external
        <5>1. Counted(t)' = Counted(t)
          BY <2>1, <3>1, <4>2 DEF Counted
        <5>2. rows'[t] = rows[t]
          BY <3>1, <4>2 DEF TypeOK
        <5> QED
          BY <5>1, <5>2 DEF EarnedInv
      <4>3. CASE t = to /\ f \notin external
        <5>1. Counted(t)' = Counted(t) \cup {f} /\ f \notin Counted(t)
          BY <2>0, <2>1, <3>1, <4>3 DEF Counted
        <5>2. rows'[t] = rows[t] + 1
          BY <3>1, <4>3 DEF TypeOK
        <5>3. IsFiniteSet(Counted(t))
          <6>1. IsFiniteSet(1..flows)
            BY <1>t, FS_Interval
          <6>2. Counted(t) \subseteq 1..flows
            BY <1>t DEF Counted
          <6> QED
            BY <6>1, <6>2, FS_Subset
        <5>4. Cardinality(Counted(t) \cup {f}) = Cardinality(Counted(t)) + 1
          BY <5>1, <5>3, FS_AddElement
        <5> QED
          BY <5>1, <5>2, <5>4 DEF EarnedInv
      <4> QED
        BY <4>1, <4>2, <4>3
    <3>4. \A t \in Targets : rows'[t] >= rows[t] /\ rows'[t] \in Nat
      BY <1>t, <3>1 DEF TypeOK
    <3>5. ASSUME NEW t \in due' \cup blacklist'
          PROVE  rows'[t] >= EXTERNAL_RECRUITMENT_RAID_LIMIT
      <4>1. t \in Targets
        BY DEF TypeOK
      <4>2. CASE t \in due \cup blacklist
        BY <1>t, <3>4, <4>1, <4>2 DEF EarnedInv
      <4>3. CASE t \notin due \cup blacklist
        <5>1. t = to /\ ~(rows'[to] < EXTERNAL_RECRUITMENT_RAID_LIMIT)
          BY <2>1, <2>3, <4>3
        <5> QED
          BY <3>4, <4>1, <5>1
      <4> QED
        BY <4>2, <4>3
    <3> QED
      BY <1>1, <3>2, <3>3, <3>5 DEF EarnedInv
  <2> QED
    BY <1>3, <2>2, <2>3 DEF WriteExternal
<1> QED
  BY <1>2, <1>3, CountsMove

EarnsInv == TypeInv /\ FlowInv /\ EarnedInv

(* Behind a target on the recruitment blacklist, or due for it, stand as   *)
(* many different confirmed raids on it as the limit asks for.             *)
THEOREM Earned == Spec => []BlacklistEarned
<1>1. Init => EarnsInv
  <2> SUFFICES ASSUME Init PROVE EarnsInv
    OBVIOUS
  <2>1. FlowInv
    BY IdleFacts DEF Init, FlowInv, PendingOk, CopyOk
  <2>2. \A t \in Targets : rows[t] = Cardinality(Counted(t))
    <3>1. \A t \in Targets : Counted(t) = {}
      BY DEF Init, Counted
    <3> QED
      BY <3>1, FS_EmptySet DEF Init
  <2>3. EarnedInv
    BY <2>2, IdleFacts DEF Init, EarnedInv
  <2> QED
    BY <2>1, <2>3, TypeInit DEF EarnsInv
<1>2. EarnsInv /\ [Next]_vars => EarnsInv'
  BY TypeStep, ShapeStep, FlowStep, EarnedStep DEF EarnsInv, TypeInv
<1>3. EarnsInv => BlacklistEarned
  <2> SUFFICES ASSUME EarnsInv, NEW t \in due \cup blacklist
               PROVE  Cardinality({f \in 1..flows : pairOf[f][2] = t /\ confirms[f] > 0})
                        >= EXTERNAL_RECRUITMENT_RAID_LIMIT
    BY DEF BlacklistEarned
  <2> DEFINE Behind == {f \in 1..flows : pairOf[f][2] = t /\ confirms[f] > 0}
  <2>1. t \in Targets /\ flows \in Nat
    BY RaidsAssumption DEF EarnsInv, TypeInv, TypeOK
  <2>2. IsFiniteSet(Behind)
    <3>1. IsFiniteSet(1..flows)
      BY <2>1, FS_Interval
    <3>2. Behind \subseteq 1..flows
      OBVIOUS
    <3> QED
      BY <3>1, <3>2, FS_Subset
  <2>3. Counted(t) \subseteq Behind
    BY DEF EarnsInv, EarnedInv, Counted
  <2>4. Cardinality(Counted(t)) <= Cardinality(Behind)
    BY <2>2, <2>3, FS_Subset
  <2>5. Cardinality(Counted(t)) >= EXTERNAL_RECRUITMENT_RAID_LIMIT
    BY <2>1 DEF EarnsInv, EarnedInv
  <2>6. Cardinality(Counted(t)) \in Nat /\ Cardinality(Behind) \in Nat
    BY <2>2, <2>3, FS_Subset, FS_CardinalityType
  <2> QED
    BY <2>4, <2>5, <2>6, RaidsAssumption
<1> QED
  BY <1>1, <1>2, <1>3, PTL DEF Spec

-----------------------------------------------------------------------------
(* Arrivals on partners are tracked. *)

(* What a registration or a confirmation under way rests on.               *)
Safe(p) ==
    \/ pending[p] # 0
    \/ p \in excused \/ p \in arrivals
    \/ \E b \in Actors : Pair(b) = p /\ At(b, "write")

TrackInv ==
    /\ TrackedOrWorking
    /\ orphans \subseteq heard
    /\ \A a \in Actors : a[1] # "unraid" /\ act[a].at \in Late => Pair(a) \in heard
    /\ \A a \in Actors : act[a].at \in {"replay", "confirm"} /\ act[a].to \in Partners
                           => Safe(Pair(a))

(* Only its own step, or a restart, moves a task that is under way.        *)
LEMMA ActorMoves ==
    ASSUME TypeOK, Shape, [Next]_vars, NEW c \in Actors
    PROVE  \/ act'[c] = act[c] \/ TaskStep(c) \/ Restart
           \/ act[c].at = "idle" \/ act[c].at = "grace" \/ act[c].at = "run"
<1> DEFINE Goal == \/ act'[c] = act[c] \/ TaskStep(c) \/ Restart
                   \/ act[c].at = "idle" \/ act[c].at = "grace" \/ act[c].at = "run"
<1> USE DEF memory, database, twitch, history
<1>a. ASSUME NEW a \in Actors, TaskStep(a) PROVE Goal
  BY <1>a, TaskMoves
<1>b. ASSUME NEW a \in Actors, NoRaid(a) \/ \E t \in Targets : StartRaid(a, t) \/ Hear(a, t)
      PROVE  Goal
  <2>1. \A b \in Actors \ {a} : act'[b] = act[b]
    BY <1>b, TaskMoves
  <2>2. act[a].at = "run" \/ act[a].at = "idle"
    BY <1>b DEF NoRaid, StartRaid, Hear, At
  <2> QED
    BY <2>1, <2>2
<1>c. ASSUME NEW s \in Sources, Offline(s) \/ GraceOver(s) \/ ManualRaid(s) PROVE Goal
  <2>1. <<"auto", s>> \in Actors /\ <<"manual", s>> \in Actors
    BY DEF Actors, Runs
  <2>2. CASE Offline(s)
    BY <2>1, <2>2 DEF Offline, Goes, At, TypeOK
  <2>3. CASE GraceOver(s)
    BY <2>1, <2>3 DEF GraceOver, Goes, Ends, At, TypeOK
  <2>4. CASE ManualRaid(s)
    BY <2>1, <2>4 DEF ManualRaid, Goes, At, TypeOK
  <2> QED
    BY <1>c, <2>2, <2>3, <2>4
<1>d. ASSUME NEW p \in Pairs,
             \/ OwnRaid(p) \/ ObserveOwnRaid(p) \/ Land(p) \/ CallOff(p)
             \/ ClaimStaleOrphan(p) \/ PromoteOrphan(p) \/ Sweep(p) \/ SelfUnraid(p)
      PROVE  act' = act
  BY <1>d DEF OwnRaid, ObserveOwnRaid, Land, CallOff, ClaimStaleOrphan, PromoteOrphan,
              Sweep, SelfUnraid
<1>e. ASSUME NEW s \in Sources, GoLive(s) \/ MarkExpires(s) PROVE act' = act
  BY <1>e DEF GoLive, MarkExpires
<1>f. ASSUME NEW t \in Targets, Blacklist(t) \/ CleanupDue(t) PROVE act' = act
  BY <1>f DEF Blacklist, CleanupDue
<1>g. CASE UNCHANGED vars
  BY <1>g DEF vars
<1> QED
  BY <1>a, <1>b, <1>c, <1>d, <1>e, <1>f, <1>g DEF Next

(* A pending leaves the store by a confirmation, or its pair is excused.   *)
Gone(p) ==
    \/ pending'[p] # 0
    \/ p \in excused'
    \/ \E a \in Actors : Confirm(a) /\ Pair(a) = p

LEMMA PendingGone ==
    ASSUME TypeOK, Shape, FlowInv, [Next]_vars, NEW p \in Pairs, pending[p] # 0,
           p \in heard \cup Registering
    PROVE  Gone(p)
<1> USE DEF memory, database, twitch, history
<1>u. ASSUME UNCHANGED pending PROVE Gone(p)
  BY <1>u DEF Gone
<1>a. ASSUME NEW a \in Actors,
             \/ Replay(a) \/ Finish(a) \/ Recall(a) \/ WritePartner(a)
             \/ WriteExternal(a) \/ StoreOrphan(a) \/ Independent(a)
             \/ MarkManualRaidStarted(a) \/ NoRaid(a)
             \/ \E t \in Targets : StartRaid(a, t) \/ Hear(a, t)
      PROVE  UNCHANGED pending
  BY <1>a DEF Replay, Finish, Recall, WritePartner, WriteExternal, StoreOrphan,
              Independent, MarkManualRaidStarted, NoRaid, StartRaid, Hear
<1>b. ASSUME NEW a \in Actors, Register(a) PROVE Gone(p)
  <2>1. CASE p \in Superseded(Pair(a))
    BY <1>b, <2>1 DEF Register, Excuse, Gone
  <2>2. CASE p \notin Superseded(Pair(a))
    <3>1. pending'[p] = flows + 1 \/ pending'[p] = pending[p]
      BY <1>b, <2>2 DEF Register
    <3> QED
      BY <3>1, RaidsAssumption DEF Gone, TypeOK
  <2> QED
    BY <2>1, <2>2
<1>c. ASSUME NEW a \in Actors, StorePending(a) PROVE Gone(p)
  <2>1. pending' = [pending EXCEPT ![Pair(a)] = act[a].flow] /\ act[a].flow # 0
    BY <1>c DEF StorePending, At, Shape, ShapeOf
  <2>2. pending'[p] # 0
    BY <2>1 DEF TypeOK
  <2> QED
    BY <2>2 DEF Gone
<1>d. ASSUME NEW a \in Actors, Confirm(a) PROVE Gone(p)
  <2>1. CASE Pair(a) = p
    BY <1>d, <2>1 DEF Gone
  <2>2. CASE Pair(a) # p
    <3>1. pending'[p] = pending[p]
      <4>1. CASE pending[Pair(a)] = 0
        BY <1>d, <4>1 DEF Confirm
      <4>2. CASE pending[Pair(a)] # 0
        <5>1. pending' = [pending EXCEPT ![Pair(a)] = 0]
          BY <1>d, <4>2 DEF Confirm
        <5> QED
          BY <2>2, <5>1 DEF TypeOK
      <4> QED
        BY <4>1, <4>2
    <3> QED
      BY <3>1 DEF Gone
  <2> QED
    BY <2>1, <2>2
<1>e. ASSUME NEW q \in Pairs,
             \/ OwnRaid(q) \/ ObserveOwnRaid(q) \/ Land(q) \/ CallOff(q)
             \/ ClaimStaleOrphan(q) \/ PromoteOrphan(q)
      PROVE  UNCHANGED pending
  BY <1>e DEF OwnRaid, ObserveOwnRaid, Land, CallOff, ClaimStaleOrphan, PromoteOrphan
<1>f. ASSUME NEW q \in Pairs, Sweep(q) PROVE Gone(p)
  <2>1. CASE p = q
    BY <1>f, <2>1 DEF Sweep, Excuse, Gone
  <2>2. CASE p # q
    BY <1>f, <2>2 DEF Sweep, TypeOK, Gone
  <2> QED
    BY <2>1, <2>2
<1>g. ASSUME NEW s \in Sources, CancelFromSource(s) PROVE Gone(p)
  BY <1>g DEF CancelFromSource, Excuse, Gone
<1>h. ASSUME NEW q \in Pairs, SelfUnraid(q) PROVE Gone(p)
  <2>1. q[1] \in Sources /\ CancelFromSource(q[1])
    BY <1>h DEF SelfUnraid, Pairs
  <2> QED
    BY <2>1, <1>g
<1>i. ASSUME NEW s \in Sources, GoLive(s) PROVE Gone(p)
  BY <1>i, <1>g DEF GoLive
<1>j. ASSUME NEW s \in Sources,
             Offline(s) \/ GraceOver(s) \/ ManualRaid(s) \/ MarkExpires(s)
      PROVE  UNCHANGED pending
  BY <1>j DEF Offline, GraceOver, ManualRaid, MarkExpires
<1>k. ASSUME NEW t \in Targets, Blacklist(t) \/ CleanupDue(t) PROVE UNCHANGED pending
  BY <1>k DEF Blacklist, CleanupDue
<1>l. CASE Restart
  BY <1>l DEF Restart, Excuse, Gone
<1>m. CASE UNCHANGED vars
  BY <1>m, <1>u DEF vars
<1> QED
  BY <1>a, <1>b, <1>c, <1>d, <1>e, <1>f, <1>h, <1>i, <1>j, <1>k, <1>l, <1>m, <1>u
     DEF Next, TaskStep

LEMMA TracksGrow ==
    ASSUME TypeOK, [Next]_vars
    PROVE  heard \subseteq heard' /\ excused \subseteq excused' /\ arrivals \subseteq arrivals'
<1> DEFINE Goal == /\ heard \subseteq heard' /\ excused \subseteq excused'
                   /\ arrivals \subseteq arrivals'
<1> USE DEF memory, database, twitch, history
<1>a. ASSUME NEW a \in Actors,
             \/ Replay(a) \/ Finish(a) \/ Recall(a) \/ WriteExternal(a) \/ NoRaid(a)
             \/ StorePending(a) \/ StoreOrphan(a) \/ MarkManualRaidStarted(a)
             \/ \E t \in Targets : StartRaid(a, t)
      PROVE  UNCHANGED <<heard, excused, arrivals>>
  BY <1>a DEF Replay, Finish, Recall, WriteExternal, NoRaid, StorePending, StoreOrphan,
              MarkManualRaidStarted, StartRaid
<1>b. ASSUME NEW a \in Actors, Confirm(a) PROVE UNCHANGED <<heard, excused, arrivals>>
  BY <1>b DEF Confirm
<1>c. ASSUME NEW a \in Actors, Register(a) PROVE Goal
  BY <1>c DEF Register, Excuse
<1>d. ASSUME NEW a \in Actors, NEW t \in Targets, Hear(a, t) PROVE Goal
  BY <1>d DEF Hear
<1>e. ASSUME NEW a \in Actors, WritePartner(a) \/ Independent(a) PROVE Goal
  BY <1>e DEF WritePartner, Independent, WriteArrival, RecordArrival, RecordFails, Excuse
<1>f. ASSUME NEW q \in Pairs,
             OwnRaid(q) \/ ObserveOwnRaid(q) \/ Land(q) \/ CallOff(q) \/ ClaimStaleOrphan(q)
      PROVE  UNCHANGED <<heard, excused, arrivals>>
  BY <1>f DEF OwnRaid, ObserveOwnRaid, Land, CallOff, ClaimStaleOrphan
<1>g. ASSUME NEW q \in Pairs, PromoteOrphan(q) PROVE Goal
  BY <1>g DEF PromoteOrphan, RecordArrival, RecordFails, Excuse
<1>h. ASSUME NEW q \in Pairs, Sweep(q) \/ SelfUnraid(q) PROVE Goal
  BY <1>h DEF Sweep, SelfUnraid, CancelFromSource, Excuse
<1>i. ASSUME NEW s \in Sources, GoLive(s) PROVE Goal
  BY <1>i DEF GoLive, CancelFromSource, Excuse
<1>j. ASSUME NEW s \in Sources,
             Offline(s) \/ GraceOver(s) \/ ManualRaid(s) \/ MarkExpires(s)
      PROVE  UNCHANGED <<heard, excused, arrivals>>
  BY <1>j DEF Offline, GraceOver, ManualRaid, MarkExpires
<1>k. ASSUME NEW t \in Targets, Blacklist(t) \/ CleanupDue(t)
      PROVE  UNCHANGED <<heard, excused, arrivals>>
  BY <1>k DEF Blacklist, CleanupDue
<1>l. CASE Restart
  BY <1>l DEF Restart, Excuse
<1>m. CASE UNCHANGED vars
  BY <1>m DEF vars
<1> QED
  BY <1>a, <1>b, <1>c, <1>d, <1>e, <1>f, <1>g, <1>h, <1>i, <1>j, <1>k, <1>l, <1>m
     DEF Next, TaskStep

(* At a stage of its own, a task takes the step of that stage.             *)
LEMMA StageStep ==
    ASSUME TypeOK, NEW c \in Actors, TaskStep(c)
    PROVE  /\ act[c].at = "write" => WritePartner(c) \/ WriteExternal(c)
           /\ act[c].at = "confirm" => Confirm(c)
           /\ act[c].at = "store" => StorePending(c)
           /\ act[c].at = "look" => Recall(c)
           /\ act[c].at = "orphan" => StoreOrphan(c)
           /\ act[c].at = "independent" => Independent(c)
  BY DEF TaskStep, Register, Replay, Finish, Recall, StorePending, Confirm,
         WritePartner, WriteExternal, StoreOrphan, Independent, MarkManualRaidStarted, At

(* A confirmation that finds the pending goes on to the writes.            *)
LEMMA ConfirmWrites ==
    ASSUME TypeOK, NEW a \in Actors, Confirm(a), pending[Pair(a)] # 0
    PROVE  act'[a].at = "write" /\ act'[a].to = act[a].to
<1>1. act' = [act EXCEPT ![a].at = "write", ![a].flow = pending[Pair(a)]]
  BY DEF Confirm
<1> QED
  BY <1>1 DEF TypeOK, Tasks

(* What is safe stays so.                                                  *)
LEMMA SafeKept ==
    ASSUME TypeOK, Shape, FlowInv, [Next]_vars, NEW p \in Pairs, p[2] \in Partners,
           p \in heard \cup Registering, Safe(p)
    PROVE  \/ pending'[p] # 0
           \/ p \in excused' \/ p \in arrivals'
           \/ \E b \in Actors : <<b[2], act'[b].to>> = p /\ act'[b].at = "write"
<1> DEFINE Goal == \/ pending'[p] # 0
                   \/ p \in excused' \/ p \in arrivals'
                   \/ \E b \in Actors : <<b[2], act'[b].to>> = p /\ act'[b].at = "write"
<1>1. CASE pending[p] # 0
  <2>1. CASE pending'[p] # 0 \/ p \in excused'
    BY <2>1
  <2>2. ASSUME NEW a \in Actors, Confirm(a), Pair(a) = p PROVE Goal
    BY <1>1, <2>2, ConfirmWrites DEF Pair
  <2> QED
    BY <1>1, <2>1, <2>2, PendingGone DEF Gone
<1>2. CASE p \in excused \/ p \in arrivals
  BY <1>2, TracksGrow
<1>3. ASSUME NEW b \in Actors, Pair(b) = p, At(b, "write") PROVE Goal
  <2>1. act[b].to = p[2]
    BY <1>3 DEF Pair
  <2>2. CASE act'[b] = act[b]
    BY <1>3, <2>2 DEF At, Pair
  <2>3. CASE TaskStep(b)
    <3>1. WritePartner(b)
      BY <1>3, <2>1, <2>3, StageStep DEF At, WriteExternal
    <3> QED
      BY <1>3, <3>1 DEF WritePartner, WriteArrival, RecordArrival, RecordFails, Excuse
  <2>4. CASE Restart
    BY <2>4 DEF Restart, Excuse
  <2> QED
    BY <1>3, <2>2, <2>3, <2>4, ActorMoves DEF At
<1> QED
  BY <1>1, <1>2, <1>3 DEF Safe

(* A task comes to a registration or a confirmation from one, or with a    *)
(* pending at hand.                                                        *)
LEMMA ReplayMoves ==
    ASSUME TypeOK, Shape, [Next]_vars, NEW c \in Actors,
           act'[c].at \in {"replay", "confirm"}
    PROVE  \/ act[c].at \in {"replay", "confirm"} /\ act'[c].to = act[c].to
           \/ pending'[<<c[2], act'[c].to>>] # 0
<1> DEFINE Goal == \/ act[c].at \in {"replay", "confirm"} /\ act'[c].to = act[c].to
                   \/ pending'[<<c[2], act'[c].to>>] # 0
<1> USE DEF memory, database, twitch, history
<1>n. act'[c].at # "idle" /\ act'[c].at # "finish"
  OBVIOUS
<1>h. ASSUME act'[c] = act[c] PROVE Goal
  BY <1>h
<1>p. Pair(c) \in Pairs
  BY PairFacts
<1>e. ~Ends(c) /\ ~Goes(c, "finish")
  BY <1>n, EndsFacts DEF Goes, TypeOK, Tasks
<1>r. ~Returns(c)
  BY <1>e DEF Returns
<1>t. CASE TaskStep(c)
  <2>1. CASE Register(c)
    <3>1. act'[c].to = act[c].to
      BY <2>1 DEF Register, Goes, TypeOK, Tasks
    <3>2. pending'[Pair(c)] = flows + 1
      BY <1>p, <2>1 DEF Register
    <3> QED
      BY <3>1, <3>2, RaidsAssumption DEF Pair, TypeOK
  <2>2. CASE Replay(c)
    <3>1. act'[c].to = act[c].to
      BY <2>2 DEF Replay, Goes, TypeOK, Tasks
    <3> QED
      BY <2>2, <3>1 DEF Replay, At
  <2>3. CASE StorePending(c)
    <3>1. act'[c].to = act[c].to
      BY <1>e, <2>3 DEF StorePending, Goes, TypeOK, Tasks
    <3>2. pending'[Pair(c)] = act[c].flow /\ act[c].flow # 0
      BY <1>p, <2>3 DEF StorePending, At, Shape, ShapeOf, TypeOK
    <3> QED
      BY <3>1, <3>2 DEF Pair
  <2>4. CASE Confirm(c)
    <3>1. pending[Pair(c)] # 0
      BY <1>r, <2>4 DEF Confirm
    <3> QED
      BY <2>4, <3>1, ConfirmWrites
  <2>5. CASE Recall(c)
    <3>1. \A recent \in BOOLEAN : Plan(c[1], act[c].to, act[c].flow, recent)
                                    \in {"idle", "store", "orphan", "independent"}
      BY DEF Plan
    <3>2. ASSUME NEW st \in {"store", "orphan", "independent"} PROVE ~Goes(c, st)
      BY DEF Goes, TypeOK, Tasks
    <3> QED
      BY <1>e, <2>5, <3>1, <3>2 DEF Recall
  <2>6. CASE Independent(c)
    BY <2>6 DEF Independent, Goes, TypeOK, Tasks
  <2>7. CASE Finish(c) \/ StoreOrphan(c) \/ MarkManualRaidStarted(c)
    BY <1>e, <2>7 DEF Finish, StoreOrphan, MarkManualRaidStarted
  <2>8. CASE WritePartner(c) \/ WriteExternal(c)
    BY <1>r, <2>8 DEF WritePartner, WriteExternal
  <2> QED
    BY <1>t, <2>1, <2>2, <2>3, <2>4, <2>5, <2>6, <2>7, <2>8 DEF TaskStep
<1>a. ASSUME NEW a \in Actors,
             \/ TaskStep(a) \/ NoRaid(a)
             \/ \E t \in Targets : StartRaid(a, t) \/ Hear(a, t)
      PROVE  Goal
  <2>1. CASE a # c
    BY <1>a, <1>h, <2>1, TaskMoves
  <2>2. CASE a = c
    <3>1. CASE NoRaid(c)
      BY <1>e, <3>1 DEF NoRaid
    <3>2. ASSUME NEW t \in Targets, StartRaid(c, t) PROVE FALSE
      <4>1. act' = [act EXCEPT ![c].at = "register", ![c].to = t]
        BY <1>e, <3>2 DEF StartRaid
      <4> QED
        BY <4>1 DEF TypeOK, Tasks
    <3>3. ASSUME NEW t \in Targets, Hear(c, t) PROVE FALSE
      BY <3>3 DEF Hear, TypeOK
    <3> QED
      BY <1>a, <1>t, <2>2, <3>1, <3>2, <3>3
  <2> QED
    BY <2>1, <2>2
<1>b. ASSUME NEW s \in Sources, Offline(s) \/ GraceOver(s) \/ ManualRaid(s) PROVE Goal
  BY <1>b, <1>h, SourceMoves
<1>c. ASSUME NEW p \in Pairs,
             \/ OwnRaid(p) \/ ObserveOwnRaid(p) \/ Land(p) \/ CallOff(p)
             \/ ClaimStaleOrphan(p) \/ PromoteOrphan(p) \/ Sweep(p) \/ SelfUnraid(p)
      PROVE  act' = act
  BY <1>c DEF OwnRaid, ObserveOwnRaid, Land, CallOff, ClaimStaleOrphan, PromoteOrphan,
              Sweep, SelfUnraid
<1>d. ASSUME NEW s \in Sources, GoLive(s) \/ MarkExpires(s) PROVE act' = act
  BY <1>d DEF GoLive, MarkExpires
<1>f. ASSUME NEW t \in Targets, Blacklist(t) \/ CleanupDue(t) PROVE act' = act
  BY <1>f DEF Blacklist, CleanupDue
<1>g. CASE Restart
  BY <1>g, <1>n, IdleFacts DEF Restart
<1>i. CASE UNCHANGED vars
  BY <1>i DEF vars
<1> QED
  BY <1>a, <1>b, <1>c, <1>d, <1>f, <1>g, <1>h, <1>i DEF Next

(* An orphan is of a pair that was heard of.                               *)
LEMMA OrphansHeard ==
    ASSUME TypeOK, Shape, TrackInv, [Next]_vars PROVE orphans' \subseteq heard
<1> USE DEF memory, database, twitch, history
<1>0. orphans \subseteq heard
  BY DEF TrackInv
<1>a. ASSUME NEW a \in Actors,
             \/ Replay(a) \/ Finish(a) \/ Recall(a) \/ WriteExternal(a) \/ WritePartner(a)
             \/ MarkManualRaidStarted(a) \/ NoRaid(a) \/ Register(a) \/ Independent(a)
             \/ StorePending(a) \/ Confirm(a)
             \/ \E t \in Targets : StartRaid(a, t) \/ Hear(a, t)
      PROVE  orphans' \subseteq orphans
  BY <1>a DEF Replay, Finish, Recall, WriteExternal, WritePartner, MarkManualRaidStarted,
              NoRaid, Register, Independent, StorePending, Confirm, StartRaid, Hear
<1>b. ASSUME NEW a \in Actors, StoreOrphan(a) PROVE orphans' \subseteq heard
  <2>1. act[a].at = "orphan" /\ act[a].at \in StagesOf(a[1])
    BY <1>b DEF StoreOrphan, At, Shape, ShapeOf
  <2>2. a[1] # "unraid" /\ act[a].at \in Late
    BY <2>1, StagesFacts DEF Late
  <2> QED
    BY <1>0, <1>b, <2>2 DEF StoreOrphan, TrackInv
<1>c. ASSUME NEW p \in Pairs,
             \/ OwnRaid(p) \/ ObserveOwnRaid(p) \/ Land(p) \/ CallOff(p)
             \/ ClaimStaleOrphan(p) \/ PromoteOrphan(p) \/ Sweep(p) \/ SelfUnraid(p)
      PROVE  orphans' \subseteq orphans
  BY <1>c DEF OwnRaid, ObserveOwnRaid, Land, CallOff, ClaimStaleOrphan, PromoteOrphan,
              Sweep, SelfUnraid
<1>d. ASSUME NEW s \in Sources, Offline(s) \/ GraceOver(s) \/ ManualRaid(s) \/ GoLive(s)
                                \/ MarkExpires(s)
      PROVE  orphans' \subseteq orphans
  BY <1>d DEF Offline, GraceOver, ManualRaid, GoLive, MarkExpires
<1>e. ASSUME NEW t \in Targets, Blacklist(t) \/ CleanupDue(t) PROVE orphans' \subseteq orphans
  BY <1>e DEF Blacklist, CleanupDue
<1>f. CASE Restart \/ UNCHANGED vars
  BY <1>f, <1>0 DEF Restart, vars
<1> QED
  BY <1>0, <1>a, <1>b, <1>c, <1>d, <1>e, <1>f DEF Next, TaskStep

(* Working and recorded, after the step.                                   *)
Tracked(p) ==
    \/ p \in arrivals' \/ p \in excused'
    \/ p \in orphans' \cup promoting'
    \/ \E b \in Actors : <<b[2], act'[b].to>> = p /\ act'[b].at = "write"
    \/ \E b \in Actors : /\ <<b[2], act'[b].to>> = p
                         /\ act'[b].at = "confirm" /\ pending'[p] # 0
    \/ \E b \in Signals \X Sources :
         /\ <<b[2], act'[b].to>> = p /\ b[1] # "unraid"
         /\ act'[b].at \in {"look", "orphan", "independent"}
    \/ \E b \in Actors : /\ <<b[2], act'[b].to>> = p
                         /\ act'[b].at = "store" /\ b[1] # "unraid"

LEMMA OrphanKept ==
    ASSUME TypeOK, Shape, FlowInv, TrackInv, [Next]_vars,
           NEW p \in Pairs, p[2] \in Partners, p \in heard, p \in orphans \cup promoting
    PROVE  Tracked(p)
<1> USE DEF memory, database, twitch, history
<1>u. ASSUME orphans \cup promoting \subseteq orphans' \cup promoting' PROVE Tracked(p)
  BY <1>u DEF Tracked
<1>a. ASSUME NEW a \in Actors,
             \/ Finish(a) \/ Recall(a) \/ WriteExternal(a) \/ WritePartner(a)
             \/ MarkManualRaidStarted(a) \/ NoRaid(a) \/ Register(a) \/ Independent(a)
             \/ StorePending(a) \/ StoreOrphan(a)
             \/ \E t \in Targets : StartRaid(a, t) \/ Hear(a, t)
      PROVE  orphans \cup promoting \subseteq orphans' \cup promoting'
  BY <1>a DEF Finish, Recall, WriteExternal, WritePartner, MarkManualRaidStarted,
              NoRaid, Register, Independent, StorePending, StoreOrphan, StartRaid, Hear
<1>s. ASSUME NEW a \in Actors, At(a, "replay") \/ At(a, "confirm"), Pair(a) = p
      PROVE  Safe(p)
  <2>1. act[a].to = p[2]
    BY <1>s DEF Pair
  <2> QED
    BY <1>s, <2>1 DEF TrackInv, At
<1>b. ASSUME NEW a \in Actors, Replay(a) PROVE Tracked(p)
  <2>1. CASE p # Pair(a) \/ p \notin orphans
    BY <1>b, <2>1 DEF Replay, Tracked
  <2>2. CASE p = Pair(a) /\ p \in orphans
    <3>1. act'[a].at = "confirm" /\ act'[a].to = act[a].to
      BY <1>b, <2>2 DEF Replay, Goes, TypeOK, Tasks
    <3>2. Safe(p)
      BY <1>b, <1>s, <2>2 DEF Replay
    <3>3. UNCHANGED pending
      BY <1>b DEF Replay
    <3>4. CASE pending[p] # 0
      BY <2>2, <3>1, <3>3, <3>4 DEF Tracked, Pair
    <3>5. CASE pending[p] = 0
      BY <3>2, <3>3, <3>5, SafeKept DEF Tracked
    <3> QED
      BY <3>4, <3>5
  <2> QED
    BY <2>1, <2>2
<1>c. ASSUME NEW a \in Actors, Confirm(a) PROVE Tracked(p)
  <2>1. CASE p # Pair(a) \/ p \notin orphans
    BY <1>c, <2>1 DEF Confirm, Tracked
  <2>2. CASE p = Pair(a) /\ p \in orphans
    <3>1. Safe(p)
      BY <1>c, <1>s, <2>2 DEF Confirm
    <3>2. CASE pending[p] # 0
      BY <1>c, <2>2, <3>2, ConfirmWrites DEF Tracked, Pair
    <3>3. CASE pending[p] = 0
      <4>1. UNCHANGED pending
        BY <1>c, <2>2, <3>3 DEF Confirm
      <4> QED
        BY <3>1, <3>3, <4>1, SafeKept DEF Tracked
    <3> QED
      BY <3>2, <3>3
  <2> QED
    BY <2>1, <2>2
<1>d. ASSUME NEW q \in Pairs, OwnRaid(q) \/ ObserveOwnRaid(q) \/ Land(q) \/ CallOff(q)
                              \/ ClaimStaleOrphan(q) \/ Sweep(q) \/ SelfUnraid(q)
      PROVE  orphans \cup promoting \subseteq orphans' \cup promoting'
  BY <1>d DEF OwnRaid, ObserveOwnRaid, Land, CallOff, ClaimStaleOrphan, Sweep, SelfUnraid
<1>e. ASSUME NEW q \in Pairs, PromoteOrphan(q) PROVE Tracked(p)
  <2>1. CASE p = q
    <3>1. RecordArrival(p) \/ RecordFails(p)
      BY <1>e, <2>1 DEF PromoteOrphan
    <3> QED
      BY <3>1 DEF RecordArrival, RecordFails, Excuse, Tracked
  <2>2. CASE p # q
    BY <1>e, <2>2 DEF PromoteOrphan, Tracked
  <2> QED
    BY <2>1, <2>2
<1>f. ASSUME NEW s \in Sources, Offline(s) \/ GraceOver(s) \/ ManualRaid(s) \/ GoLive(s)
                                \/ MarkExpires(s)
      PROVE  orphans \cup promoting \subseteq orphans' \cup promoting'
  BY <1>f DEF Offline, GraceOver, ManualRaid, GoLive, MarkExpires
<1>g. ASSUME NEW t \in Targets, Blacklist(t) \/ CleanupDue(t)
      PROVE  orphans \cup promoting \subseteq orphans' \cup promoting'
  BY <1>g DEF Blacklist, CleanupDue
<1>h. CASE Restart
  BY <1>h DEF Restart, Excuse, Tracked
<1>i. CASE UNCHANGED vars
  BY <1>i, <1>u DEF vars
<1> QED
  BY <1>a, <1>b, <1>c, <1>d, <1>e, <1>f, <1>g, <1>h, <1>i, <1>u DEF Next, TaskStep

(* A task that is under way for a pair keeps it tracked.                   *)
LEMMA TaskTracked ==
    ASSUME TypeOK, Shape, FlowInv, TrackInv, [Next]_vars,
           NEW p \in Pairs, p[2] \in Partners, p \in heard,
           NEW a \in Actors, Pair(a) = p, a[1] # "unraid",
           \/ act[a].at \in {"look", "orphan", "independent", "store", "write"}
           \/ act[a].at = "confirm" /\ pending[p] # 0
    PROVE  Tracked(p)
<1> USE DEF memory, database, twitch, history
<1>p. a[2] = p[1] /\ act[a].to = p[2] /\ p = <<a[2], act[a].to>>
  BY DEF Pair
<1>1. CASE Restart
  BY <1>1 DEF Restart, Excuse, Tracked
<1>2. CASE act[a].at = "write" \/ (act[a].at = "confirm" /\ pending[p] # 0)
  <2>1. Safe(p)
    BY <1>2 DEF Safe, At
  <2>2. CASE act[a].at = "confirm" /\ pending'[p] # 0
    <3>1. CASE act'[a] = act[a]
      BY <1>p, <2>2, <3>1 DEF Tracked
    <3>2. CASE TaskStep(a)
      BY <1>2, <1>p, <2>2, <3>2, StageStep, ConfirmWrites DEF Tracked
    <3> QED
      BY <1>1, <2>2, <3>1, <3>2, ActorMoves
  <2>3. CASE act[a].at = "write" /\ pending'[p] # 0
    <3>1. CASE act'[a] = act[a]
      BY <1>p, <2>3, <3>1 DEF Tracked
    <3>2. CASE TaskStep(a)
      <4>1. WritePartner(a)
        BY <1>p, <2>3, <3>2, StageStep DEF WriteExternal
      <4> QED
        BY <4>1 DEF WritePartner, WriteArrival, RecordArrival, RecordFails, Excuse, Tracked
    <3> QED
      BY <1>1, <2>3, <3>1, <3>2, ActorMoves
  <2>4. CASE pending'[p] = 0
    BY <2>1, <2>4, SafeKept DEF Tracked
  <2> QED
    BY <1>2, <2>2, <2>3, <2>4
<1>3. CASE act[a].at = "look"
  <2>1. CASE act'[a] = act[a]
    <3>1. a \in Signals \X Sources
      <4>1. act[a].at \in StagesOf(a[1])
        BY DEF Shape, ShapeOf
      <4>2. a[1] \notin Runs
        BY <1>3, <4>1 DEF StagesOf, Runs
      <4> QED
        BY <4>2 DEF Actors
    <3> QED
      BY <1>3, <1>p, <2>1, <3>1 DEF Tracked
  <2>2. CASE TaskStep(a)
    <3>1. Recall(a)
      BY <1>3, <2>2, StageStep
    <3>2. PICK recent \in BOOLEAN :
             /\ \/ recent = (Pair(a) \in arrivals) /\ UNCHANGED troubles
                \/ ~recent /\ Trouble
             /\ LET st == Plan(a[1], act[a].to, act[a].flow, recent)
                IN  IF st = "idle" THEN Ends(a) ELSE Goes(a, st)
      BY <3>1 DEF Recall
    <3>3. a[1] = "raid" \/ a[1] = "chat"
      BY <3>1 DEF Recall, Signals
    <3>s. a \in Signals \X Sources
      BY <3>3 DEF Actors, Signals, Runs
    <3>4. CASE recent
      BY <3>2, <3>4, TracksGrow DEF Tracked
    <3>5. CASE ~recent
      <4> DEFINE st == Plan(a[1], act[a].to, act[a].flow, recent)
      <4>1. st \in {"store", "orphan", "independent"}
        BY <1>p, <3>3, <3>5 DEF Plan
      <4>2. Goes(a, st)
        BY <3>2, <4>1
      <4>3. act'[a].at = st /\ act'[a].to = act[a].to
        BY <4>2 DEF Goes, TypeOK, Tasks
      <4> HIDE DEF st
      <4> QED
        BY <1>p, <3>s, <4>1, <4>3 DEF Tracked
    <3> QED
      BY <3>4, <3>5
  <2> QED
    BY <1>1, <1>3, <2>1, <2>2, ActorMoves
<1>4. CASE act[a].at \in {"orphan", "independent", "store"}
  <2>1. CASE act'[a] = act[a]
    <3>1. a \in Signals \X Sources
      <4>1. act[a].at \in StagesOf(a[1])
        BY DEF Shape, ShapeOf
      <4>2. a[1] \notin Runs
        BY <1>4, <4>1 DEF StagesOf, Runs
      <4> QED
        BY <4>2 DEF Actors
    <3> QED
      BY <1>4, <1>p, <2>1, <3>1 DEF Tracked
  <2>2. CASE TaskStep(a)
    <3>1. CASE StoreOrphan(a)
      BY <3>1 DEF StoreOrphan, Tracked
    <3>2. CASE Independent(a)
      BY <3>2 DEF Independent, WriteArrival, RecordArrival, RecordFails, Excuse, Tracked
    <3>3. CASE StorePending(a)
      <4>1. act'[a].at = "confirm" /\ act'[a].to = act[a].to
        BY <3>3 DEF StorePending, Goes, TypeOK, Tasks
      <4>2. pending'[p] # 0
        BY <3>3 DEF StorePending, At, Shape, ShapeOf, TypeOK
      <4> QED
        BY <1>p, <4>1, <4>2 DEF Tracked
    <3> QED
      BY <1>4, <2>2, <3>1, <3>2, <3>3, StageStep
  <2> QED
    BY <1>1, <1>4, <2>1, <2>2, ActorMoves
<1> QED
  BY <1>2, <1>3, <1>4

(* A pair is heard of by a signal.                                         *)
LEMMA HeardBy ==
    ASSUME TypeOK, [Next]_vars, NEW p \in heard', p \notin heard
    PROVE  \E a \in Actors, t \in Targets :
             Hear(a, t) /\ p = <<a[2], t>> /\ a[1] # "unraid"
<1> USE DEF memory, database, twitch, history
<1>a. ASSUME NEW a \in Actors, TaskStep(a) \/ NoRaid(a) \/ \E t \in Targets : StartRaid(a, t)
      PROVE  UNCHANGED heard
  <2>1. ASSUME Register(a) \/ Replay(a) \/ Finish(a) \/ Recall(a) \/ StorePending(a)
               \/ NoRaid(a) \/ \E t \in Targets : StartRaid(a, t)
        PROVE  UNCHANGED heard
    BY <2>1 DEF Register, Replay, Finish, Recall, StorePending, NoRaid, StartRaid
  <2>2. ASSUME Confirm(a) PROVE UNCHANGED heard
    BY <2>2 DEF Confirm
  <2>3. ASSUME WritePartner(a) \/ WriteExternal(a) \/ StoreOrphan(a) \/ Independent(a)
               \/ MarkManualRaidStarted(a)
        PROVE  UNCHANGED heard
    BY <2>3 DEF WritePartner, WriteExternal, StoreOrphan, Independent, MarkManualRaidStarted
  <2> QED
    BY <1>a, <2>1, <2>2, <2>3 DEF TaskStep
<1>b. ASSUME NEW a \in Actors, NEW t \in Targets, Hear(a, t)
      PROVE  p = <<a[2], t>> /\ a[1] # "unraid"
  BY <1>b DEF Hear
<1>c. ASSUME NEW q \in Pairs,
             \/ OwnRaid(q) \/ ObserveOwnRaid(q) \/ Land(q) \/ CallOff(q)
             \/ ClaimStaleOrphan(q) \/ PromoteOrphan(q) \/ Sweep(q) \/ SelfUnraid(q)
      PROVE  UNCHANGED heard
  BY <1>c DEF OwnRaid, ObserveOwnRaid, Land, CallOff, ClaimStaleOrphan, PromoteOrphan,
              Sweep, SelfUnraid
<1>d. ASSUME NEW s \in Sources, Offline(s) \/ GraceOver(s) \/ ManualRaid(s) \/ GoLive(s)
                                \/ MarkExpires(s)
      PROVE  UNCHANGED heard
  BY <1>d DEF Offline, GraceOver, ManualRaid, GoLive, MarkExpires
<1>e. ASSUME NEW t \in Targets, Blacklist(t) \/ CleanupDue(t) PROVE UNCHANGED heard
  BY <1>e DEF Blacklist, CleanupDue
<1>f. CASE Restart \/ UNCHANGED vars
  BY <1>f DEF Restart, vars
<1> QED
  BY <1>a, <1>b, <1>c, <1>d, <1>e, <1>f DEF Next

LEMMA TrackStep ==
    TypeOK /\ TypeOK' /\ Shape /\ FlowInv /\ TrackInv /\ [Next]_vars => TrackInv'
<1> SUFFICES ASSUME TypeOK, TypeOK', Shape, FlowInv, TrackInv, [Next]_vars
             PROVE  TrackInv'
  OBVIOUS
<1> USE DEF memory, database, twitch, history
<1>1. orphans' \subseteq heard'
  BY OrphansHeard, TracksGrow
<1>2. ASSUME NEW a \in Actors, a[1] # "unraid", act'[a].at \in Late
      PROVE  <<a[2], act'[a].to>> \in heard'
  <2>1. LateKept(a) /\ heard \subseteq heard'
    BY LateMoves, TracksGrow
  <2>2. CASE act[a].at \in Late /\ act'[a].to = act[a].to
    BY <1>2, <2>1, <2>2 DEF TrackInv, Pair
  <2>3. CASE <<a[2], act'[a].to>> \in orphans
    BY <2>1, <2>3 DEF TrackInv
  <2> QED
    BY <1>2, <2>1, <2>2, <2>3 DEF LateKept
<1>3. ASSUME NEW a \in Actors, act'[a].at \in {"replay", "confirm"},
             act'[a].to \in Partners
      PROVE  LET p == <<a[2], act'[a].to>>
             IN  \/ pending'[p] # 0
                 \/ p \in excused' \/ p \in arrivals'
                 \/ \E b \in Actors : <<b[2], act'[b].to>> = p /\ act'[b].at = "write"
  <2>1. CASE act[a].at \in {"replay", "confirm"} /\ act'[a].to = act[a].to
    <3>1. Safe(Pair(a)) /\ Pair(a) \in Pairs /\ Pair(a)[2] \in Partners
      BY <1>3, <2>1, PairFacts DEF TrackInv
    <3>2. Pair(a) \in heard \cup Registering
      <4>1. CASE act[a].at = "replay"
        BY <4>1 DEF Registering, At
      <4>2. CASE act[a].at = "confirm"
        <5>1. act[a].at \in StagesOf(a[1])
          BY DEF Shape, ShapeOf
        <5>2. a[1] # "unraid" /\ act[a].at \in Late
          BY <4>2, <5>1, StagesFacts DEF Late
        <5> QED
          BY <5>2 DEF TrackInv
      <4> QED
        BY <2>1, <4>1, <4>2
    <3>3. Pair(a) = <<a[2], act'[a].to>>
      BY <2>1 DEF Pair
    <3> QED
      BY <3>1, <3>2, <3>3, SafeKept
  <2> QED
    BY <1>3, <2>1, ReplayMoves
<1>4. ASSUME NEW p \in heard' \ excused', p[2] \in Partners PROVE Tracked(p)
  <2>0. p \in Pairs
    BY DEF TypeOK
  <2>1. CASE p \in heard
    <3>0. p \notin excused
      BY <1>4, TracksGrow
    <3>1. p \in arrivals \/ Working(p)
      BY <1>4, <2>1, <3>0 DEF TrackInv, TrackedOrWorking
    <3>2. CASE p \in arrivals
      BY <3>2, TracksGrow DEF Tracked
    <3>3. CASE p \in orphans \cup promoting
      BY <1>4, <2>0, <2>1, <3>3, OrphanKept
    <3>4. ASSUME NEW a \in Actors, Pair(a) = p,
                 \/ act[a].at = "write"
                 \/ act[a].at = "store" /\ a[1] # "unraid"
                 \/ act[a].at = "confirm" /\ pending[p] # 0
          PROVE  Tracked(p)
      <4>1. act[a].at \in StagesOf(a[1])
        BY DEF Shape, ShapeOf
      <4>2. a[1] # "unraid"
        BY <3>4, <4>1, StagesFacts
      <4> QED
        BY <1>4, <2>0, <2>1, <3>4, <4>2, TaskTracked
    <3>5. ASSUME NEW a \in Signals \X Sources, Pair(a) = p, a[1] # "unraid",
                 act[a].at \in {"look", "orphan", "independent"}
          PROVE  Tracked(p)
      <4>1. a \in Actors
        BY DEF Actors
      <4> QED
        BY <1>4, <2>0, <2>1, <3>5, <4>1, TaskTracked
    <3> QED
      BY <3>1, <3>2, <3>3, <3>4, <3>5 DEF Working, At
  <2>2. CASE p \notin heard
    <3>1. PICK a \in Actors, t \in Targets :
             Hear(a, t) /\ p = <<a[2], t>> /\ a[1] # "unraid"
      BY <1>4, <2>2, HeardBy
    <3>2. /\ act' = [act EXCEPT ![a] = [at |-> "look", to |-> t, flow |-> pending[<<a[2], t>>]]]
          /\ a[1] \in Signals
      BY <3>1 DEF Hear
    <3>3. act'[a].at = "look" /\ act'[a].to = t
      BY <3>2 DEF TypeOK
    <3>4. a \in Signals \X Sources
      BY <3>2 DEF Actors
    <3> QED
      BY <3>1, <3>3, <3>4 DEF Tracked
  <2> QED
    BY <2>1, <2>2
<1>5. TrackedOrWorking'
  BY <1>4 DEF TrackedOrWorking, Working, Tracked, Pair, At
<1>6. \A a \in Actors : act'[a].at \in {"replay", "confirm"} /\ act'[a].to \in Partners
                          => Safe(Pair(a))'
  BY <1>3 DEF Safe, Pair, At
<1> QED
  BY <1>1, <1>2, <1>5, <1>6 DEF TrackInv, Pair

TracksInv == TypeInv /\ FlowInv /\ TrackInv

(* An arrival on a partner that was signalled is recorded, or somebody is  *)
(* still at it, or a removal, a fault or a restart has interfered.         *)
THEOREM ArrivalsTracked == Spec => []TrackedOrWorking
<1>1. Init => TracksInv
  <2> SUFFICES ASSUME Init PROVE TracksInv
    OBVIOUS
  <2>1. FlowInv
    BY IdleFacts DEF Init, FlowInv, PendingOk, CopyOk
  <2>2. \A a \in Actors : act[a].at = "idle"
    BY IdleFacts DEF Init
  <2>3. TrackInv
    BY <2>2 DEF Init, TrackInv, TrackedOrWorking, Late
  <2> QED
    BY <2>1, <2>3, TypeInit DEF TracksInv
<1>2. TracksInv /\ [Next]_vars => TracksInv'
  BY TypeStep, ShapeStep, FlowStep, TrackStep DEF TracksInv, TypeInv
<1>3. TracksInv => TrackedOrWorking
  BY DEF TracksInv, TrackInv
<1> QED
  BY <1>1, <1>2, <1>3, PTL DEF Spec
=============================================================================
