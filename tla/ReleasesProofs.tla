--------------------------- MODULE ReleasesProofs ---------------------------
(***************************************************************************)
(* Theorems about Releases: for any artifacts, services and history of     *)
(* main, any number of batches, failed deploys, crashes and wrappers left  *)
(* behind.                                                                 *)
(***************************************************************************)
EXTENDS Releases, DeployQueueProofs

(* Every step is a step of the queue: what was proved of the queue holds   *)
(* here too.                                                               *)
LEMMA StepsOfQueue == [ReleasesNext]_rvars => [Next]_vars
<1> SUFFICES ASSUME [ReleasesNext]_rvars PROVE [Next]_vars
  OBVIOUS
<1>1. ASSUME NEW t \in Tickets,
             \/ Submit(t) \/ SendCompact(t) \/ CompactSent(t) \/ SkipCompact(t)
             \/ TimeoutCompact(t) \/ Tell(t) \/ MarkNotified(t)
             \/ CompactFails(t) \/ SettleCompact(t) \/ TellUnanswered(t)
      PROVE Next
  BY <1>1 DEF Next, Loop
<1>2. ASSUME \/ Merge \/ SpawnBatch \/ StartRun \/ StartRunFails
             \/ StartRunUnanswered \/ Fetch \/ RunFails \/ RecordUnanswered
             \/ Serve \/ Recover \/ Tick
      PROVE Next
  BY <1>2 DEF Next, Job
<1>3. ASSUME \/ ReadParent \/ PlanDeploy \/ PlanNothing \/ LinkRelease \/ DeployAll
             \/ DeployFailsEarly \/ DeployFailsLate \/ DeployIsPutBack \/ OrphanLinks
             \/ OrphanRestarts \/ OrphanGivesUp \/ PruefenPasses \/ CrashWith \/ RecordRun
      PROVE Next
  <2>1. \/ Resolve \/ Plan \/ SwitchLink \/ Deploy \/ DeployFails \/ VerifyFails
        \/ OrphanSwitches \/ OrphanEnds \/ Pruefen \/ Crash \/ Record
    BY <1>3 DEF ReadParent, PlanDeploy, PlanNothing, LinkRelease, DeployAll,
                DeployFailsEarly, DeployFailsLate, DeployIsPutBack, OrphanLinks,
                OrphanRestarts, OrphanGivesUp, PruefenPasses, CrashWith, RecordRun
  <2> QED
    BY <2>1 DEF Next, Job
<1>4. ASSUME UNCHANGED rvars PROVE UNCHANGED vars
  BY <1>4 DEF rvars
<1> QED
  BY <1>1, <1>2, <1>3, <1>4 DEF ReleasesNext

(* Releases refines DeployQueue.                                           *)
THEOREM ReleasesImplementQueue == ReleasesSpec => Spec
<1>1. ReleasesInit => Init
  BY DEF ReleasesInit
<1> QED
  BY <1>1, StepsOfQueue, PTL DEF ReleasesSpec, Spec

-----------------------------------------------------------------------------
(* The invariant. *)

(* Whatever is planned, live or about to be switched to is on main.        *)
OnMain ==
    /\ main \in Commits /\ live \in Commits /\ previous \in Commits
    /\ job.target \in Commits
    /\ orphans \subseteq Commits

(* The plan p restarts what a switch from its parent to r changes.         *)
Covers(p, r) ==
    \A a \in Artifacts :
        Inputs[p.parent][a] # Inputs[r][a] => ServicesOf[a] \subseteq p.restarts

PlansCover ==
    /\ job.stage \in {"deploy", "verify"} => Covers(plan, job.target)
    /\ \A r \in orphans : Covers(leftover[r], r)

(* Up to the versions of the inputs: what a service runs is in the release *)
(* that is kept, or put back if another one is linked but not verified.    *)
RunsLive ==
    ~uneven => \A a \in Artifacts : \A s \in ServicesOf[a] :
                  Inputs[taken[s]][a] = Inputs[previous][a]

(* The batch knows the live release, and what it will say of the services  *)
(* is so.                                                                  *)
Succeeding == job.stage = "pruefen" \/ (job.stage = "record" /\ job.verdict # "failed")

CheckKnows ==
    /\ job.stage = "verify" \/ job.deploys => orphans = {} /\ live = job.target
    /\ (job.stage = "plan" \/ Succeeding) /\ ~job.deploys /\ ~moved => live = plan.parent
    /\ Succeeding /\ ~job.deploys =>
         \A a \in Compiled : Inputs[plan.parent][a] = Inputs[job.target][a]
    /\ job.stage \in {"claim", "fetch", "resolve", "plan", "deploy", "verify"} => ~job.deploys
    /\ job.stage = "record" /\ job.verdict # "failed" /\ (job.deploys \/ ~moved) =>
         \A s \in Services : Inputs[taken[s]][Exe[s]] = Inputs[job.target][Exe[s]]

ReleasesInv ==
    /\ ReleasesTypeOK /\ OnMain
    /\ BuildIsItsCommit /\ PlansCover /\ RunsLive /\ CheckKnows

LEMMA InitReleasesInv == ReleasesInit => ReleasesInv
<1> SUFFICES ASSUME ReleasesInit PROVE ReleasesInv
  OBVIOUS
<1> USE DeployAssumption, ReleasesAssumption
<1>2. 0 \in Commits
  BY DEF Commits
<1>3. ReleasesTypeOK
  BY <1>2 DEF ReleasesInit, ReleasesTypeOK, NoPlan
<1>4. OnMain
  BY <1>2 DEF ReleasesInit, Init, OnMain, NoJob
<1>5. BuildIsItsCommit
  BY DEF ReleasesInit, BuildIsItsCommit
<1>6. PlansCover /\ RunsLive /\ CheckKnows
  BY DEF ReleasesInit, Init, PlansCover, RunsLive, CheckKnows, NoJob, Succeeding
<1> QED
  BY <1>3, <1>4, <1>5, <1>6 DEF ReleasesInv

-----------------------------------------------------------------------------
(* The steps, grouped by what they change of what the invariant looks at.  *)

(* The queue minds its threads, its clocks, or a commit is merged.         *)
LEMMA AsideStep ==
    ASSUME ReleasesInv, UNCHANGED <<job, live, previous, orphans, releaseVars>>, main' \in Commits
    PROVE  ReleasesInv'
  BY DEF ReleasesInv, ReleasesTypeOK, OnMain, BuildIsItsCommit, PlansCover, Covers,
         RunsLive, CheckKnows, Succeeding, releaseVars

(* The batch moves on without a plan, or ends.                             *)
LEMMA JobStep ==
    ASSUME ReleasesInv, UNCHANGED <<main, live, previous, orphans, releaseVars>>,
           job'.target \in Commits,
           job'.deploys => job.deploys /\ job'.target = job.target,
           \/ job'.stage \in {"none", "claim", "fetch", "resolve"} /\ ~job'.deploys
           \/ job'.stage = "record" /\ job'.verdict = "failed"
    PROVE  ReleasesInv'
  BY DEF ReleasesInv, ReleasesTypeOK, OnMain, BuildIsItsCommit, PlansCover, Covers,
         RunsLive, CheckKnows, Succeeding, releaseVars

LEMMA ReadParentStep == TypeOK /\ ReleasesInv /\ ReadParent => ReleasesInv'
<1> SUFFICES ASSUME TypeOK, ReleasesInv, ReadParent PROVE ReleasesInv'
  OBVIOUS
<1> USE DEF ReleasesInv
<1>1. /\ job.stage = "resolve" /\ job'.stage \in {"pruefen", "plan"}
      /\ (job'.stage = "pruefen" => live = job.target)
      /\ job'.target = job.target /\ job'.deploys = job.deploys
      /\ UNCHANGED <<main, live, previous, orphans>>
      /\ plan' = [NoPlan EXCEPT !.parent = live] /\ moved' = FALSE
      /\ UNCHANGED <<origin, frozen, leftover, taken, uneven>>
  BY DEF ReadParent, Resolve, JobGoes, TypeOK
<1>2. plan'.parent = live /\ plan' \in [parent : Commits, restarts : SUBSET Services, resumes : BOOLEAN]
  BY <1>1 DEF NoPlan, OnMain
<1>3. ReleasesTypeOK' /\ OnMain' /\ BuildIsItsCommit' /\ RunsLive'
  BY <1>1, <1>2 DEF ReleasesTypeOK, OnMain, BuildIsItsCommit, RunsLive
<1>4. PlansCover'
  BY <1>1 DEF PlansCover, Covers
<1>5. CheckKnows'
  BY <1>1, <1>2 DEF CheckKnows, Succeeding
<1> QED
  BY <1>3, <1>4, <1>5

LEMMA PlanStep == TypeOK /\ ReleasesInv /\ (PlanDeploy \/ PlanNothing) => ReleasesInv'
<1> SUFFICES ASSUME TypeOK, ReleasesInv, PlanDeploy \/ PlanNothing PROVE ReleasesInv'
  OBVIOUS
<1> USE ReleasesAssumption DEF ReleasesInv
<1>1. /\ job.stage = "plan" /\ job'.target = job.target /\ job'.deploys = job.deploys
      /\ job'.verdict = job.verdict
      /\ UNCHANGED <<main, live, previous, orphans>>
      /\ UNCHANGED <<frozen, leftover, taken, uneven, moved>>
      /\ job'.stage \in {"deploy", "pruefen"}
  BY DEF PlanDeploy, PlanNothing, Plan, JobGoes, TypeOK, Keep, releaseVars
(* An artifact that is not built has in the target what it has in the      *)
(* parent, since the parent has what its commit says.                      *)
<1>2. \A a \in Compiled : Unchanged(a) => Inputs[plan.parent][a] = Inputs[job.target][a]
  BY DEF Unchanged, BuildIsItsCommit, ReleasesTypeOK
<1>3. OnMain' /\ RunsLive'
  BY <1>1 DEF OnMain, RunsLive
<1>4. CASE PlanNothing
  <2>1. UNCHANGED <<origin, plan>> /\ job'.stage = "pruefen" /\ Built = {}
    BY <1>4 DEF PlanNothing, Keep, releaseVars, NeedsDeploy
  <2>2. \A a \in Compiled : Inputs[plan.parent][a] = Inputs[job.target][a]
    BY <1>2, <2>1 DEF Built
  <2>3. ReleasesTypeOK' /\ BuildIsItsCommit' /\ PlansCover'
    BY <1>1, <2>1 DEF ReleasesTypeOK, BuildIsItsCommit, PlansCover, Covers
  <2>4. CheckKnows'
    BY <1>1, <2>1, <2>2 DEF CheckKnows, Succeeding
  <2> QED
    BY <1>3, <2>3, <2>4
<1>5. CASE PlanDeploy
  <2> DEFINE new == [a \in Compiled |-> IF a \in Built THEN job.target
                                       ELSE origin[plan.parent][a]]
  <2> DEFINE found == job.target \in frozen
  <2>0. found \in BOOLEAN
    OBVIOUS
  <2>1. /\ job'.stage = "deploy"
        /\ plan' = [plan EXCEPT !.restarts = Restarts, !.resumes = found]
        /\ origin' = origin \/ origin' = [origin EXCEPT ![job.target] = new]
    BY <1>5 DEF PlanDeploy
  <2>2. Restarts \subseteq Services
    BY DEF Restarts, Built, Changed
  <2>3. plan'.parent = plan.parent /\ plan'.restarts = Restarts
    BY <2>1 DEF ReleasesTypeOK
  <2>4. new \in [Compiled -> Commits]
    BY DEF OnMain, ReleasesTypeOK
  <2>5. \A a \in Compiled : Inputs[new[a]][a] = Inputs[job.target][a]
    BY DEF Built, Unchanged
  <2> HIDE DEF new, found
  <2>6. /\ origin' \in [Commits -> [Compiled -> Commits]]
        /\ \A r \in Commits : origin'[r] = origin[r] \/ (r = job.target /\ origin'[r] = new)
    <3>1. CASE origin' = origin
      BY <3>1 DEF ReleasesTypeOK
    <3>2. CASE origin' = [origin EXCEPT ![job.target] = new]
      BY <2>4, <3>2 DEF ReleasesTypeOK, OnMain
    <3> QED
      BY <2>1, <3>1, <3>2
  <2>7. ReleasesTypeOK' /\ BuildIsItsCommit'
    <3>1. plan' \in [parent : Commits, restarts : SUBSET Services, resumes : BOOLEAN]
      BY <2>0, <2>1, <2>2 DEF ReleasesTypeOK
    <3>2. ReleasesTypeOK'
      BY <1>1, <2>6, <3>1 DEF ReleasesTypeOK
    <3>3. BuildIsItsCommit'
      <4> SUFFICES ASSUME NEW r \in Commits, NEW a \in Compiled
                   PROVE  Inputs[origin'[r][a]][a] = Inputs[r][a]
        BY DEF BuildIsItsCommit
      <4>1. CASE origin'[r] = origin[r]
        BY <4>1 DEF BuildIsItsCommit
      <4>2. CASE r = job.target /\ origin'[r] = new
        BY <2>5, <4>2
      <4> QED
        BY <2>6, <4>1, <4>2
    <3> QED
      BY <3>2, <3>3
  <2>8. Covers(plan', job.target)
    <3> SUFFICES ASSUME NEW a \in Artifacts, Inputs[plan.parent][a] # Inputs[job.target][a]
                 PROVE  ServicesOf[a] \subseteq Restarts
      BY <2>3 DEF Covers
    <3>1. a \in Built \cup Changed
      BY <1>2 DEF Built, Changed
    <3> QED
      BY <3>1 DEF Restarts
  <2>9. PlansCover'
    BY <1>1, <2>1, <2>8 DEF PlansCover, Covers
  <2>10. CheckKnows'
    BY <1>1, <2>1 DEF CheckKnows, Succeeding
  <2> QED
    BY <1>3, <2>7, <2>9, <2>10
<1> QED
  BY <1>4, <1>5

(* A release is kept: what was restarted runs it, the rest needed nothing. *)
LEMMA KeptRunsLive ==
    ASSUME NEW r \in Commits, NEW p, NEW S \in SUBSET Services,
           ReleasesTypeOK, RunsLive, Covers(p, r), RestartsWith(r, p, S), previous' = r
    PROVE  RunsLive'
<1> USE ReleasesAssumption
<1> SUFFICES ASSUME ~uneven', NEW a \in Artifacts, NEW s \in ServicesOf[a]
             PROVE  Inputs[taken'[s]][a] = Inputs[previous'][a]
  BY DEF RunsLive
<1>1. ~uneven /\ S = p.restarts /\ p.parent = previous
  BY DEF RestartsWith, ReleasesTypeOK
<1>2. s \in Services
  OBVIOUS
<1>3. taken'[s] = IF s \in S THEN r ELSE taken[s]
  BY <1>2 DEF RestartsWith
<1>4. CASE s \in S
  BY <1>1, <1>3, <1>4
<1>5. CASE s \notin S
  <2>1. Inputs[previous][a] = Inputs[r][a]
    BY <1>1, <1>5 DEF Covers
  <2> QED
    BY <1>1, <1>3, <1>5, <2>1 DEF RunsLive
<1> QED
  BY <1>4, <1>5

LEMMA RestartTypes ==
    ASSUME NEW r \in Commits, NEW p, NEW S \in SUBSET Services,
           ReleasesTypeOK, BuildIsItsCommit, RestartsWith(r, p, S)
    PROVE  /\ taken' \in [Services -> Commits] /\ uneven' \in BOOLEAN
           /\ BuildIsItsCommit' /\ origin' = origin
  BY DEF RestartsWith, ReleasesTypeOK, BuildIsItsCommit

LEMMA LinkStep == TypeOK /\ ReleasesInv /\ LinkRelease => ReleasesInv'
<1> SUFFICES ASSUME TypeOK, ReleasesInv, LinkRelease PROVE ReleasesInv'
  OBVIOUS
<1> USE DEF ReleasesInv
<1>1. /\ job.stage = "deploy" /\ orphans = {} /\ job'.target = job.target
      /\ job'.stage = "verify" /\ ~job'.deploys
      /\ live' = job.target /\ frozen' = frozen \cup {job.target}
      /\ UNCHANGED <<main, previous, orphans>>
      /\ UNCHANGED <<origin, plan, leftover, taken, uneven, moved>>
  BY DEF LinkRelease, SwitchLink, Freezes, JobGoes, TypeOK, CheckKnows
<1>2. ReleasesTypeOK' /\ OnMain' /\ BuildIsItsCommit'
  BY <1>1 DEF ReleasesTypeOK, OnMain, BuildIsItsCommit
<1>3. PlansCover' /\ RunsLive' /\ CheckKnows'
  BY <1>1 DEF PlansCover, Covers, RunsLive, CheckKnows, Succeeding
<1> QED
  BY <1>2, <1>3

LEMMA DeployStep ==
    TypeOK /\ ReleasesInv /\ (DeployAll \/ DeployFailsLate) => ReleasesInv'
<1> SUFFICES ASSUME TypeOK, ReleasesInv, DeployAll \/ DeployFailsLate PROVE ReleasesInv'
  OBVIOUS
<1> USE DEF ReleasesInv
<1>1. /\ job.stage = "verify" /\ job'.target = job.target
      /\ live' = live /\ previous' = live
      /\ UNCHANGED <<main, orphans, frozen, plan, leftover, moved>>
      /\ \/ job'.stage = "pruefen" /\ job'.deploys
         \/ job'.stage = "record" /\ job'.verdict = "failed" /\ ~job'.deploys
  BY DEF DeployAll, DeployFailsLate, Deploy, VerifyFails, Keeps, Failed, JobGoes, TypeOK,
         CheckKnows
<1>2. PICK S \in SUBSET plan.restarts : RestartsWith(job.target, plan, S)
  BY DEF DeployAll, DeployFailsLate
<1>3. S \in SUBSET Services
  BY DEF ReleasesTypeOK
<1>4. Covers(plan, job.target) /\ orphans = {} /\ live = job.target
  BY <1>1 DEF PlansCover, CheckKnows
<1>5. RunsLive'
  BY <1>1, <1>2, <1>3, <1>4, KeptRunsLive DEF OnMain
<1>6. /\ taken' \in [Services -> Commits] /\ uneven' \in BOOLEAN
      /\ BuildIsItsCommit' /\ origin' = origin
  BY <1>2, <1>3, RestartTypes DEF OnMain
<1>7. ReleasesTypeOK' /\ OnMain' /\ PlansCover'
  BY <1>1, <1>4, <1>6 DEF ReleasesTypeOK, OnMain, PlansCover
<1>8. CheckKnows'
  BY <1>1, <1>4, <1>6 DEF CheckKnows, Succeeding
<1> QED
  BY <1>5, <1>6, <1>7, <1>8

(* The batch fails with the link as it was when it planned or before. *)
LEMMA DeployFailsStep ==
    TypeOK /\ ReleasesInv /\ (DeployFailsEarly \/ DeployIsPutBack) => ReleasesInv'
<1> SUFFICES ASSUME TypeOK, ReleasesInv, DeployFailsEarly \/ DeployIsPutBack
             PROVE  ReleasesInv'
  OBVIOUS
<1> USE DEF ReleasesInv
<1>1. /\ job.stage \in {"deploy", "verify"} /\ job'.target = job.target
      /\ job'.stage = "record" /\ job'.verdict = "failed" /\ ~job'.deploys
      /\ live' \in {live, previous}
      /\ UNCHANGED <<main, previous, orphans, plan, leftover, moved, origin, taken, uneven>>
      /\ frozen' \subseteq frozen \cup {job.target}
  <2>1. CASE DeployFailsEarly
    BY <2>1 DEF DeployFailsEarly, DeployFails, MayFreeze, Failed, JobGoes, TypeOK, CheckKnows
  <2>2. CASE DeployIsPutBack
    BY <2>2 DEF DeployIsPutBack, VerifyFails, PutsBack, Failed, JobGoes, TypeOK, CheckKnows,
                Keep, releaseVars
  <2> QED
    BY <2>1, <2>2
<1>2. ReleasesTypeOK' /\ OnMain' /\ BuildIsItsCommit'
  BY <1>1 DEF ReleasesTypeOK, OnMain, BuildIsItsCommit
<1>3. PlansCover' /\ RunsLive'
  BY <1>1 DEF PlansCover, Covers, RunsLive
<1>4. CheckKnows'
  BY <1>1 DEF CheckKnows, Succeeding
<1> QED
  BY <1>2, <1>3, <1>4

(* A wrapper without its daemon links its release: what the batch knows of *)
(* the link is from then on exempt.                                        *)
LEMMA OrphanLinkStep == TypeOK /\ ReleasesInv /\ OrphanLinks => ReleasesInv'
<1> SUFFICES ASSUME TypeOK, ReleasesInv, OrphanLinks PROVE ReleasesInv'
  OBVIOUS
<1> USE DEF ReleasesInv
<1>1. /\ live' \in orphans /\ frozen' = frozen \cup {live'} /\ Moves
      /\ UNCHANGED <<job, main, previous, orphans>>
      /\ UNCHANGED <<origin, plan, leftover, taken, uneven>>
  BY DEF OrphanLinks, OrphanSwitches, First
<1>2. ~job.deploys /\ job.stage # "verify"
  BY <1>1 DEF CheckKnows
<1>3. moved' \in BOOLEAN /\ (moved => moved')
      /\ (job.stage # "none" /\ ~moved' => live' = live)
  BY <1>1 DEF Moves, ReleasesTypeOK
<1>4. ReleasesTypeOK' /\ OnMain' /\ BuildIsItsCommit'
  BY <1>1, <1>3 DEF ReleasesTypeOK, OnMain, BuildIsItsCommit
<1>5. PlansCover' /\ RunsLive'
  BY <1>1 DEF PlansCover, Covers, RunsLive
<1>6. CheckKnows'
  BY <1>1, <1>2, <1>3 DEF CheckKnows, Succeeding
<1> QED
  BY <1>4, <1>5, <1>6

(* ... and ends. *)
LEMMA OrphanStep ==
    TypeOK /\ ReleasesInv /\ (OrphanGivesUp \/ OrphanRestarts) => ReleasesInv'
<1> SUFFICES ASSUME TypeOK, ReleasesInv, OrphanGivesUp \/ OrphanRestarts PROVE ReleasesInv'
  OBVIOUS
<1> USE DEF ReleasesInv
<1>1. PICK r \in orphans :
         /\ orphans' = orphans \ {r} /\ UNCHANGED <<job, main, plan>>
         /\ Forget(r)
         /\ \/ /\ PutsBack /\ MayFreeze(r) /\ Moves
               /\ UNCHANGED <<origin, taken, uneven>>
            \/ /\ Keeps /\ live = r /\ UNCHANGED <<frozen, moved>>
               /\ \E S \in SUBSET leftover[r].restarts : RestartsWith(r, leftover[r], S)
  BY DEF OrphanGivesUp, OrphanRestarts, OrphanEnds
<1>2. r \in Commits
  BY DEF OnMain
<1>3. /\ leftover' \in [Commits -> [parent : Commits, restarts : SUBSET Services,
                                    resumes : BOOLEAN]]
      /\ \A o \in orphans' : o \in Commits /\ leftover'[o] = leftover[o]
  <2>1. 0 \in Commits
    BY DeployAssumption DEF Commits
  <2>2. NoPlan \in [parent : Commits, restarts : SUBSET Services, resumes : BOOLEAN]
    BY <2>1 DEF NoPlan
  <2> QED
    BY <1>1, <2>2 DEF ReleasesTypeOK, OnMain, Forget
<1>4. PlansCover'
  BY <1>1, <1>3 DEF PlansCover, Covers
<1>5. ~job.deploys /\ job.stage # "verify"
  BY <1>1 DEF CheckKnows
<1>6. CASE PutsBack /\ MayFreeze(r) /\ Moves /\ UNCHANGED <<origin, taken, uneven>>
  <2>1. live' = previous /\ previous' = previous /\ frozen' \subseteq frozen \cup {r}
    BY <1>6 DEF PutsBack, MayFreeze
  <2>2. moved' \in BOOLEAN /\ (moved => moved')
        /\ (job.stage # "none" /\ ~moved' => live' = live)
    BY <1>6 DEF Moves, ReleasesTypeOK
  <2>3. ReleasesTypeOK' /\ OnMain' /\ BuildIsItsCommit' /\ RunsLive'
    BY <1>1, <1>2, <1>3, <1>6, <2>1, <2>2
       DEF ReleasesTypeOK, OnMain, BuildIsItsCommit, RunsLive
  <2>4. CheckKnows'
    BY <1>1, <1>5, <1>6, <2>1, <2>2 DEF CheckKnows, Succeeding
  <2> QED
    BY <1>4, <2>3, <2>4
<1>7. CASE /\ Keeps /\ live = r /\ UNCHANGED <<frozen, moved>>
           /\ \E S \in SUBSET leftover[r].restarts : RestartsWith(r, leftover[r], S)
  <2>1. PICK S \in SUBSET leftover[r].restarts : RestartsWith(r, leftover[r], S)
    BY <1>7
  <2>2. S \in SUBSET Services
    BY <1>2 DEF ReleasesTypeOK
  <2>3. Covers(leftover[r], r)
    BY <1>1 DEF PlansCover
  <2>4. live' = r /\ previous' = r /\ live = r
    BY <1>7 DEF Keeps
  <2>5. RunsLive'
    BY <1>2, <2>1, <2>2, <2>3, <2>4, KeptRunsLive
  <2>6. /\ taken' \in [Services -> Commits] /\ uneven' \in BOOLEAN
        /\ BuildIsItsCommit' /\ origin' = origin
    BY <1>2, <2>1, <2>2, RestartTypes
  <2>7. ReleasesTypeOK' /\ OnMain'
    BY <1>1, <1>2, <1>3, <1>7, <2>4, <2>6 DEF ReleasesTypeOK, OnMain
(* What it restarts then runs the release that the batch has read.         *)
  <2>8. ASSUME job.stage = "record", job.verdict # "failed", ~moved, NEW s \in Services
        PROVE  Inputs[taken'[s]][Exe[s]] = Inputs[job.target][Exe[s]]
    <3>1. taken'[s] = r \/ taken'[s] = taken[s]
      BY <2>1 DEF RestartsWith
    <3>2. live = plan.parent
      BY <1>5, <2>8 DEF CheckKnows, Succeeding
    <3>3. Inputs[plan.parent][Exe[s]] = Inputs[job.target][Exe[s]]
      BY <1>5, <2>8, ReleasesAssumption DEF CheckKnows, Succeeding
    <3>4. Inputs[taken[s]][Exe[s]] = Inputs[job.target][Exe[s]]
      BY <2>8 DEF CheckKnows
    <3> QED
      BY <2>4, <3>1, <3>2, <3>3, <3>4
  <2>9. CheckKnows'
    BY <1>1, <1>5, <1>7, <2>4, <2>8 DEF CheckKnows, Succeeding
  <2> QED
    BY <1>4, <2>5, <2>6, <2>7, <2>9
<1> QED
  BY <1>1, <1>6, <1>7

(* Equal binaries were compiled from the same commit, and every release    *)
(* has what its commit says.                                               *)
LEMMA PruefenStep == TypeOK /\ ReleasesInv /\ PruefenPasses => ReleasesInv'
<1> SUFFICES ASSUME TypeOK, ReleasesInv, PruefenPasses PROVE ReleasesInv'
  OBVIOUS
<1> USE ReleasesAssumption DEF ReleasesInv
<1>1. /\ job.stage = "pruefen" /\ job'.stage = "record" /\ job'.target = job.target
      /\ job'.deploys = job.deploys
      /\ UNCHANGED <<main, live, previous, orphans>>
      /\ UNCHANGED <<origin, frozen, plan, leftover, taken, uneven, moved>>
      /\ \A s \in Services : origin[taken[s]][Exe[s]] = origin[live][Exe[s]]
  BY DEF PruefenPasses, Pruefen, JobGoes, Keep, releaseVars, TypeOK
<1>2. \A s \in Services : Exe[s] \in Compiled /\ taken[s] \in Commits
  BY DEF ReleasesTypeOK
<1>3. \A s \in Services : Inputs[taken[s]][Exe[s]] = Inputs[live][Exe[s]]
  BY <1>1, <1>2 DEF BuildIsItsCommit, OnMain
<1>4. job.deploys \/ ~moved =>
        \A s \in Services : Inputs[live][Exe[s]] = Inputs[job.target][Exe[s]]
  BY <1>1, <1>2 DEF CheckKnows, Succeeding
<1>5. ReleasesTypeOK' /\ OnMain' /\ BuildIsItsCommit' /\ PlansCover' /\ RunsLive'
  BY <1>1 DEF ReleasesTypeOK, OnMain, BuildIsItsCommit, PlansCover, Covers, RunsLive
<1>6. CheckKnows'
  BY <1>1, <1>3, <1>4 DEF CheckKnows, Succeeding
<1> QED
  BY <1>5, <1>6

LEMMA EndStep == TypeOK /\ ReleasesInv /\ (CrashWith \/ RecordRun) => ReleasesInv'
<1> SUFFICES ASSUME TypeOK, ReleasesInv, CrashWith \/ RecordRun PROVE ReleasesInv'
  OBVIOUS
<1> USE DEF ReleasesInv
<1>1. 0 \in Commits
  BY DeployAssumption DEF Commits
<1>2. /\ job' = NoJob /\ plan' = NoPlan /\ moved' = FALSE
      /\ UNCHANGED <<main, live, previous, origin, frozen, taken, uneven>>
  <2>1. CASE CrashWith
    BY <2>1 DEF CrashWith, Crash
  <2>2. CASE RecordRun
    BY <2>2 DEF RecordRun, Record, world
  <2> QED
    BY <2>1, <2>2
<1>3. /\ \/ orphans' = orphans
         \/ job.stage \in {"deploy", "verify"} /\ orphans' = orphans \cup {job.target}
      /\ leftover' = IF orphans' = orphans THEN leftover
                     ELSE [leftover EXCEPT ![job.target] = plan]
  <2>1. CASE CrashWith
    <3>1. orphans' = IF job.stage \in {"deploy", "verify"}
                     THEN orphans \cup {job.target} ELSE orphans
      BY <2>1 DEF CrashWith, Crash
    <3>2. leftover' = IF orphans' = orphans THEN leftover
                      ELSE [leftover EXCEPT ![job.target] = plan]
      BY <2>1 DEF CrashWith
    <3>3. \/ orphans' = orphans
          \/ job.stage \in {"deploy", "verify"} /\ orphans' = orphans \cup {job.target}
      BY <3>1
    <3> QED
      BY <3>2, <3>3
  <2>2. CASE RecordRun
    <3>1. orphans' = orphans /\ leftover' = leftover
      BY <2>2 DEF RecordRun, Record, world
    <3> QED
      BY <3>1
  <2> QED
    BY <2>1, <2>2
<1>4. NoPlan \in [parent : Commits, restarts : SUBSET Services, resumes : BOOLEAN]
  BY <1>1 DEF NoPlan
<1>5. ReleasesTypeOK'
  BY <1>2, <1>3, <1>4 DEF ReleasesTypeOK
<1>6. OnMain' /\ BuildIsItsCommit' /\ RunsLive'
  BY <1>1, <1>2, <1>3 DEF OnMain, BuildIsItsCommit, RunsLive, NoJob
<1>7. CheckKnows'
  BY <1>2 DEF CheckKnows, Succeeding, NoJob
<1>8. PlansCover'
  <2> SUFFICES ASSUME NEW r \in orphans' PROVE Covers(leftover'[r], r)
    BY <1>2 DEF PlansCover, NoJob, Covers
  <2>1. CASE orphans' = orphans
    BY <1>3, <2>1 DEF PlansCover
  <2>2. CASE orphans' # orphans
    BY <1>3, <2>2 DEF PlansCover, ReleasesTypeOK, OnMain
  <2> QED
    BY <2>1, <2>2
<1> QED
  BY <1>5, <1>6, <1>7, <1>8

LEMMA ReleasesInvStep == TypeOK /\ ReleasesInv /\ [ReleasesNext]_rvars => ReleasesInv'
<1> SUFFICES ASSUME TypeOK, ReleasesInv, [ReleasesNext]_rvars PROVE ReleasesInv'
  OBVIOUS
<1> USE DEF ticketVars, clocks, world, history, JobGoes
<1>1. main \in Commits /\ job.target \in Commits
  BY DEF ReleasesInv, OnMain
<1>2. ASSUME NEW t \in Tickets,
             \/ Submit(t) \/ SendCompact(t) \/ CompactSent(t) \/ SkipCompact(t)
             \/ TimeoutCompact(t) \/ Tell(t) \/ MarkNotified(t)
             \/ CompactFails(t) \/ SettleCompact(t) \/ TellUnanswered(t),
             Keep
      PROVE ReleasesInv'
  <2>1. UNCHANGED <<job, live, previous, orphans, main>>
    BY <1>2 DEF Submit, SendCompact, CompactSent, SkipCompact, TimeoutCompact, Tell,
                MarkNotified, CompactFails, SettleCompact, TellUnanswered
  <2> QED
    BY <1>1, <1>2, <2>1, AsideStep DEF Keep
<1>3. ASSUME Serve \/ Recover \/ Tick \/ RecordUnanswered, Keep PROVE ReleasesInv'
  <2>1. UNCHANGED <<job, live, previous, orphans, main>>
    BY <1>3 DEF Serve, Recover, Tick, RecordUnanswered
  <2> QED
    BY <1>1, <1>3, <2>1, AsideStep DEF Keep
<1>4. ASSUME Merge, Keep PROVE ReleasesInv'
  <2>1. UNCHANGED <<job, live, previous, orphans>> /\ main' \in Commits
    BY <1>1, <1>4, DeployAssumption DEF Merge, Commits
  <2> QED
    BY <1>4, <2>1, AsideStep DEF Keep
<1>5. ASSUME \/ SpawnBatch \/ StartRun \/ StartRunFails \/ StartRunUnanswered
             \/ Fetch \/ RunFails,
             Keep
      PROVE ReleasesInv'
  <2>1. 0 \in Commits
    BY DeployAssumption DEF Commits
  <2>2. job \in [stage : Stages, tickets : SUBSET Tickets, target : Nat,
                 rejected : SUBSET Tickets, verdict : Outcomes, deploys : BOOLEAN]
    BY DEF TypeOK
  <2>3. /\ UNCHANGED <<main, live, previous, orphans>>
        /\ job'.target \in Commits
        /\ job'.deploys => job.deploys /\ job'.target = job.target
        /\ \/ job'.stage \in {"none", "claim", "fetch", "resolve"} /\ ~job'.deploys
           \/ job'.stage = "record" /\ job'.verdict = "failed"
    <3>1. CASE SpawnBatch
      BY <2>1, <3>1 DEF SpawnBatch, NoJob
    <3>2. CASE StartRunFails \/ StartRunUnanswered
      <4>1. job' = NoJob /\ UNCHANGED <<main, live, previous, orphans>>
        BY <3>2 DEF StartRunFails, StartRunUnanswered
      <4> QED
        BY <2>1, <4>1 DEF NoJob
    <3>3. CASE StartRun
      <4>1. ~job.deploys
        BY <3>3 DEF StartRun, ReleasesInv, CheckKnows
      <4>2. job'.stage = "fetch" /\ job'.target = job.target /\ job'.deploys = job.deploys
        BY <2>2, <3>3 DEF StartRun
      <4>3. UNCHANGED <<main, live, previous, orphans>>
        BY <3>3 DEF StartRun
      <4> QED
        BY <1>1, <4>1, <4>2, <4>3
    <3>4. CASE Fetch
      <4>1. ~job.deploys
        BY <3>4 DEF Fetch, ReleasesInv, CheckKnows
      <4>2. job'.stage = "resolve" /\ job'.target = main /\ job'.deploys = job.deploys
        BY <2>2, <3>4 DEF Fetch
      <4>3. UNCHANGED <<main, live, previous, orphans>>
        BY <3>4 DEF Fetch
      <4> QED
        BY <1>1, <4>1, <4>2, <4>3
    <3>5. CASE RunFails
      <4>1. /\ job'.stage = "record" /\ job'.verdict = "failed"
            /\ job'.target = job.target /\ job'.deploys = job.deploys
        BY <2>2, <3>5 DEF RunFails, Failed
      <4>2. UNCHANGED <<main, live, previous, orphans>>
        BY <3>5 DEF RunFails
      <4> QED
        BY <1>1, <4>1, <4>2
    <3> QED
      BY <1>5, <3>1, <3>2, <3>3, <3>4, <3>5
  <2> QED
    BY <1>5, <2>3, JobStep DEF Keep
<1>6. ASSUME UNCHANGED rvars PROVE ReleasesInv'
  BY <1>1, <1>6, AsideStep DEF rvars, vars, releaseVars
<1> QED
  BY <1>2, <1>3, <1>4, <1>5, <1>6, ReadParentStep, PlanStep, LinkStep, DeployStep,
     DeployFailsStep, OrphanLinkStep, OrphanStep, PruefenStep, EndStep DEF ReleasesNext

LEMMA ReleasesInvariant == ReleasesSpec => []ReleasesInv
<1>1. Spec => []TypeOK
  BY TypeCorrect
<1> QED
  BY <1>1, InitReleasesInv, ReleasesInvStep, ReleasesImplementQueue, PTL DEF ReleasesSpec

-----------------------------------------------------------------------------
(* What the invariant says. *)

(* Every build is what its commit compiles to, however often its artifacts *)
(* were carried on.                                                        *)
THEOREM BuildsAreTheirCommits == ReleasesSpec => []BuildIsItsCommit
<1>1. ReleasesInv => BuildIsItsCommit
  BY DEF ReleasesInv
<1> QED
  BY <1>1, ReleasesInvariant, PTL

(* A release has of every artifact what its commit has.                    *)
LEMMA ContentOfCommit ==
    ASSUME BuildIsItsCommit, NEW r \in Commits, NEW a \in Artifacts
    PROVE  Content(r, a) = Inputs[r][a]
  BY DEF BuildIsItsCommit, Content

(* The restarts of a plan are enough.                                      *)
THEOREM NoServiceLeftBehind == ReleasesSpec => []RestartsSuffice
<1>1. ReleasesInv => RestartsSuffice
  <2> SUFFICES ASSUME ReleasesInv, ~uneven, NEW a \in Artifacts, NEW s \in ServicesOf[a]
               PROVE  Content(taken[s], a) = Content(previous, a)
    BY DEF RestartsSuffice
  <2>1. taken[s] \in Commits /\ previous \in Commits
    BY ReleasesAssumption DEF ReleasesInv, ReleasesTypeOK, OnMain
  <2>2. Inputs[taken[s]][a] = Inputs[previous][a]
    BY DEF ReleasesInv, RunsLive
  <2> QED
    BY <2>1, <2>2, ContentOfCommit DEF ReleasesInv
<1> QED
  BY <1>1, ReleasesInvariant, PTL

(* A batch that reports success left every service with its commit's code. *)
THEOREM SuccessIsRunning == ReleasesSpec => []SuccessRuns
<1>1. ReleasesInv => SuccessRuns
  <2> SUFFICES ASSUME ReleasesInv, job.stage = "record", job.verdict # "failed",
                      job.deploys \/ ~moved, NEW s \in Services
               PROVE  Content(taken[s], Exe[s]) = Inputs[job.target][Exe[s]]
    BY DEF SuccessRuns
  <2>1. taken[s] \in Commits /\ Exe[s] \in Artifacts
    BY ReleasesAssumption DEF ReleasesInv, ReleasesTypeOK
  <2>2. Inputs[taken[s]][Exe[s]] = Inputs[job.target][Exe[s]]
    BY DEF ReleasesInv, CheckKnows
  <2> QED
    BY <2>1, <2>2, ContentOfCommit DEF ReleasesInv
<1> QED
  BY <1>1, ReleasesInvariant, PTL
=============================================================================
