------------------------------ MODULE Releases ------------------------------
(***************************************************************************)
(* What a release of the deploy queue is made of, and what the services    *)
(* run.  Only what changed is built, the rest is carried over from the     *)
(* live release, and only the services that something changed for are      *)
(* restarted (plan.rs, compute).                                           *)
(*                                                                         *)
(* DeployQueue says when a batch plans, deploys, checks and fails; every   *)
(* action here is one of its actions with its effect on the artifacts.     *)
(* Artifacts are binaries, frontends and files that a service reads from   *)
(* its release and nothing is compiled from (the others are inputs of what *)
(* is compiled from them, "covered"); two commits have equal Inputs of an  *)
(* artifact when git shows no change between them below any path it        *)
(* depends on.                                                             *)
(***************************************************************************)
EXTENDS DeployQueue

CONSTANTS
    Artifacts,
    Compiled,        \* those that are built or carried: binaries, frontends
    Services,
    ServicesOf,      \* the services that are restarted for an artifact
    Exe,             \* the binary that a service executes
    Inputs           \* versions of the inputs of the artifacts, by commit

Commits == 0 .. MaxMain

ASSUME ReleasesAssumption ==
    /\ Compiled \subseteq Artifacts
    /\ ServicesOf \in [Artifacts -> SUBSET Services]
    /\ Exe \in [Services -> Compiled]
    /\ \A s \in Services : s \in ServicesOf[Exe[s]]
    /\ Inputs \in [Commits -> [Artifacts -> Nat]]

VARIABLES
    origin,     \* the commit that each artifact of a build was compiled from
    frozen,     \* the builds that a wrapper has frozen
    plan,       \* the plan of the batch
    leftover,   \* the plans of the wrappers that outlived their daemon
    taken,      \* the release that a service was last started from
    uneven,     \* history: a switch whose restarts did not match it
    moved       \* history: an orphan moved the link under the batch

releaseVars == <<origin, frozen, plan, leftover, taken, uneven, moved>>
rvars == <<vars, releaseVars>>

NoPlan == [parent |-> 0, restarts |-> {}, resumes |-> FALSE]

ReleasesInit ==
    /\ Init
    /\ origin = [r \in Commits |-> [a \in Compiled |-> r]]
    /\ frozen = {0}
    /\ plan = NoPlan
    /\ leftover = [r \in Commits |-> NoPlan]
    /\ taken = [s \in Services |-> 0]
    /\ uneven = FALSE /\ moved = FALSE

Keep == UNCHANGED releaseVars

-----------------------------------------------------------------------------
(* The plan.                                                               *)

(* Mutant of Unchanged: a copy in the parent is enough to carry it. *)
Present(a) == a \in Compiled

(* binary_origin and frontend_origin: the parent's copy is still good.     *)
(* What counts is the commit it was compiled from, not the parent.         *)
Unchanged(a) == Inputs[origin[plan.parent][a]][a] = Inputs[job.target][a]

Built   == {a \in Compiled : ~Unchanged(a)}
Changed == {a \in Artifacts \ Compiled :
                Inputs[plan.parent][a] # Inputs[job.target][a]}

(* Mutant of Restarts: only what was built needs a restart. *)
RestartsOfBuilt == UNION {ServicesOf[a] : a \in Built}

Restarts    == UNION {ServicesOf[a] : a \in Built \cup Changed}
NeedsDeploy == Built \cup Changed # {}

(* live_release: the parent of the batch. *)
ReadParent ==
    /\ Resolve
    /\ plan' = [NoPlan EXCEPT !.parent = live]
    /\ moved' = FALSE
    /\ UNCHANGED <<origin, frozen, leftover, taken, uneven>>

(* The release is built, unless an earlier attempt left it frozen.         *)
PlanDeploy ==
    /\ Plan /\ job'.stage = "deploy"
    /\ NeedsDeploy
    /\ plan' = [plan EXCEPT !.restarts = Restarts, !.resumes = job.target \in frozen]
    /\ origin' = IF job.target \in frozen THEN origin
                 ELSE [origin EXCEPT ![job.target] =
                          [a \in Compiled |-> IF a \in Built THEN job.target
                                              ELSE origin[plan.parent][a]]]
    /\ UNCHANGED <<frozen, leftover, taken, uneven, moved>>

PlanNothing ==
    /\ Plan /\ job'.stage = "pruefen"
    /\ ~NeedsDeploy
    /\ Keep

-----------------------------------------------------------------------------
(* The wrapper. *)

(* Its build is moved to the frozen builds, or is the one found there. *)
Freezes ==
    /\ job.target \in frozen => plan.resumes
    /\ frozen' = frozen \cup {job.target}

(* A wrapper that fails may leave its build there. *)
MayFreeze(r) == frozen' \in {frozen, frozen \cup {r}}

(* The wrapper of plan p keeps release r and restarts the services in S. *)
RestartsWith(r, p, S) ==
    /\ taken' = [s \in Services |-> IF s \in S THEN r ELSE taken[s]]
    /\ uneven' = (uneven \/ S # p.restarts \/ p.parent # previous)
    /\ UNCHANGED origin

(* The batch may have read the link before an orphan moved it. *)
Moves == moved' = (moved \/ (job.stage # "none" /\ live' # live))

LinkRelease ==
    /\ SwitchLink
    /\ Freezes
    /\ UNCHANGED <<origin, plan, leftover, taken, uneven, moved>>

DeployAll ==
    /\ Deploy
    /\ RestartsWith(job.target, plan, plan.restarts)
    /\ UNCHANGED <<frozen, plan, leftover, moved>>

DeployFailsEarly ==
    /\ DeployFails
    /\ IF orphans = {} THEN MayFreeze(job.target) ELSE UNCHANGED frozen
    /\ UNCHANGED <<origin, plan, leftover, taken, uneven, moved>>

(* The release is verified, but a restart fails; or the link stays where   *)
(* it is although the release is not verified, and no service is restarted.*)
DeployFailsLate ==
    /\ VerifyFails /\ Keeps
    /\ \E S \in SUBSET plan.restarts : RestartsWith(job.target, plan, S)
    /\ UNCHANGED <<frozen, plan, leftover, moved>>

DeployIsPutBack ==
    /\ VerifyFails /\ PutsBack
    /\ Keep

(* A wrapper without its daemon links its release, ... *)
OrphanLinks ==
    /\ OrphanSwitches
    /\ live' \in frozen => leftover[live'].resumes
    /\ frozen' = frozen \cup {live'}
    /\ Moves
    /\ UNCHANGED <<origin, plan, leftover, taken, uneven>>

Forget(r) == leftover' = [leftover EXCEPT ![r] = NoPlan]

(* ... restarts some of its services or all of them (it has frozen its     *)
(* build if it did not find it), ... *)
OrphanRestarts ==
    \E r \in orphans :
        /\ OrphanEnds /\ orphans' = orphans \ {r}
        /\ Keeps /\ live = r
        /\ live # previous \/ leftover[r].resumes
        /\ \E S \in SUBSET leftover[r].restarts : RestartsWith(r, leftover[r], S)
        /\ Forget(r)
        /\ UNCHANGED <<frozen, plan, moved>>

(* ... or fails before it links the release, or puts the link back. *)
OrphanGivesUp ==
    \E r \in orphans :
        /\ OrphanEnds /\ orphans' = orphans \ {r}
        /\ PutsBack
        /\ MayFreeze(r)
        /\ Forget(r)
        /\ Moves
        /\ UNCHANGED <<origin, plan, taken, uneven>>

(* Mutant of PruefenPasses: the running binaries are not looked at. *)
PruefenBlind == Pruefen /\ Keep

(* --pruefen: every service runs the binary of the current release, though *)
(* it may have been started from an older one.                             *)
PruefenPasses ==
    /\ Pruefen
    /\ \A s \in Services : origin[taken[s]][Exe[s]] = origin[live][Exe[s]]
    /\ Keep

CrashWith ==
    /\ Crash
    /\ leftover' = IF orphans' = orphans THEN leftover
                   ELSE [leftover EXCEPT ![job.target] = plan]
    /\ plan' = NoPlan /\ moved' = FALSE
    /\ UNCHANGED <<origin, frozen, taken, uneven>>

RecordRun ==
    /\ Record
    /\ plan' = NoPlan /\ moved' = FALSE
    /\ UNCHANGED <<origin, frozen, leftover, taken, uneven>>

ReleasesNext ==
    \/ \E t \in Tickets :
        \/ Submit(t) /\ Keep
        \/ SendCompact(t) /\ Keep
        \/ CompactSent(t) /\ Keep
        \/ SkipCompact(t) /\ Keep
        \/ TimeoutCompact(t) /\ Keep
        \/ Tell(t) /\ Keep
        \/ MarkNotified(t) /\ Keep
        \/ CompactFails(t) /\ Keep
        \/ SettleCompact(t) /\ Keep
        \/ TellUnanswered(t) /\ Keep
    \/ Merge /\ Keep
    \/ SpawnBatch /\ Keep
    \/ StartRun /\ Keep
    \/ StartRunFails /\ Keep
    \/ StartRunUnanswered /\ Keep
    \/ Fetch /\ Keep
    \/ RunFails /\ Keep
    \/ RecordUnanswered /\ Keep
    \/ Serve /\ Keep
    \/ Recover /\ Keep
    \/ Tick /\ Keep
    \/ ReadParent \/ PlanDeploy \/ PlanNothing
    \/ LinkRelease \/ DeployAll
    \/ DeployFailsEarly \/ DeployFailsLate \/ DeployIsPutBack
    \/ OrphanLinks \/ OrphanRestarts \/ OrphanGivesUp
    \/ PruefenPasses \/ CrashWith \/ RecordRun

ReleasesSpec == ReleasesInit /\ [][ReleasesNext]_rvars

(* Each step of DeployQueue that Fairness promises has one here: where the *)
(* plan or the check turns one away, the batch can still fail.             *)
FairReleasesSpec == ReleasesSpec /\ Fairness

-----------------------------------------------------------------------------
(* Properties. *)

(* What release r has for artifact a, as a version of its inputs. *)
Content(r, a) == IF a \in Compiled THEN Inputs[origin[r][a]][a] ELSE Inputs[r][a]

(* Every artifact of a build is what its commit would compile to, however  *)
(* many releases it was carried through and whatever was left frozen.      *)
BuildIsItsCommit ==
    \A r \in Commits, a \in Compiled : Inputs[origin[r][a]][a] = Inputs[r][a]

(* A service that was not restarted needed no restart: it runs what the    *)
(* last release that was not put back holds for it, or may yet be.  Exempt *)
(* is what comes after a switch that broke off in its restarts, or replaced*)
(* another release than it was planned for (by a wrapper left behind by a  *)
(* crash, or because it was planned for a release that was put back).      *)
RestartsSuffice ==
    ~uneven => \A a \in Artifacts : \A s \in ServicesOf[a] :
                  Content(taken[s], a) = Content(previous, a)

(* When a batch is about to report success, every service executes the     *)
(* code of the batch's commit, also after switches that broke off before:  *)
(* --pruefen finds a service that was left behind.  Exempt is a batch that *)
(* found nothing to deploy while a wrapper without its daemon moved the    *)
(* link: it may have read a release that was then put back, and passes the *)
(* check against the older one.                                            *)
SuccessRuns ==
    job.stage = "record" /\ job.verdict # "failed" /\ (job.deploys \/ ~moved) =>
        \A s \in Services : Content(taken[s], Exe[s]) = Inputs[job.target][Exe[s]]

(* Every variable keeps its type. *)
ReleasesTypeOK ==
    /\ origin \in [Commits -> [Compiled -> Commits]]
    /\ frozen \subseteq Commits
    /\ plan \in [parent : Commits, restarts : SUBSET Services, resumes : BOOLEAN]
    /\ leftover \in [Commits -> [parent : Commits, restarts : SUBSET Services,
                                 resumes : BOOLEAN]]
    /\ taken \in [Services -> Commits]
    /\ uneven \in BOOLEAN /\ moved \in BOOLEAN
=============================================================================
