---------------------------- MODULE DeployQueue ----------------------------
(***************************************************************************)
(* The deploy queue (tb-deploy-queue): agents submit tickets for merged    *)
(* commits, one daemon batches them, releases the head of main and tells   *)
(* every ticket's thread what became of it.                                *)
(*                                                                         *)
(* The daemon is its loop (daemon.rs, serve), which does one thing at a    *)
(* time and is in here by "hand", and the batch it spawned, which runs     *)
(* beside the loop and is in here by "job".  Commits are numbered in the   *)
(* order of main; a release is the commit it was built from, and a commit  *)
(* is live when the release is not older.  Messages are told apart by the  *)
(* outcome they report.                                                    *)
(***************************************************************************)
EXTENDS Integers, FiniteSets

CONSTANTS
    Tickets,
    Commit,                      \* a ticket's sha
    DeployNow,                   \* the tickets submitted with --now
    MaxMain,                     \* bound on the commits merged to main
    quiet_minutes, max_wait_minutes, idle_wait_minutes,
    compaction_timeout_minutes,
    MaxFaults                    \* bound on crashes, failed sends and writes

ASSUME DeployAssumption ==
    /\ Commit \in [Tickets -> Nat]
    /\ DeployNow \subseteq Tickets
    /\ MaxMain \in Nat
    /\ quiet_minutes \in Nat \ {0}
    /\ max_wait_minutes \in Nat /\ max_wait_minutes >= quiet_minutes
    /\ idle_wait_minutes \in Nat
    /\ compaction_timeout_minutes \in Nat
    /\ MaxFaults \in Nat

States      == {"absent", "pending", "running", "done"}
Outcomes    == {"deployed", "no_deploy_needed", "failed"}
Compactions == {"pending", "requested", "confirmed", "failed", "timeout", "skipped"}
Stages      == {"none", "claim", "fetch", "resolve", "plan", "deploy", "verify",
                "pruefen", "record"}

(* Ages are told apart up to the longest limit on them. *)
Horizon == IF idle_wait_minutes > max_wait_minutes
           THEN idle_wait_minutes ELSE max_wait_minutes

VARIABLES
    state, outcome, compaction, notified,  \* columns of a ticket
    age,       \* minutes since it was submitted
    left,      \* minutes until its compaction times out
    daemon,    \* "down", "recover" or "up"
    hand,      \* the message the loop is sending: <<what, ticket>>
    job,       \* the spawned batch
    main,      \* head of origin/main
    live,      \* the release the current link names
    previous,  \* the release that a wrapper which fails puts back
    orphans,   \* targets of deploy wrappers that outlived their daemon
    faults,
    told,      \* history: the outcomes a ticket's thread was told
    sends,     \* history: how many messages told it
    stranded   \* history: tickets of a run that was started unanswered

ticketVars == <<state, outcome, compaction, notified>>
clocks     == <<age, left>>
world      == <<main, live, previous, orphans>>
history    == <<told, sends, stranded>>
vars == <<ticketVars, clocks, daemon, hand, job, world, faults, history>>

Idle  == <<"idle">>
NoJob == [stage |-> "none", tickets |-> {}, target |-> 0, rejected |-> {},
          verdict |-> "failed", deploys |-> FALSE]

Init ==
    /\ state = [t \in Tickets |-> "absent"]
    /\ outcome = [t \in Tickets |-> "none"]
    /\ compaction = [t \in Tickets |-> "pending"]
    /\ notified = [t \in Tickets |-> FALSE]
    /\ age = [t \in Tickets |-> 0]
    /\ left = [t \in Tickets |-> compaction_timeout_minutes]
    /\ daemon = "down" /\ hand = Idle /\ job = NoJob
    /\ main = 0 /\ live = 0 /\ previous = 0 /\ orphans = {}
    /\ faults = MaxFaults
    /\ told = [t \in Tickets |-> {}]
    /\ sends = [t \in Tickets |-> 0]
    /\ stranded = {}

Submitted == {t \in Tickets : state[t] # "absent"}
Pending   == {t \in Tickets : state[t] = "pending"}
Open(t)   == compaction[t] \in {"pending", "requested"}
LoopIdle  == daemon = "up" /\ hand = Idle

Fault == faults > 0 /\ faults' = faults - 1

-----------------------------------------------------------------------------
(* Agents. *)

Submit(t) ==
    /\ state[t] = "absent"
    /\ state' = [state EXCEPT ![t] = "pending"]
    /\ UNCHANGED <<outcome, compaction, notified, clocks, daemon, hand, job,
                   world, faults, history>>

Merge ==
    /\ main < MaxMain
    /\ main' = main + 1
    /\ UNCHANGED <<ticketVars, clocks, daemon, hand, job, live, previous,
                   orphans, faults, history>>

-----------------------------------------------------------------------------
(* The loop: compaction_tick.  Every step may come after any other here;   *)
(* a step of the loop excludes the others by "hand".                       *)

(* The thread is idle: /compact is sent ... *)
SendCompact(t) ==
    /\ LoopIdle
    /\ t \in Submitted /\ compaction[t] = "pending"
    /\ hand' = <<"compact", t>>
    /\ UNCHANGED <<ticketVars, clocks, daemon, job, world, faults, history>>

(* ... and recorded. *)
CompactSent(t) ==
    /\ hand = <<"compact", t>>
    /\ compaction' = [compaction EXCEPT ![t] = "requested"]
    /\ left' = [left EXCEPT ![t] = compaction_timeout_minutes]
    /\ hand' = Idle
    /\ UNCHANGED <<state, outcome, notified, age, daemon, job, world, faults, history>>

(* The send or the record failed. *)
CompactFails(t) ==
    /\ hand = <<"compact", t>>
    /\ Fault
    /\ hand' = Idle
    /\ UNCHANGED <<ticketVars, clocks, daemon, job, world, history>>

(* The thread stays busy or unreachable. *)
SkipCompact(t) ==
    /\ LoopIdle
    /\ t \in Submitted /\ compaction[t] = "pending"
    /\ age[t] >= idle_wait_minutes
    /\ compaction' = [compaction EXCEPT ![t] = "skipped"]
    /\ UNCHANGED <<state, outcome, notified, clocks, daemon, hand, job, world,
                   faults, history>>

(* The thread shows a compaction item, or ended its run without one. *)
SettleCompact(t) ==
    /\ LoopIdle
    /\ compaction[t] = "requested"
    /\ \E c \in {"confirmed", "failed"} : compaction' = [compaction EXCEPT ![t] = c]
    /\ UNCHANGED <<state, outcome, notified, clocks, daemon, hand, job, world,
                   faults, history>>

TimeoutCompact(t) ==
    /\ LoopIdle
    /\ compaction[t] = "requested" /\ left[t] = 0
    /\ compaction' = [compaction EXCEPT ![t] = "timeout"]
    /\ UNCHANGED <<state, outcome, notified, clocks, daemon, hand, job, world,
                   faults, history>>

-----------------------------------------------------------------------------
(* The loop: due_batch and the spawned run_batch. *)

BatchDue ==
    /\ Pending # {}
    /\ \/ Pending \cap DeployNow # {}
       \/ \A t \in Pending : age[t] >= quiet_minutes
       \/ \E t \in Pending : age[t] >= max_wait_minutes

SpawnBatch ==
    /\ LoopIdle /\ job.stage = "none"
    /\ BatchDue
    /\ job' = [NoJob EXCEPT !.stage = "claim", !.tickets = Pending]
    /\ UNCHANGED <<ticketVars, clocks, daemon, hand, world, faults, history>>

Claimed == [t \in Tickets |-> IF t \in job.tickets THEN "running" ELSE state[t]]

(* start_run takes the tickets if all are still pending. *)
StartRun ==
    /\ job.stage = "claim"
    /\ job.tickets \subseteq Pending
    /\ state' = Claimed
    /\ job' = [job EXCEPT !.stage = "fetch"]
    /\ UNCHANGED <<outcome, compaction, notified, clocks, daemon, hand, world,
                   faults, history>>

(* Its transaction fails: the tickets wait for the next batch.             *)
StartRunFails ==
    /\ job.stage = "claim"
    /\ Fault
    /\ job' = NoJob
    /\ UNCHANGED <<ticketVars, clocks, daemon, hand, world, history>>

(* It commits and the answer is lost: run_batch returns the error.         *)
StartRunUnanswered ==
    /\ job.stage = "claim"
    /\ job.tickets \subseteq Pending
    /\ Fault
    /\ state' = Claimed
    /\ stranded' = stranded \cup job.tickets
    /\ job' = NoJob
    /\ UNCHANGED <<outcome, compaction, notified, clocks, daemon, hand, world, told, sends>>

-----------------------------------------------------------------------------
(* The batch: the steps of execute.  Building belongs to "plan".           *)

JobGoes == UNCHANGED <<ticketVars, clocks, daemon, hand, main, faults, history>>

Fetch ==
    /\ job.stage = "fetch"
    /\ job' = [job EXCEPT !.stage = "resolve", !.target = main]
    /\ JobGoes /\ UNCHANGED <<live, previous, orphans>>

(* Mutant of Resolve: tickets that are not on main are not rejected. *)
ResolveAll ==
    /\ job.stage = "resolve"
    /\ job' = [job EXCEPT !.stage = IF live = job.target THEN "pruefen" ELSE "plan"]
    /\ JobGoes /\ UNCHANGED <<live, previous, orphans>>

(* accepted_tickets and live_release; at the live release nothing is to do. *)
Resolve ==
    LET rejected == {t \in job.tickets : Commit[t] > job.target}
    IN  /\ job.stage = "resolve"
        /\ job.tickets # rejected
        /\ job' = [job EXCEPT !.rejected = rejected,
                     !.stage = IF live = job.target THEN "pruefen" ELSE "plan"]
        /\ JobGoes /\ UNCHANGED <<live, previous, orphans>>

(* compute finds something to deploy, or nothing. *)
Plan ==
    /\ job.stage = "plan"
    /\ \E s \in {"deploy", "pruefen"} : job' = [job EXCEPT !.stage = s]
    /\ JobGoes /\ UNCHANGED <<live, previous, orphans>>

Failed == job' = [job EXCEPT !.stage = "record", !.verdict = "failed"]

(* Mutant of Keeps: what is put back is the release of an earlier wrapper. *)
KeepsLinkOnly == UNCHANGED <<live, previous>>

(* A wrapper ends with the link as it is, which the next one reads when it *)
(* has the lock, or puts back the one that it read itself.                 *)
Keeps    == live' = live /\ previous' = live
PutsBack == live' = previous /\ previous' = previous

(* The wrapper waits for the wrappers that run already, then switches the  *)
(* link: the release is to be seen before it is verified.                  *)
SwitchLink ==
    /\ job.stage = "deploy"
    /\ orphans = {}
    /\ live' = job.target
    /\ job' = [job EXCEPT !.stage = "verify"]
    /\ JobGoes /\ UNCHANGED <<previous, orphans>>

(* The release is verified and the services are restarted. *)
Deploy ==
    /\ job.stage = "verify"
    /\ Keeps
    /\ job' = [job EXCEPT !.stage = "pruefen", !.deploys = TRUE]
    /\ JobGoes /\ UNCHANGED orphans

(* The wrapper fails before it switches the link, or waits too long. *)
DeployFails ==
    /\ job.stage = "deploy"
    /\ Failed
    /\ JobGoes /\ UNCHANGED <<live, previous, orphans>>

(* It fails after that: restore_unverified_release puts the link back,     *)
(* unless the release was verified already, or the link cannot be put back.*)
VerifyFails ==
    /\ job.stage = "verify"
    /\ Keeps \/ PutsBack
    /\ Failed
    /\ JobGoes /\ UNCHANGED orphans

(* --pruefen exits with 0. *)
Pruefen ==
    /\ job.stage = "pruefen"
    /\ job' = [job EXCEPT !.stage = "record",
                 !.verdict = IF job.deploys THEN "deployed" ELSE "no_deploy_needed"]
    /\ JobGoes /\ UNCHANGED <<live, previous, orphans>>

(* Mutant of RunFails: the batch ends without a record. *)
RunFailsSilently ==
    /\ job.stage \in {"fetch", "resolve", "plan", "pruefen"}
    /\ job' = NoJob
    /\ JobGoes /\ UNCHANGED <<live, previous, orphans>>

(* Any other step fails, or no ticket is accepted. *)
RunFails ==
    /\ job.stage \in {"fetch", "resolve", "plan", "pruefen"}
    /\ Failed
    /\ JobGoes /\ UNCHANGED <<live, previous, orphans>>

(* complete_run with each ticket's ticket_result. *)
Finish(finished, result) ==
    /\ state' = [t \in Tickets |-> IF t \in finished THEN "done" ELSE state[t]]
    /\ outcome' = [t \in Tickets |-> IF t \in finished THEN result[t] ELSE outcome[t]]

TicketResult ==
    [t \in Tickets |-> IF t \in job.rejected THEN "failed" ELSE job.verdict]

Record ==
    /\ job.stage = "record"
    /\ Finish(job.tickets, TicketResult)
    /\ job' = NoJob
    /\ UNCHANGED <<compaction, notified, clocks, daemon, hand, world, faults, history>>

(* It commits and the answer is lost: record_result is called again. *)
RecordUnanswered ==
    /\ job.stage = "record"
    /\ Fault
    /\ Finish(job.tickets, TicketResult)
    /\ UNCHANGED <<compaction, notified, clocks, daemon, hand, job, world, history>>

-----------------------------------------------------------------------------
(* The loop: notify_tick. *)

(* Mutants of NotificationDue: each forgets one condition. *)
DueBeforeDone(t)       == ~notified[t] /\ ~Open(t)
DueAgain(t)            == state[t] = "done" /\ ~Open(t)
DueBeforeCompaction(t) == state[t] = "done" /\ ~notified[t]

NotificationDue(t) == state[t] = "done" /\ ~notified[t] /\ ~Open(t)

(* The final message is sent ... *)
Tell(t) ==
    /\ LoopIdle
    /\ NotificationDue(t)
    /\ hand' = <<"tell", t>>
    /\ told' = [told EXCEPT ![t] = @ \cup {outcome[t]}]
    /\ sends' = [sends EXCEPT ![t] = @ + 1]
    /\ UNCHANGED <<ticketVars, clocks, daemon, job, world, faults, stranded>>

(* ... and recorded. *)
MarkNotified(t) ==
    /\ hand = <<"tell", t>>
    /\ notified' = [notified EXCEPT ![t] = TRUE]
    /\ hand' = Idle
    /\ UNCHANGED <<state, outcome, compaction, clocks, daemon, job, world, faults, history>>

(* The record, or the answer to the send, is lost. *)
TellUnanswered(t) ==
    /\ hand = <<"tell", t>>
    /\ Fault
    /\ hand' = Idle
    /\ UNCHANGED <<ticketVars, clocks, daemon, job, world, history>>

-----------------------------------------------------------------------------
(* Stop and start. *)

(* The daemon dies.  Its wrapper runs as root and goes on without it; one  *)
(* that dies with the daemon ends at once.                                 *)
Crash ==
    /\ daemon # "down"
    /\ Fault
    /\ daemon' = "down" /\ hand' = Idle /\ job' = NoJob
    /\ orphans' = IF job.stage \in {"deploy", "verify"}
                  THEN orphans \cup {job.target} ELSE orphans
    /\ UNCHANGED <<ticketVars, clocks, main, live, previous, history>>

(* The wrappers take their lock in the order they asked for it. *)
First(r) == r \in orphans /\ \A s \in orphans : r <= s

(* A wrapper without its daemon switches the link, ... *)
OrphanSwitches ==
    /\ live = previous
    /\ \E r \in orphans : First(r) /\ live' = r
    /\ UNCHANGED <<ticketVars, clocks, daemon, hand, job, main, previous, orphans,
                   faults, history>>

(* ... and ends like any other. *)
OrphanEnds ==
    /\ \E r \in orphans : First(r) /\ orphans' = orphans \ {r}
    /\ Keeps \/ PutsBack
    /\ UNCHANGED <<ticketVars, clocks, daemon, hand, job, main, faults, history>>

(* serve takes the daemon lock ... *)
Serve ==
    /\ daemon = "down"
    /\ daemon' = "recover"
    /\ UNCHANGED <<ticketVars, clocks, hand, job, world, faults, history>>

(* Mutant of Recover: interrupted runs are left alone. *)
RecoverNothing ==
    /\ daemon = "recover"
    /\ daemon' = "up"
    /\ UNCHANGED <<ticketVars, clocks, hand, job, world, faults, history>>

(* ... and recover fails the tickets of interrupted runs. *)
Recover ==
    /\ daemon = "recover"
    /\ daemon' = "up"
    /\ Finish({t \in Tickets : state[t] = "running"}, [t \in Tickets |-> "failed"])
    /\ stranded' = {}
    /\ UNCHANGED <<compaction, notified, clocks, hand, job, world, faults, told, sends>>

(* Mutant of Tick: the ages are not cut off. *)
TickOn ==
    /\ age' = [t \in Tickets |-> IF t \in Submitted THEN age[t] + 1 ELSE age[t]]
    /\ UNCHANGED <<ticketVars, left, daemon, hand, job, world, faults, history>>

Tick ==
    /\ age' = [t \in Tickets |->
                 IF t \in Submitted /\ age[t] < Horizon THEN age[t] + 1 ELSE age[t]]
    /\ left' = [t \in Tickets |->
                 IF compaction[t] = "requested" /\ left[t] > 0 THEN left[t] - 1 ELSE left[t]]
    /\ UNCHANGED <<ticketVars, daemon, hand, job, world, faults, history>>

Loop(t) ==
    \/ SendCompact(t) \/ CompactSent(t) \/ SkipCompact(t) \/ TimeoutCompact(t)
    \/ Tell(t) \/ MarkNotified(t)

Job ==
    \/ StartRun \/ Fetch \/ Resolve \/ Plan \/ SwitchLink \/ Deploy \/ DeployFails
    \/ VerifyFails \/ Pruefen \/ RunFails \/ Record

Next ==
    \/ \E t \in Tickets :
        \/ Submit(t) \/ Loop(t)
        \/ CompactFails(t) \/ SettleCompact(t) \/ TellUnanswered(t)
    \/ Merge \/ SpawnBatch \/ Job
    \/ StartRunFails \/ StartRunUnanswered \/ RecordUnanswered
    \/ Crash \/ OrphanSwitches \/ OrphanEnds \/ Serve \/ Recover \/ Tick

Spec == Init /\ [][Next]_vars

(* The unit restarts the daemon, the loop polls for ever, a batch goes on. *)
Fairness ==
    /\ WF_vars(Serve) /\ WF_vars(Recover) /\ WF_vars(Tick)
    /\ WF_vars(SpawnBatch) /\ WF_vars(Job) /\ WF_vars(OrphanEnds)
    /\ \A t \in Tickets : WF_vars(Loop(t))

FairSpec == Spec /\ Fairness

-----------------------------------------------------------------------------
(* Properties. *)

(* Every variable keeps its type. *)
TypeOK ==
    /\ state \in [Tickets -> States]
    /\ outcome \in [Tickets -> Outcomes \cup {"none"}]
    /\ compaction \in [Tickets -> Compactions]
    /\ notified \in [Tickets -> BOOLEAN]
    /\ age \in [Tickets -> 0 .. Horizon]
    /\ left \in [Tickets -> 0 .. compaction_timeout_minutes]
    /\ daemon \in {"down", "recover", "up"}
    /\ hand \in {Idle} \cup ({"compact", "tell"} \X Tickets)
    /\ job \in [stage : Stages, tickets : SUBSET Tickets, target : Nat,
                rejected : SUBSET Tickets, verdict : Outcomes, deploys : BOOLEAN]
    /\ main \in Nat /\ live \in Nat /\ previous \in Nat /\ orphans \subseteq Nat
    /\ faults \in Nat
    /\ told \in [Tickets -> SUBSET (Outcomes \cup {"none"})]
    /\ sends \in [Tickets -> Nat]
    /\ stranded \subseteq Tickets

(* "Your commit is live": it is, and it stays so, whatever runs, crashes,  *)
(* releases put back and wrappers left behind by a crash come after.       *)
DeployedIsLive ==
    \A t \in Tickets : outcome[t] = "deployed" => Commit[t] <= live

(* A thread is told one outcome only, and it is the one on record: neither *)
(* a repeated record_result nor a recovery changes what was told.          *)
ToldIsFinal == \A t \in Tickets : told[t] \subseteq {outcome[t]}

(* What the agents see of the tickets. *)
Seen == [t \in Tickets |-> IF state[t] = "done" THEN outcome[t] ELSE state[t]]

Desk == INSTANCE TicketDesk WITH status <- Seen

(* To the agents the queue is a TicketDesk: no crash, repeated record,     *)
(* recovery, or release that is put back takes a ticket up twice, changes  *)
(* an outcome, tells another one, or takes back a commit that is on record *)
(* as deployed.                                                            *)
ImplementsDesk == Desk!Spec

(* A ticket that its batch turned away is not live, as its message says.   *)
RejectedIsNotLive == \A t \in job.rejected : Commit[t] > live

(* A thread is told more than once only by a fault in between.             *)
NoSpareMessages ==
    \A t \in Tickets : sends[t] <= 1 + (MaxFaults - faults)

(* While the daemon works, a running ticket is in its batch, so that its   *)
(* run will end.                                                           *)
RunningIsAttended ==
    daemon = "up" =>
        \A t \in Tickets \ stranded : state[t] = "running" => t \in job.tickets

(* /compact never reaches a thread that was told the outcome: the answer   *)
(* to it would be compacted away.                                          *)
CompactFirst ==
    [][\A t \in Tickets : hand' = <<"compact", t>> => told'[t] = {}]_vars

(* PLAN.md: "every ticket gets a final message ..., retried with backoff   *)
(* until delivered": when agents have no more tickets, every one has been  *)
(* told in the end.  A run that was started unanswered waits for the next  *)
(* start of the daemon.                                                    *)
EveryTicketTold == <>[](\A t \in Submitted : notified[t] \/ t \in stranded)

(* The failure message: "Your commit ... is NOT live." *)
FailedIsNotLive ==
    [][\A t \in Tickets :
         outcome[t] # "failed" /\ outcome'[t] = "failed" => Commit[t] > live']_vars
=============================================================================
