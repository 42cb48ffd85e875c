------------------------- MODULE DeployQueueProofs -------------------------
(***************************************************************************)
(* Theorems about DeployQueue for every set of tickets, every main and any *)
(* number of faults.                                                       *)
(***************************************************************************)
EXTENDS DeployQueue, TLAPS

(* Every step keeps the types. *)
LEMMA TypeStep == TypeOK /\ [Next]_vars => TypeOK'
<1> USE DeployAssumption DEF Horizon
<1> SUFFICES ASSUME TypeOK, [Next]_vars PROVE TypeOK'
  OBVIOUS
<1> USE DEF TypeOK, ticketVars, clocks, world, history, JobGoes, Fault
<1>1. ASSUME NEW t \in Tickets, Submit(t) PROVE TypeOK'
  BY <1>1 DEF Submit, States
<1>2. ASSUME NEW t \in Tickets, Loop(t) PROVE TypeOK'
  <2>1. CASE SendCompact(t)
    BY <2>1 DEF SendCompact
  <2>2. CASE CompactSent(t)
    BY <2>2 DEF CompactSent, Compactions
  <2>3. CASE SkipCompact(t)
    BY <2>3 DEF SkipCompact, Compactions
  <2>4. CASE TimeoutCompact(t)
    BY <2>4 DEF TimeoutCompact, Compactions
  <2>5. CASE Tell(t)
    BY <2>5 DEF Tell
  <2>6. CASE MarkNotified(t)
    BY <2>6 DEF MarkNotified
  <2> QED
    BY <1>2, <2>1, <2>2, <2>3, <2>4, <2>5, <2>6 DEF Loop
<1>3. ASSUME NEW t \in Tickets, CompactFails(t) \/ TellUnanswered(t) PROVE TypeOK'
  <2>1. CASE CompactFails(t)
    BY <2>1 DEF CompactFails
  <2>2. CASE TellUnanswered(t)
    BY <2>2 DEF TellUnanswered
  <2> QED
    BY <1>3, <2>1, <2>2
<1>4. ASSUME NEW t \in Tickets, SettleCompact(t) PROVE TypeOK'
  BY <1>4 DEF SettleCompact, Compactions
<1>5. ASSUME Merge PROVE TypeOK'
  BY <1>5 DEF Merge
<1>6. ASSUME SpawnBatch PROVE TypeOK'
  BY <1>6 DEF SpawnBatch, NoJob, Pending, Stages, Outcomes
<1>7. ASSUME Job PROVE TypeOK'
  <2>1. CASE StartRun
    BY <2>1 DEF StartRun, Claimed, States, Stages
  <2>2. CASE Fetch
    BY <2>2 DEF Fetch, Stages
  <2>3. CASE Resolve
    BY <2>3 DEF Resolve, Stages
  <2>4. CASE Plan
    BY <2>4 DEF Plan, Stages
  <2>5. CASE SwitchLink \/ Deploy
    BY <2>5 DEF SwitchLink, Deploy, Keeps, Stages
  <2>6. CASE DeployFails \/ VerifyFails
    BY <2>6 DEF DeployFails, VerifyFails, Keeps, PutsBack, Failed, Stages, Outcomes
  <2>7. CASE Pruefen
    BY <2>7 DEF Pruefen, Stages, Outcomes
  <2>8. CASE RunFails
    BY <2>8 DEF RunFails, Failed, Stages, Outcomes
  <2>9. CASE Record
    BY <2>9 DEF Record, Finish, TicketResult, NoJob, States, Stages, Outcomes
  <2> QED
    BY <1>7, <2>1, <2>2, <2>3, <2>4, <2>5, <2>6, <2>7, <2>8, <2>9 DEF Job
<1>8. ASSUME StartRunFails PROVE TypeOK'
  BY <1>8 DEF StartRunFails, NoJob, Stages, Outcomes
<1>9. ASSUME StartRunUnanswered PROVE TypeOK'
  BY <1>9 DEF StartRunUnanswered, Claimed, NoJob, States, Stages, Outcomes
<1>10. ASSUME RecordUnanswered PROVE TypeOK'
  BY <1>10 DEF RecordUnanswered, Finish, TicketResult, States, Outcomes
<1>11. ASSUME Crash PROVE TypeOK'
  <2>1. orphans' \subseteq Nat
    BY <1>11 DEF Crash
  <2> QED
    BY <1>11, <2>1 DEF Crash, NoJob, Idle, Stages, Outcomes
<1>12. ASSUME OrphanSwitches \/ OrphanEnds PROVE TypeOK'
  <2>1. CASE OrphanSwitches
    BY <2>1 DEF OrphanSwitches, First
  <2>2. CASE OrphanEnds
    BY <2>2 DEF OrphanEnds, Keeps, PutsBack
  <2> QED
    BY <1>12, <2>1, <2>2
<1>13. ASSUME Serve PROVE TypeOK'
  BY <1>13 DEF Serve
<1>14. ASSUME Recover PROVE TypeOK'
  BY <1>14 DEF Recover, Finish, States, Outcomes
<1>15. ASSUME Tick PROVE TypeOK'
  BY <1>15 DEF Tick, Submitted
<1>16. ASSUME UNCHANGED vars PROVE TypeOK'
  BY <1>16 DEF vars
<1> QED
  BY <1>1, <1>2, <1>3, <1>4, <1>5, <1>6, <1>7, <1>8, <1>9, <1>10, <1>11,
     <1>12, <1>13, <1>14, <1>15, <1>16 DEF Next

(* The variables keep their types; no age passes the horizon.              *)
THEOREM TypeCorrect == Spec => []TypeOK
<1>1. Init => TypeOK
  BY DeployAssumption
     DEF Init, TypeOK, States, Outcomes, Compactions, Stages, NoJob, Idle, Horizon
<1> QED
  BY <1>1, TypeStep, PTL DEF Spec

-----------------------------------------------------------------------------
(* Who works on a run. *)

Executing == {"fetch", "resolve", "plan", "deploy", "verify", "pruefen"}

(* A batch belongs to the daemon that spawned it; its tickets are running  *)
(* until they are recorded, and no other ticket is, unless its run was     *)
(* started unanswered.                                                     *)
RunInv ==
    /\ daemon # "up" => job = NoJob /\ hand = Idle
    /\ job.stage = "none" => job = NoJob
    /\ job.stage \in Executing => \A t \in job.tickets : state[t] = "running"
    /\ job.stage = "record" =>
         \A t \in job.tickets :
             \/ state[t] = "running"
             \/ state[t] = "done" /\ outcome[t] = TicketResult[t]
    /\ daemon = "up" =>
         \A t \in Tickets \ stranded :
             state[t] = "running" => t \in job.tickets /\ job.stage # "claim"

(* What a thread was told was on record, and its compaction is over.       *)
ToldInv ==
    \A t \in Tickets :
        /\ told[t] # {} => state[t] = "done" /\ told[t] = {outcome[t]} /\ ~Open(t)
        /\ hand = <<"compact", t>> => told[t] = {}

(* Every message but one was followed by a fault that hid it.              *)
SendsInv ==
    /\ faults <= MaxFaults
    /\ \A t \in Tickets :
         sends[t] <= (IF notified[t] \/ hand = <<"tell", t>> THEN 1 ELSE 0)
                       + (MaxFaults - faults)

(* Nothing takes a deployed commit back: what a failing wrapper puts back  *)
(* is not older than any of them, and what may still be switched to is not *)
(* older than that.                                                        *)
ReleaseInv ==
    /\ previous <= live /\ live <= main
    /\ \A r \in orphans : live <= r /\ r <= main
    /\ job.stage \in {"resolve", "plan", "deploy", "verify", "pruefen"} =>
         /\ live <= job.target /\ job.target <= main
         /\ \A r \in orphans : r <= job.target
    /\ job.stage \in {"plan", "deploy", "verify", "pruefen"} =>
         \A t \in job.tickets \ job.rejected : Commit[t] <= job.target
    /\ job.stage = "verify" => orphans = {} /\ live = job.target
    /\ job.deploys => job.stage \in {"pruefen", "record"}
    /\ job.stage = "pruefen" /\ job.deploys => job.target <= previous
    /\ job.stage = "record" /\ job.verdict = "deployed" =>
         \A t \in job.tickets \ job.rejected : Commit[t] <= previous
    /\ \A t \in Tickets : outcome[t] = "deployed" => Commit[t] <= previous

(* It is not concerned with messages, clocks and releases.                 *)
LEMMA RunInvFrame ==
    /\ RunInv
    /\ UNCHANGED <<state, outcome, daemon, job, stranded>>
    /\ hand' = hand \/ hand' = Idle \/ daemon = "up"
    => RunInv'
  BY DEF RunInv, TicketResult

LEMMA RunInvStep == TypeOK /\ RunInv /\ [Next]_vars => RunInv'
<1> SUFFICES ASSUME TypeOK, RunInv, [Next]_vars PROVE RunInv'
  OBVIOUS
<1> USE DEF TypeOK, RunInv, Executing, TicketResult, NoJob, LoopIdle, Pending,
            ticketVars, clocks, world, history, JobGoes
<1>1. ASSUME NEW t \in Tickets, Submit(t) PROVE RunInv'
  BY <1>1 DEF Submit
<1>2. ASSUME NEW t \in Tickets, Loop(t) PROVE RunInv'
  <2>1. /\ UNCHANGED <<state, outcome, daemon, job, stranded>>
        /\ hand' = hand \/ hand' = Idle \/ daemon = "up"
    BY <1>2 DEF Loop, SendCompact, CompactSent, SkipCompact, TimeoutCompact, Tell,
                MarkNotified
  <2> QED
    BY <2>1, RunInvFrame
<1>3. ASSUME NEW t \in Tickets,
             CompactFails(t) \/ SettleCompact(t) \/ TellUnanswered(t) PROVE RunInv'
  <2>1. /\ UNCHANGED <<state, outcome, daemon, job, stranded>>
        /\ hand' = hand \/ hand' = Idle
    BY <1>3 DEF CompactFails, SettleCompact, TellUnanswered
  <2> QED
    BY <2>1, RunInvFrame
<1>4. ASSUME Merge PROVE RunInv'
  BY <1>4 DEF Merge
<1>5. ASSUME SpawnBatch PROVE RunInv'
  BY <1>5 DEF SpawnBatch
<1>6. ASSUME Job PROVE RunInv'
  <2>1. CASE StartRun
    BY <2>1 DEF StartRun, Claimed
  <2>2. CASE Fetch
    BY <2>2 DEF Fetch
  <2>3. CASE Resolve
    BY <2>3 DEF Resolve
  <2>4. CASE Plan
    BY <2>4 DEF Plan
  <2>5. CASE SwitchLink
    BY <2>5 DEF SwitchLink
  <2>6. CASE Deploy
    BY <2>6 DEF Deploy
  <2>7. CASE DeployFails
    BY <2>7 DEF DeployFails, Failed
  <2>8. CASE VerifyFails
    BY <2>8 DEF VerifyFails, Failed
  <2>9. CASE Pruefen
    BY <2>9 DEF Pruefen
  <2>10. CASE RunFails
    BY <2>10 DEF RunFails, Failed
  <2>11. CASE Record
    BY <2>11 DEF Record, Finish
  <2> QED
    BY <1>6, <2>1, <2>2, <2>3, <2>4, <2>5, <2>6, <2>7, <2>8, <2>9,
       <2>10, <2>11 DEF Job
<1>7. ASSUME StartRunFails PROVE RunInv'
  BY <1>7 DEF StartRunFails
<1>8. ASSUME StartRunUnanswered PROVE RunInv'
  BY <1>8 DEF StartRunUnanswered, Claimed
<1>9. ASSUME RecordUnanswered PROVE RunInv'
  BY <1>9 DEF RecordUnanswered, Finish
<1>10. ASSUME Crash PROVE RunInv'
  BY <1>10 DEF Crash
<1>11. ASSUME OrphanSwitches \/ OrphanEnds \/ Tick PROVE RunInv'
  <2>1. UNCHANGED <<state, outcome, daemon, hand, job, stranded>>
    BY <1>11 DEF OrphanSwitches, OrphanEnds, Tick
  <2> QED
    BY <2>1, RunInvFrame
<1>12. ASSUME Recover PROVE RunInv'
  BY <1>12 DEF Recover, Finish
<1>13. ASSUME Serve PROVE RunInv'
  BY <1>13 DEF Serve
<1>14. ASSUME UNCHANGED vars PROVE RunInv'
  BY <1>14, RunInvFrame DEF vars
<1> QED
  BY <1>1, <1>2, <1>3, <1>4, <1>5, <1>6, <1>7, <1>8, <1>9, <1>10, <1>11, <1>12,
     <1>13, <1>14 DEF Next

(* A ticket that runs while the daemon works is in the batch it works on.  *)
THEOREM RunsAttended == Spec => []RunningIsAttended
<1>1. Init => RunInv
  BY DEF Init, RunInv, NoJob, Executing
<1>2. RunInv => RunningIsAttended
  BY DEF RunInv, RunningIsAttended
<1> QED
  BY <1>1, <1>2, RunInvStep, TypeCorrect, PTL DEF Spec

-----------------------------------------------------------------------------
(* What the threads are told. *)

LEMMA HandsDiffer ==
    \A t, u \in Tickets :
        /\ <<"compact", t>> # <<"tell", u>>
        /\ Idle # <<"compact", t>> /\ Idle # <<"tell", t>>
        /\ <<"compact", t>> = <<"compact", u>> => t = u
        /\ <<"tell", t>> = <<"tell", u>> => t = u
  BY DEF Idle

LEMMA ToldInvStep == TypeOK /\ RunInv /\ ToldInv /\ [Next]_vars => ToldInv'
<1> SUFFICES ASSUME TypeOK, RunInv, ToldInv, [Next]_vars PROVE ToldInv'
  OBVIOUS
<1> USE HandsDiffer DEF TypeOK, ToldInv, Open, LoopIdle, ticketVars, clocks, world,
                        history, JobGoes
<1>1. ASSUME NEW t \in Tickets, Submit(t) PROVE ToldInv'
  BY <1>1 DEF Submit
<1>2. ASSUME NEW t \in Tickets, Loop(t) PROVE ToldInv'
  <2>1. CASE SendCompact(t)
    BY <2>1 DEF SendCompact
  <2>2. CASE CompactSent(t)
    BY <2>2 DEF CompactSent
  <2>3. CASE SkipCompact(t) \/ TimeoutCompact(t)
    BY <2>3 DEF SkipCompact, TimeoutCompact
  <2>4. CASE Tell(t)
    BY <2>4 DEF Tell, NotificationDue
  <2>5. CASE MarkNotified(t)
    BY <2>5 DEF MarkNotified
  <2> QED
    BY <1>2, <2>1, <2>2, <2>3, <2>4, <2>5 DEF Loop
<1>3. ASSUME NEW t \in Tickets, CompactFails(t) \/ TellUnanswered(t) PROVE ToldInv'
  BY <1>3 DEF CompactFails, TellUnanswered
<1>4. ASSUME NEW t \in Tickets, SettleCompact(t) PROVE ToldInv'
  BY <1>4 DEF SettleCompact
<1>5. ASSUME Merge \/ SpawnBatch PROVE ToldInv'
  BY <1>5 DEF Merge, SpawnBatch
<1>6. ASSUME Job PROVE ToldInv'
  <2>1. CASE StartRun
    BY <2>1 DEF StartRun, Claimed, Pending
  <2>2. CASE \/ Fetch \/ Resolve \/ Plan \/ SwitchLink \/ Deploy \/ DeployFails
             \/ VerifyFails \/ Pruefen \/ RunFails
    BY <2>2 DEF Fetch, Resolve, Plan, SwitchLink, Deploy, DeployFails, VerifyFails,
                Pruefen, RunFails
  <2>3. CASE Record
    BY <2>3 DEF Record, Finish, RunInv
  <2> QED
    BY <1>6, <2>1, <2>2, <2>3 DEF Job
<1>7. ASSUME StartRunFails PROVE ToldInv'
  BY <1>7 DEF StartRunFails
<1>8. ASSUME StartRunUnanswered PROVE ToldInv'
  BY <1>8 DEF StartRunUnanswered, Claimed, Pending
<1>9. ASSUME RecordUnanswered PROVE ToldInv'
  BY <1>9 DEF RecordUnanswered, Finish, RunInv
<1>10. ASSUME Crash \/ OrphanSwitches \/ OrphanEnds \/ Serve \/ Tick PROVE ToldInv'
  BY <1>10 DEF Crash, OrphanSwitches, OrphanEnds, Serve, Tick
<1>11. ASSUME Recover PROVE ToldInv'
  BY <1>11 DEF Recover, Finish
<1>12. ASSUME UNCHANGED vars PROVE ToldInv'
  BY <1>12 DEF vars
<1> QED
  BY <1>1, <1>2, <1>3, <1>4, <1>5, <1>6, <1>7, <1>8, <1>9, <1>10, <1>11, <1>12
     DEF Next

LEMMA ToldInvariant == Spec => []ToldInv
<1>1. Init => RunInv /\ ToldInv
  BY DEF Init, RunInv, ToldInv, NoJob, Executing, Idle
<1> QED
  BY <1>1, RunInvStep, ToldInvStep, TypeCorrect, PTL DEF Spec

(* A thread is told one outcome only, and it is the one on record.         *)
THEOREM TellsTheRecord == Spec => []ToldIsFinal
<1>1. ToldInv => ToldIsFinal
  BY DEF ToldInv, ToldIsFinal
<1> QED
  BY <1>1, ToldInvariant, PTL

(* /compact never reaches a thread that was told the outcome.              *)
THEOREM CompactsFirst == Spec => CompactFirst
<1>1. ToldInv' => [\A t \in Tickets : hand' = <<"compact", t>> => told'[t] = {}]_vars
  BY DEF ToldInv
<1> QED
  BY <1>1, ToldInvariant, PTL DEF CompactFirst

LEMMA SendsInvStep == TypeOK /\ SendsInv /\ [Next]_vars => SendsInv'
<1> SUFFICES ASSUME TypeOK, SendsInv, [Next]_vars PROVE SendsInv'
  OBVIOUS
<1> USE HandsDiffer, DeployAssumption
        DEF TypeOK, SendsInv, LoopIdle, Fault, ticketVars, clocks, world, history, JobGoes
<1>1. ASSUME NEW t \in Tickets, Submit(t) PROVE SendsInv'
  BY <1>1 DEF Submit
<1>2. ASSUME NEW t \in Tickets, Loop(t) PROVE SendsInv'
  <2>1. CASE SendCompact(t)
    BY <2>1 DEF SendCompact
  <2>2. CASE CompactSent(t)
    BY <2>2 DEF CompactSent
  <2>3. CASE SkipCompact(t) \/ TimeoutCompact(t)
    BY <2>3 DEF SkipCompact, TimeoutCompact
  <2>4. CASE Tell(t)
    BY <2>4 DEF Tell, NotificationDue
  <2>5. CASE MarkNotified(t)
    BY <2>5 DEF MarkNotified
  <2> QED
    BY <1>2, <2>1, <2>2, <2>3, <2>4, <2>5 DEF Loop
<1>3. ASSUME NEW t \in Tickets, CompactFails(t) PROVE SendsInv'
  BY <1>3 DEF CompactFails
<1>4. ASSUME NEW t \in Tickets, TellUnanswered(t) PROVE SendsInv'
  BY <1>4 DEF TellUnanswered
<1>5. ASSUME NEW t \in Tickets, SettleCompact(t) PROVE SendsInv'
  BY <1>5 DEF SettleCompact
<1>6. ASSUME Merge \/ SpawnBatch PROVE SendsInv'
  BY <1>6 DEF Merge, SpawnBatch
<1>7. ASSUME Job PROVE SendsInv'
  BY <1>7 DEF Job, StartRun, Fetch, Resolve, Plan, SwitchLink, Deploy, DeployFails,
              VerifyFails, Pruefen, RunFails, Record
<1>8. ASSUME StartRunFails \/ StartRunUnanswered \/ RecordUnanswered PROVE SendsInv'
  BY <1>8 DEF StartRunFails, StartRunUnanswered, RecordUnanswered
<1>9. ASSUME Crash PROVE SendsInv'
  BY <1>9 DEF Crash
<1>10. ASSUME OrphanSwitches \/ OrphanEnds \/ Serve \/ Recover \/ Tick PROVE SendsInv'
  BY <1>10 DEF OrphanSwitches, OrphanEnds, Serve, Recover, Tick
<1>11. ASSUME UNCHANGED vars PROVE SendsInv'
  BY <1>11 DEF vars
<1> QED
  BY <1>1, <1>2, <1>3, <1>4, <1>5, <1>6, <1>7, <1>8, <1>9, <1>10, <1>11 DEF Next

(* A thread is told once, and once more for each fault at most.            *)
THEOREM OneMessagePerFault == Spec => []NoSpareMessages
<1>1. Init => SendsInv
  BY DeployAssumption DEF Init, SendsInv
<1>2. TypeOK /\ SendsInv => NoSpareMessages
  BY DeployAssumption DEF TypeOK, SendsInv, NoSpareMessages
<1> QED
  BY <1>1, <1>2, SendsInvStep, TypeCorrect, PTL DEF Spec

-----------------------------------------------------------------------------
(* What is live. *)

(* It is not concerned with the threads, the loop and the clocks.          *)
LEMMA ReleaseInvFrame ==
    ReleaseInv /\ UNCHANGED <<outcome, job, main, live, previous, orphans>> => ReleaseInv'
  BY DEF ReleaseInv

LEMMA ReleaseInvStep == TypeOK /\ ReleaseInv /\ [Next]_vars => ReleaseInv'
<1> SUFFICES ASSUME TypeOK, ReleaseInv, [Next]_vars PROVE ReleaseInv'
  OBVIOUS
<1> USE DeployAssumption DEF TypeOK, ReleaseInv, NoJob, ticketVars, clocks, world,
                             history, JobGoes
<1>1. ASSUME NEW t \in Tickets, Submit(t) PROVE ReleaseInv'
  BY <1>1 DEF Submit
<1>2. ASSUME NEW t \in Tickets, Loop(t) PROVE ReleaseInv'
  <2>1. UNCHANGED <<outcome, job, main, live, previous, orphans>>
    BY <1>2 DEF Loop, SendCompact, CompactSent, SkipCompact, TimeoutCompact, Tell,
                MarkNotified
  <2> QED
    BY <2>1, ReleaseInvFrame
<1>3. ASSUME NEW t \in Tickets,
             CompactFails(t) \/ SettleCompact(t) \/ TellUnanswered(t) PROVE ReleaseInv'
  <2>1. UNCHANGED <<outcome, job, main, live, previous, orphans>>
    BY <1>3 DEF CompactFails, SettleCompact, TellUnanswered
  <2> QED
    BY <2>1, ReleaseInvFrame
<1>4. ASSUME Merge PROVE ReleaseInv'
  BY <1>4 DEF Merge
<1>5. ASSUME SpawnBatch PROVE ReleaseInv'
  BY <1>5 DEF SpawnBatch
<1>6. ASSUME Job PROVE ReleaseInv'
  <2>1. CASE StartRun
    BY <2>1 DEF StartRun
  <2>2. CASE Fetch
    BY <2>2 DEF Fetch
  <2>3. CASE Resolve
    BY <2>3 DEF Resolve
  <2>4. CASE Plan
    BY <2>4 DEF Plan
  <2>5. CASE SwitchLink
    BY <2>5 DEF SwitchLink
  <2>6. CASE Deploy
    BY <2>6 DEF Deploy, Keeps
  <2>7. CASE DeployFails
    BY <2>7 DEF DeployFails, Failed
  <2>8. CASE VerifyFails
    BY <2>8 DEF VerifyFails, Keeps, PutsBack, Failed
  <2>9. CASE Pruefen
    BY <2>9 DEF Pruefen
  <2>10. CASE RunFails
    BY <2>10 DEF RunFails, Failed
  <2>11. CASE Record
    BY <2>11 DEF Record, Finish, TicketResult
  <2> QED
    BY <1>6, <2>1, <2>2, <2>3, <2>4, <2>5, <2>6, <2>7, <2>8, <2>9,
       <2>10, <2>11 DEF Job
<1>7. ASSUME StartRunFails \/ StartRunUnanswered PROVE ReleaseInv'
  <2>1. job' = NoJob /\ UNCHANGED <<outcome, main, live, previous, orphans>>
    BY <1>7 DEF StartRunFails, StartRunUnanswered
  <2> QED
    BY <2>1
<1>8. ASSUME RecordUnanswered PROVE ReleaseInv'
  BY <1>8 DEF RecordUnanswered, Finish, TicketResult
<1>9. ASSUME Crash PROVE ReleaseInv'
  BY <1>9 DEF Crash
<1>10. ASSUME OrphanSwitches \/ OrphanEnds PROVE ReleaseInv'
  <2>1. CASE OrphanSwitches
    BY <2>1 DEF OrphanSwitches, First
  <2>2. CASE OrphanEnds
    BY <2>2 DEF OrphanEnds, First, Keeps, PutsBack
  <2> QED
    BY <1>10, <2>1, <2>2
<1>11. ASSUME Serve \/ Tick PROVE ReleaseInv'
  <2>1. UNCHANGED <<outcome, job, main, live, previous, orphans>>
    BY <1>11 DEF Serve, Tick
  <2> QED
    BY <2>1, ReleaseInvFrame
<1>12. ASSUME Recover PROVE ReleaseInv'
  BY <1>12 DEF Recover, Finish
<1>13. ASSUME UNCHANGED vars PROVE ReleaseInv'
  BY <1>13 DEF vars
<1> QED
  BY <1>1, <1>2, <1>3, <1>4, <1>5, <1>6, <1>7, <1>8, <1>9, <1>10, <1>11, <1>12,
     <1>13 DEF Next

LEMMA ReleaseInvariant == Spec => []ReleaseInv
<1>1. Init => ReleaseInv
  BY DEF Init, ReleaseInv, NoJob
<1> QED
  BY <1>1, ReleaseInvStep, TypeCorrect, PTL DEF Spec

(* A commit on record as deployed is live, and stays so.                   *)
THEOREM DeployedStaysLive == Spec => []DeployedIsLive
<1>1. TypeOK /\ ReleaseInv => DeployedIsLive
  BY DeployAssumption DEF TypeOK, ReleaseInv, DeployedIsLive
<1> QED
  BY <1>1, ReleaseInvariant, TypeCorrect, PTL

(* While a batch has turned tickets away, nothing that may still switch    *)
(* the link brings their commits.                                          *)
RejectedInv ==
    /\ job.stage \in {"none", "claim", "fetch", "resolve"} => job.rejected = {}
    /\ \A t \in job.rejected :
         /\ live <= job.target /\ job.target < Commit[t]
         /\ \A r \in orphans : r <= job.target

LEMMA RejectedInvStep ==
    TypeOK /\ ReleaseInv /\ RejectedInv /\ [Next]_vars => RejectedInv'
<1> SUFFICES ASSUME TypeOK, ReleaseInv, RejectedInv, [Next]_vars PROVE RejectedInv'
  OBVIOUS
<1> USE DeployAssumption DEF TypeOK, RejectedInv, NoJob, world, history, JobGoes
<1>1. ASSUME NEW t \in Tickets,
             Submit(t) \/ Loop(t) \/ CompactFails(t) \/ SettleCompact(t)
               \/ TellUnanswered(t)
      PROVE  RejectedInv'
  <2>1. UNCHANGED <<job, live, orphans>>
    BY <1>1 DEF Submit, Loop, SendCompact, CompactSent, SkipCompact, TimeoutCompact,
                Tell, MarkNotified, CompactFails, SettleCompact, TellUnanswered
  <2> QED
    BY <2>1
<1>2. ASSUME Merge \/ RecordUnanswered \/ Serve \/ Recover \/ Tick \/ UNCHANGED vars
      PROVE  RejectedInv'
  <2>1. UNCHANGED <<job, live, orphans>>
    BY <1>2 DEF Merge, RecordUnanswered, Serve, Recover, Tick, vars
  <2> QED
    BY <2>1
<1>3. ASSUME SpawnBatch \/ StartRunFails \/ StartRunUnanswered \/ Crash PROVE RejectedInv'
  <2>1. CASE SpawnBatch
    BY <2>1 DEF SpawnBatch, LoopIdle
  <2>2. CASE StartRunFails \/ StartRunUnanswered
    BY <2>2 DEF StartRunFails, StartRunUnanswered
  <2>3. CASE Crash
    BY <2>3 DEF Crash
  <2> QED
    BY <1>3, <2>1, <2>2, <2>3
<1>4. ASSUME OrphanSwitches \/ OrphanEnds PROVE RejectedInv'
  <2>1. CASE OrphanSwitches
    BY <2>1 DEF OrphanSwitches, First
  <2>2. CASE OrphanEnds
    BY <2>2 DEF OrphanEnds, Keeps, PutsBack, ReleaseInv
  <2> QED
    BY <1>4, <2>1, <2>2
<1>5. ASSUME Job PROVE RejectedInv'
  <2>1. CASE StartRun
    BY <2>1 DEF StartRun
  <2>2. CASE Resolve
    BY <2>2 DEF Resolve, ReleaseInv
  <2>3. CASE Fetch
    BY <2>3 DEF Fetch
  <2>4. CASE Plan
    BY <2>4 DEF Plan
  <2>5. CASE SwitchLink
    BY <2>5 DEF SwitchLink
  <2>6. CASE Deploy
    BY <2>6 DEF Deploy, Keeps
  <2>7. CASE DeployFails
    BY <2>7 DEF DeployFails, Failed
  <2>8. CASE VerifyFails
    BY <2>8 DEF VerifyFails, Keeps, PutsBack, Failed, ReleaseInv
  <2>9. CASE Pruefen
    BY <2>9 DEF Pruefen
  <2>10. CASE RunFails
    BY <2>10 DEF RunFails, Failed
  <2>11. CASE Record
    BY <2>11 DEF Record
  <2> QED
    BY <1>5, <2>1, <2>2, <2>3, <2>4, <2>5, <2>6, <2>7, <2>8, <2>9,
       <2>10, <2>11 DEF Job
<1> QED
  BY <1>1, <1>2, <1>3, <1>4, <1>5 DEF Next

(* A ticket whose commit was not on main is told the truth: it is not live.*)
THEOREM RejectedStayOff == Spec => []RejectedIsNotLive
<1>1. Init => RejectedInv
  BY DEF Init, RejectedInv, NoJob
<1>2. TypeOK /\ RejectedInv => RejectedIsNotLive
  BY DeployAssumption DEF TypeOK, RejectedInv, RejectedIsNotLive
<1> QED
  BY <1>1, <1>2, RejectedInvStep, ReleaseInvariant, TypeCorrect, PTL DEF Spec

-----------------------------------------------------------------------------
(* What the agents see. *)

(* A ticket that is done has an outcome. *)
OutcomeInv == \A t \in Tickets : state[t] = "done" => outcome[t] \in Outcomes

(* How a step changes what the agents see of the tickets.                  *)
Unseen      == UNCHANGED <<state, outcome, told>>
Taken(S)    == /\ \A t \in S : state[t] = "pending"
               /\ state' = [t \in Tickets |-> IF t \in S THEN "running" ELSE state[t]]
               /\ UNCHANGED <<outcome, live, told>>
Finished(S) == /\ \A t \in S :
                    /\ state[t] = "running" /\ state'[t] = "done"
                    /\ outcome'[t] \in Outcomes
                    /\ outcome'[t] = "deployed" => Commit[t] <= live
               /\ \A t \in Tickets \ S : state'[t] = state[t] /\ outcome'[t] = outcome[t]
               /\ UNCHANGED <<live, told>>

(* A record, or its repetition, decides the tickets that are still running.*)
LEMMA RecordFinishes ==
    ASSUME TypeOK, RunInv, ReleaseInv, job.stage = "record",
           Finish(job.tickets, TicketResult), UNCHANGED <<live, told>>
    PROVE  Finished({t \in job.tickets : state[t] = "running"})
<1> USE DEF TypeOK, Finish, TicketResult, Outcomes
<1>1. \A t \in job.tickets : TicketResult[t] \in Outcomes
  OBVIOUS
<1>2. \A t \in job.tickets : TicketResult[t] = "deployed" => Commit[t] <= live
  BY DeployAssumption DEF ReleaseInv
<1>3. \A t \in job.tickets :
        state[t] = "running" \/ (state[t] = "done" /\ outcome[t] = TicketResult[t])
  BY DEF RunInv
<1> QED
  BY <1>1, <1>2, <1>3 DEF Finished

LEMMA StepsSeen ==
    ASSUME TypeOK, RunInv, ReleaseInv, [Next]_vars
    PROVE  \/ Unseen
           \/ \E t \in Tickets : Submit(t) \/ Tell(t)
           \/ \E S \in SUBSET Tickets : Taken(S) \/ Finished(S)
<1> USE DEF ticketVars, clocks, world, history, JobGoes
<1>1. ASSUME NEW t \in Tickets,
             Loop(t) \/ CompactFails(t) \/ SettleCompact(t) \/ TellUnanswered(t)
      PROVE  Unseen \/ Tell(t)
  BY <1>1 DEF Unseen, Loop, SendCompact, CompactSent, SkipCompact, TimeoutCompact,
              MarkNotified, CompactFails, SettleCompact, TellUnanswered
<1>2. ASSUME \/ Merge \/ SpawnBatch \/ StartRunFails \/ Crash \/ OrphanSwitches
             \/ OrphanEnds \/ Serve \/ Tick
      PROVE  Unseen
  BY <1>2 DEF Unseen, Merge, SpawnBatch, StartRunFails, Crash, OrphanSwitches, OrphanEnds,
              Serve, Tick
<1>3. ASSUME StartRun \/ StartRunUnanswered PROVE Taken(job.tickets)
  BY <1>3 DEF Taken, StartRun, StartRunUnanswered, Claimed, Pending
<1>4. ASSUME Record \/ RecordUnanswered
      PROVE  Finished({t \in job.tickets : state[t] = "running"})
  BY <1>4, RecordFinishes DEF Record, RecordUnanswered
<1>5. ASSUME Recover PROVE Finished({t \in Tickets : state[t] = "running"})
  BY <1>5 DEF Recover, Finish, Finished, Outcomes
<1>6. ASSUME Job, ~StartRun, ~Record PROVE Unseen
  BY <1>6 DEF Unseen, Job, Fetch, Resolve, Plan, SwitchLink, Deploy, DeployFails,
              VerifyFails, Pruefen, RunFails
<1>7. ASSUME UNCHANGED vars PROVE Unseen
  BY <1>7 DEF Unseen, vars
<1>8. job.tickets \subseteq Tickets
  BY DEF TypeOK
<1> QED
  BY <1>1, <1>2, <1>3, <1>4, <1>5, <1>6, <1>7, <1>8 DEF Next

LEMMA OutcomeInvStep ==
    TypeOK /\ RunInv /\ ReleaseInv /\ OutcomeInv /\ [Next]_vars => OutcomeInv'
<1> SUFFICES ASSUME TypeOK, RunInv, ReleaseInv, OutcomeInv, [Next]_vars PROVE OutcomeInv'
  OBVIOUS
<1>1. CASE Unseen
  BY <1>1 DEF Unseen, OutcomeInv
<1>2. ASSUME NEW t \in Tickets, Submit(t) \/ Tell(t) PROVE OutcomeInv'
  BY <1>2 DEF Submit, Tell, OutcomeInv, TypeOK, ticketVars
<1>3. ASSUME NEW S \in SUBSET Tickets, Taken(S) \/ Finished(S) PROVE OutcomeInv'
  BY <1>3 DEF Taken, Finished, OutcomeInv
<1> QED
  BY <1>1, <1>2, <1>3, StepsSeen

(* Every step is one of the TicketDesk or unseen by the agents.            *)
LEMMA DeskSteps ==
    ASSUME TypeOK, RunInv, ReleaseInv, OutcomeInv, [Next]_vars
    PROVE  [Desk!Next]_<<Seen, live, told>>
<1>1. CASE Unseen
  <2>1. Seen' = Seen /\ told' = told /\ outcome' = outcome
    BY <1>1 DEF Unseen, Seen
  <2>2. TypeOK' /\ ReleaseInv'
    BY TypeStep, ReleaseInvStep
  <2>3. live' \in Nat /\ previous' \in Nat /\ previous' <= live'
    BY <2>2 DEF TypeOK, ReleaseInv
  <2>4. ASSUME NEW t \in Tickets, Seen[t] = "deployed" PROVE Commit[t] <= live'
    <3>1. outcome[t] = "deployed"
      BY <2>4 DEF Seen, TypeOK, States
    <3>2. Commit[t] <= previous' /\ Commit[t] \in Nat
      BY <2>1, <2>2, <3>1, DeployAssumption DEF ReleaseInv
    <3> QED
      BY <2>3, <3>2
  <2> QED
    BY <2>1, <2>3, <2>4 DEF Desk!Next, Desk!Release
<1>2. ASSUME NEW t \in Tickets, Submit(t) PROVE Desk!Submit(t)
  BY <1>2 DEF Submit, Desk!Submit, Seen, TypeOK, world, history
<1>3. ASSUME NEW t \in Tickets, Tell(t) PROVE Desk!Tell(t)
  BY <1>3 DEF Tell, NotificationDue, Desk!Tell, Desk!Verdicts, Seen, OutcomeInv,
              Outcomes, ticketVars, world
<1>4. ASSUME NEW S \in SUBSET Tickets, Taken(S) PROVE Desk!Start(S)
  BY <1>4 DEF Taken, Desk!Start, Seen
<1>5. ASSUME NEW S \in SUBSET Tickets, Finished(S) PROVE Desk!Decide(S)
  <2>1. \A t \in S :
          /\ Seen[t] = "running"
          /\ Seen'[t] \in Outcomes
          /\ Seen'[t] = "deployed" => Commit[t] <= live
    BY <1>5 DEF Finished, Seen
  <2>2. \A t \in Tickets \ S : Seen'[t] = Seen[t]
    BY <1>5 DEF Finished, Seen
  <2>3. \A t \in Tickets : Seen[t] \in Outcomes \cup {"absent", "pending", "running"}
    BY DEF Seen, OutcomeInv, TypeOK, States
  <2>4. \A t \in Tickets :
          Seen'[t] \in Outcomes \cup {"absent", "pending", "running"}
    BY <1>5, <2>1, <2>2, <2>3
  <2>5. Seen' \in [Tickets -> Outcomes \cup {"absent", "pending", "running"}]
    BY <2>4 DEF Seen
  <2> QED
    BY <1>5, <2>1, <2>2, <2>5 DEF Finished, Desk!Decide, Desk!Verdicts, Outcomes
<1> QED
  BY <1>1, <1>2, <1>3, <1>4, <1>5, StepsSeen DEF Desk!Next

(* To the agents the deploy queue is a TicketDesk.                         *)
THEOREM QueueIsDesk == Spec => ImplementsDesk
<1>1. Init => Desk!Init
  BY DEF Init, Desk!Init, Seen
<1>2. Init => RunInv /\ OutcomeInv
  BY DEF Init, RunInv, OutcomeInv, NoJob, Executing
<1>3. TypeOK /\ RunInv /\ ReleaseInv /\ OutcomeInv /\ [Next]_vars
      => [Desk!Next]_<<Seen, live, told>>
  BY DeskSteps
<1> QED
  BY <1>1, <1>2, <1>3, RunInvStep, OutcomeInvStep, ReleaseInvariant, TypeCorrect, PTL
     DEF Spec, ImplementsDesk, Desk!Spec, Desk!deskVars
=============================================================================
