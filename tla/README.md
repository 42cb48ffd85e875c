# TLA+ models of the Deadlock Twitch Bot

This directory models the parts of the bot whose correctness depends on the
order in which things happen: rows that several workers lease, guards that
expire, messages that arrive twice, processes that die between two writes. Each
module is translated from the Rust source under `src/rust`; `PROJECT.json` maps
every definition to the lines it stands for, lists the runs, the hazards they
are aimed at and the theorems.

    tlc -workers 2 -config InboxTimely.cfg MCEventSubInbox.tla
    tlapm EventSubInboxProofs.tla
    tlapm EventSubIngressProofs.tla
    tlapm EventPipelineProofs.tla
    tlapm StreamEventsProofs.tla
    tlapm RaidArrivalsProofs.tla
    tlapm HubIdempotencyProofs.tla
    tlapm DeployQueueProofs.tla
    tlapm ReleasesProofs.tla

## The system

The repository is a Rust workspace (about 580,000 lines) with several
processes around one PostgreSQL database, web frontends, and documentation.

| component | state | operations | talks to | what is hard |
|---|---|---|---|---|
| EventSub ingress (`webhook_receiver`, `dispatch`, `guard`) | message guards in `eventsub_guard_state`, `dispatch_active` | callback, dispatch, claim, release | Twitch (retries until 2xx), inbox | overlapping redeliveries, expiry, crash between guard and row |
| Processing inbox (`inbox_store`, `inbox_runtime`) | two tables; per worker a batch in memory | enqueue, lease, settle, requeue, stop | ingress, handlers, admin API | leases that run out, stale workers, lost writes |
| Event handlers (`handlers`) | business-effect guards, offline throttle, `twitch_live_state` | five work types, each a list of steps | inbox, hooks (raid, chat, engagement), poller | half-done messages, duplicates, retry against throttle |
| Stream poller (`poller/engine`) | `twitch_live_state`, announcements, tick state | tick every few seconds | Twitch, handlers (shared guards and rows), Discord | works on a snapshot while events change the rows |
| Sessions (`sessions`) | session table and cache | ensure, finalize, rehydrate | handlers, poller | two paths end a session |
| EventSub subscriptions (`subscriptions`) | tracked set, retry and capacity state | ensure, cleanup, untrack | Twitch, tokens | capacity, 403 retries, revocations |
| Raids (`tb-raid`, wiring in `tb-bot`) | pending raids, orphaned notifications and manual-raid marks in memory; arrivals, recruitment raids, scores in the database | start, register, confirm, sweep, supersede, cancel | Twitch, chat, EventSub | several signals for one arrival, each acting on a copy; raids called off; the streamer's own raids |
| Tokens (`tb-transport-twitch`, `tb-raid/token_*`) | cached tokens, grace and blacklist tables | refresh, invalidate, revoke | Twitch OAuth | shared refresh in flight, cooldowns |
| Deploy queue (`tb-deploy-queue`) | tickets and runs tables; loop and batch in memory | submit, compact, batch, release, notify, recover | git, deploy wrapper, agent threads | crashes at every step, lost answers, wrappers that survive |
| Build plan and wrapper (`plan.rs`, `ops/systemd`) | releases with stamped artifacts, frozen builds, the `current` link, the running services | plan, build or carry, freeze, switch, restart, check | batch, services | builds carried over several releases, switches that break off, wrappers left behind |
| Discord hub (`tb-discord-hub`) | idempotency store, role locks, rate-limit buckets, gateway session | REST actions, gateway events | Discord, bot processes | repeated requests, cancelled tasks, lost answers, in-flight entries that expire, resume against reconnect |
| Social media, VOD archive | leased job tables | upload, render, download | platforms | leases, resume |
| Chat, engagement, LLM, analytics, dashboards | mostly rows written once | commands, reports, pages | everything | little protocol of their own |

What makes each modelled part correct:

* **Inbox**: an enqueued work is never lost and never in both tables; while
  batches keep to their leases, one worker at a time has it; the attempts end.
* **Ingress**: a message enters the inbox at most once while its guard can be
  needed; what Twitch is acknowledged is durable; after an error a retry gets
  through.
* **Both together**: what Twitch is acknowledged reaches a handler or a dead letter
  wherever the process dies, and however often it is delivered, one handler at a
  time works on it.
* **Handlers and poller**: an effect runs at most once per message, and a
  message that counts as delivered has had its effects; of the two paths that see
  a stream end one starts an auto-raid, unless somebody who still saw the stream live
  gave the throttle back in between; the stored live state converges.
* **Raids**: a registered raid is confirmed once per copy of its pending, and counts
  once towards the recruitment blacklist; nothing is recorded or confirmed for a pair
  none of whose raids landed; an arrival on a partner is followed up; an auto-raid does
  not compete with the streamer's own raid.
* **Discord hub**: requests with one key are executed once as long as the store
  remembers the key, and the others are answered with that outcome; nothing
  stays reserved or locked; a role is created once.
* **Deploy queue**: a commit that is told to be deployed is live and stays so,
  although releases that fail their verification are put back; a thread is told once
  unless a fault comes between; nothing is compacted after the answer; every ticket is
  answered.
* **Build plan**: a carried artifact is what its commit would compile to; a service
  that is not restarted needed no restart; a batch that reports success left every
  service with the code of its commit, unless it deployed nothing and read a link that
  a wrapper left behind then put back.

## The modules

| module | models | checked by |
|---|---|---|
| `WorkQueue` | abstract: absent, pending, delivered or dead, and back from dead | refinement of `EventSubInbox` and of the rows of `StreamEvents` |
| `EventSubInbox` | the two inbox tables and their workers | `inbox_timely`, `inbox_overrun`, `inbox_parallel` |
| `EventSubInboxProofs` | theorems about `EventSubInbox` | `tlapm` |
| `EventSubIngress` | callback, dispatcher, message guard, Twitch's redeliveries | `pipeline` (in `EventPipeline`), `ingress_acked` |
| `EventSubIngressProofs` | theorems about `EventSubIngress` | `tlapm` |
| `EventPipeline` | ingress and inbox over the rows that join them | `pipeline` |
| `EventPipelineProofs` | it refines both parts; theorems about it | `tlapm` |
| `GuardedEffects` | abstract: an effect of a message is free, under way or closed | refinement of `StreamEvents` |
| `StreamEvents` | the handlers of one broadcaster's events, the guards, the poller | `events`, `events_heal`, `events_offline` |
| `StreamEventsProofs` | theorems about `StreamEvents` | `tlapm` |
| `RaidArrivals` | raids from their start to their arrival, the signals' handlers, the marks, the recruitment blacklist | `raids` |
| `RaidArrivalsProofs` | theorems about `RaidArrivals` | `tlapm` |
| `HubIdempotency` | a write to Discord from its idempotency key to the record it leaves | `hub` |
| `HubIdempotencyProofs` | theorems about `HubIdempotency` | `tlapm` |
| `TicketDesk` | abstract: what the agents see of their tickets | refinement of `DeployQueue` |
| `DeployQueue` | the deploy daemon, its batch, the wrapper, the threads | `deploy` (through `Releases`), `deploy_not_live` |
| `DeployQueueProofs` | theorems about `DeployQueue` | `tlapm` |
| `Releases` | `DeployQueue` with what is built, carried, switched and restarted | `deploy` |
| `ReleasesProofs` | `Releases` refines `DeployQueue`; theorems about `Releases` | `tlapm` |
| `MC...` | the instances for TLC | |

The modules meet in the inbox. `EventSubIngress` ends with the insertion of a row,
which is `Enqueue` of `EventSubInbox`; `EventPipeline` joins the two there.
`WorkQueue` is what the handlers have of the inbox: the inbox implements it as long as
batches keep to their leases, alone and in the pipeline (`InboxIsWorkQueue`,
`PipelineIsQueue`), and the rows of `StreamEvents` move as it says (`RowsAreAQueue`).
There, as in the inbox, a work is handled again until it is delivered or has failed
`INBOX_MAX_ATTEMPTS` times, and may be put back from the dead letters. That two rows
can stand for one message is what `EventSubIngress` leaves possible (an insert that
was committed but reported as an error). The guarded effect `stream_offline_auto_raid`
of `StreamEvents` and the poller's raid are the `Offline` of `RaidArrivals`: the first
shows how often a stream end triggers it, the second follows what it triggers.
`HubIdempotency` is a process of its own; its clients are the bot's processes, which
repeat a request under the same key.

### EventSubInbox

`inbox` and `dead` are the sets of work ids with a row in the processing inbox
and the dead-letter table; `queued`, `due` and `attempts` are columns. `due` is
the time until `next_attempt_at`, so one `Tick` lowers all remaining times.
A worker is one `InboxRuntime`: `pc` is its place in `run`, `process_due_batch`
and `process_one`; `held` and `cur` are the leased rows in its memory with the
`attempt_count` it read; `stop` is its stop signal. `Lease` is the single
statement of `lease_due`, `MarkRetry` and `MarkDeadLetter` are the two sides of
`handle_failure`. `Crash` drops a worker's memory, `MarkFails` is a settling
write whose retries are used up. Leases of two workers at the same instant are
taken one after the other (`FOR UPDATE SKIP LOCKED` gives them disjoint rows).

`Timely` restricts time to the runs in which every batch is finished before its
lease ends. Nothing in the code enforces this, so the properties that need it
(`LeaseExclusive`, `DeadLetterEarned`, `AttemptsNeverDrop`,
`ImplementsWorkQueue`) are stated under it, and the ones that must not depend on
it (`NoLostWork`, `OneTable`, `SettlesWorks`) are checked without. The run
`inbox_parallel` shows what happens otherwise. After an overrun a second worker leases
the work, which `LeaseExclusive` excludes; then the first one's late `mark_retry`, keyed
by the work alone, makes the row due inside the second one's lease, and it is leased once
more: two workers hold the work, each under a lease that still runs (`LeaseHonoured`).

### EventSubIngress

`req` is the stage of each HTTP request, `guard` the remaining life of the
message guard, `age` the difference between our clock and the message's
timestamp (Twitch's clock may be ahead by `MaxSkew`), `copies` the inbox rows.
Twitch sends a message again as long as it saw no 2xx, without waiting for a
slow answer; a 204 may come too late for it. `ClaimCut` is the request future
dropped during the claim; after the claim the work runs in a task of its own and
a closed connection no longer matters. Only core types, whose sole effect is the
row, are represented.

### EventPipeline

`EventPipeline` extends `EventSubIngress` and instantiates `EventSubInbox` as `Box`,
as `main.rs` of `tb-bot` gives the dispatcher the inbox's enqueuer. `message` is
the column that ties a work to its message. `Write` is `Insert` of the ingress and
`Enqueue` of the inbox in one step; every other step is one of either part, except
that time passes for both (`PipelineTick`) and that the ingress and the worker `Own`
are one process (`ProcessCrash`). The other workers are processes of their own
that share the tables. `tb-bot` never sends its worker a stop signal, so
`Shutdown` is left to the others. The parts have faults of their own.

`AckedIsKept` is what neither part says alone: a message that Twitch was answered
204 for is handled, waits or is a dead letter. `StartsAlone` is the whole chain's
"no double processing": no handler is started for a message that another worker has
in hand or that was delivered. It is stated for messages young enough for their
guard to live (`Fresh`) and under `Timely`.

### StreamEvents

`Steps(type)` lists what each handler does, in order: hooks, reads and writes of the
live state, the throttle, and guarded effects. `at` is the step a running handler is
at, `body` tells that its guarded effect is under way, so that a crash between claim
and effect is a state of its own. `guards` is the set of claimed `effect:message` keys
and `throttle` the remaining life of the broadcaster's offline throttle. The poller is
three states of a tick: it asked Twitch, it loaded the stored state, it is about to
write. A tick whose stored state is offline and whose answer from Twitch is live takes
the stream to have gone live and releases the throttle (`PollGoesLive`), as a
stream.online does (`ReleaseThrottle`), also when the answer is older than the end that
the throttle stands for. `reopened` counts the releases, while the stream is off, of a
window that still ran; a release while it is on air closes the window for good.
Guards are claimed at the clock of the claim; the handlers read theirs when they start. A
guard lives for 7 days, longer than any retry, but a dead letter may be
put back later than that (`Requeue`), and a guard that is claimed late at an old clock
lives shorter: so a guard may lapse at any time while nobody is inside its effect
(`Lapse`), which counts as a fault. `ImplementsEffects` maps guards, running handlers
and completions to `GuardedEffects`. Which branch a stream.online takes for the
announcement is not represented. A panic in an effect keeps its guard
(`EffectErrUnreleased`).

### RaidArrivals

`pending` is the `PendingRaidStore`: for a pair of source and target the flow of
the raid the bot registered. `act` holds the tasks. A pipeline run (`auto`,
`manual`) is in its grace, running, registering or replaying an orphan; a signal's
task (`raid`, `chat`, `unraid`) holds the copy of the pending it read at its start
(`Hear`), waits for the database (`Recall`), and then does what the plan of
`signal_correlation.rs` says: store the copy back and confirm it, store an orphan,
or record an independent arrival and mark the source. `Confirm` takes the pending
out; the database part of the same function is a later step (`WritePartner`,
`WriteExternal`), because other tasks run between. What is in memory is lost in a
`Restart`, what is in the database (`arrivals`, `external`, `rows`, `due`,
`blacklist`) is not. `CallOff` is the streamer's /unraid: the target's chat and the
source's are told of it, in either order and at any time.

Timeouts are abstract: an orphan may be past its 15 s, a pending past its 300 s, an
arrival past its 600 s and a mark past its 180 s whenever a step asks. The steps
that take away what somebody still waits for cost a trouble, so that an instance
has one such interference and not an unlimited number. That a target is a partner
does not change during a raid, and the arrival's classification agrees with the
lookup of the orphan's; the code asks the same tables in both places. A raid whose
answer was lost is started but not registered, as in the code.

`Hear` reads the pending before `Recall` asks the database, as the handlers do, so
everything that happens to the pending in between is in the model: it is why
`ConfirmedOncePerStore` counts the copies that were stored back (`revived`).

### HubIdempotency

`inflight` and `records` are the two maps of `IdempotencyStore`, with the request
whose task made the entry. A request's task waits for another's outcome (`wait`),
for the role lock (`queue`), looks the role up (`look`), asks the rate limit
(`run`) and has its write on the way (`sent`). `discord` is what Discord makes of
the write, independently of whether the task still waits for the answer. The flag
`WRITE_UNCERTAIN` is not a variable: it is set exactly while a write is under way,
and taken back by an answer that says it was not executed, so `Finish` gets it from
the step that ends the task. `Cancel` is a dropped future: axum drops the handler
when the client goes away, `ExecutionGuard` settles in its destructor. `adrift`
are the requests that were given up while Discord had their write.

All actions other than role creations are alike for the store and are one kind of
request; the deletion of what is absent succeeds, which is why `EndsUnsent` and
`NotWritten` may be a success. Records may expire or be evicted at any time. A
reservation expires only for a role creation, since only the wait for the lock has
no limit; the other operations end well within `inflight_ttl` (600 s: three
attempts of at most 10 s each and waits of 10 s for each call).

### DeployQueue

The columns of a ticket, and two activities of the daemon: its loop, which does
one thing at a time (`hand` is the message it is sending), and the batch it
spawned (`job`). Commits are numbered along main, and a commit is live when the
release is not older. A ticket whose commit is not on main yet when the batch
resolves it is rejected. `live` is what the `current` link names. The wrapper reads
it under its lock (`previous`), switches it (`SwitchLink`), and then verifies the release
and restarts the services (stage "verify"): so a release is live before it is known to
be good, and `VerifyFails` may put the link back to `previous` or, when the failure comes
too late for that or the link cannot be put back, leave it. Whoever reads the link
without the lock, as the batch does in `Resolve`, can read such a release.
`orphans` are wrappers that outlived their daemon, which is possible because the
wrapper runs as root; they switch and put back as well (`OrphanSwitches`, `OrphanEnds`).
The lock is taken in the order in which the wrappers asked for it, which is how the
kernel queues blocked `flock` calls. One daemon runs at a time (`daemon_lock`).

`Desk` is what the agents see of this: `Seen(t)` is "absent", the state of the
ticket, or its outcome once it is done, and with `live` and `told` it moves as
`TicketDesk` says, to which batches, compaction, crashes and the second attempt to
record a batch are invisible.

### Releases

`Releases` extends `DeployQueue`: each of its actions is an action of the queue
with its effect on the artifacts. An artifact is a binary, a frontend (these are
`Compiled`) or a path that a service reads from its release, and `Inputs` gives, for
every commit, a version of what it depends on; a commit that reverts another has the
earlier version again. `origin` is the stamp of an artifact of a build: the commit it
was compiled from, which may be several releases back. `ReadParent` reads the live
release, `PlanDeploy` is `compute` and the build (`Built`, `Changed`, `Restarts`),
`PlanNothing` the plan that needs no deploy. The wrapper of a batch freezes its build
(`Freezes`; a build of that commit that is already frozen must be the one it was given)
and links it (`LinkRelease`). It then restarts the services of the plan (`DeployAll`),
breaks off in its restarts (`DeployFailsLate`), or puts the link back before any restart
(`DeployIsPutBack`). One that outlives its daemon has the plan in `leftover` and does the
same (`OrphanLinks`, `OrphanRestarts`, `OrphanGivesUp`); when it moves the link, either
way, while a batch is there, `moved` notes that this batch may have read the other
value. `taken` is the release a service was started from, and `PruefenPasses` compares
the executables of `taken` and of the live release.

A path that is also an input of a binary is counted there. `compute` skips such a
path (`covered`), and in this repository that loses no restart: of the
`SERVICE_PATHS`, only the dashboard's script and the skills under `ops/social-ai` are
referenced by crates, and the binaries that contain them restart the same services.
The binaries of one package are one artifact: they are built together. A service that
the service manager restarts by itself would take the release that is linked just then,
earlier than its plan says, or one that is put back afterwards; this is not represented.
The restarts are one step with the end of the verification.

## What the runs show

| run | bounds | properties | result |
|---|---|---|---|
| `inbox_timely` | 2 works, 2 workers, 1 fault, 1 requeue | `TypeOK`, `LeaseExclusive`, `DeadLetterEarned`, `AttemptsNeverDrop`, `ImplementsWorkQueue` | hold |
| `inbox_overrun` | the same, leases may run out, fair | `NoLostWork`, `OneTable`, `SettlesWorks` | hold |
| `inbox_parallel` | 2 works in a batch, no faults | `LeaseHonoured` | violated |
| `pipeline` | 1 message, 2 deliveries, 2 works, 2 workers, skew 1, a fault of each part, 1 requeue, leases are kept; the works are interchangeable | `PipelineTypeOK`, `DedupWhileYoung`, `AckedIsKept`, `RetryNotBlocked`, `StartsAlone` | hold |
| `ingress_acked` | the ingress alone, 1 message, 3 deliveries, no faults | `AckedIsDurable` | violated |
| `events` | one offline message in 2 rows, 2 handlers, 1 fault, 2 times a dead letter put back, 1 change seen by the poller; the rows are interchangeable | `TypeOK`, `EffectsComplete`, `NoDoubleRaid`, `ImplementsEffects` | hold |
| `events_heal` | an online and an offline, throttle 1, 1 fault, 1 change, fair | `LiveStateConverges` | hold |
| `events_offline` | one offline, no faults, real limits | `OfflineComplete` | violated |
| `deploy` | 2 tickets, 3 merges, 2 services, 3 artifacts, 1 fault, fair | `TypeOK`, `DeployedIsLive`, `NoSpareMessages`, `RunningIsAttended`, `BuildIsItsCommit`, `RestartsSuffice`, `SuccessRuns`, `ImplementsDesk`, `CompactFirst`, `EveryTicketTold` | hold |
| `deploy_not_live` | 1 ticket, no faults | `FailedIsNotLive` | violated |
| `raids` | 1 source, a partner and a stranger, 2 raids, 2 tasks, 1 trouble, blacklist limit 2 | `TypeOK`, `ConfirmedOncePerStore`, `BlacklistEarned`, `ArrivalsLanded`, `TrackedOrWorking`, `AutoRaidYields` | hold |
| `hub` | 3 requests, room for 1 record, 2 attempts, 1 restart, fair | `TypeOK`, `OncePerKey`, `AnswerIsOurs`, `NothingLeaks`, `RoleOnce`, `EverybodyLeaves` | hold |

Why the bounds are enough. Two works are the least for which the rest of a batch waits
behind its first work, and two workers the least that can contend. A lease or a retry
delay of one or two units already lets every order of their ends occur. In the pipeline
two deliveries overlap, or the second comes after the first failed, was cut off, or let
its guard expire; there is a work for each row they may write. The ingress and the inbox
have a fault each. With one attempt a work that fails is a dead letter at once, and
comes back from there; retries before that are the subject of `inbox_timely`. The events
that come from one message in two rows have one attempt each and are put back from the
dead letters twice, so that a row is handled up to three times; whether it waited as a
retry or as a dead letter makes no difference to the handlers. Larger instances, with
two attempts and a requeue and with two changes for the poller, a longer throttle and no
requeue, take too long to be repeated every time and were checked once. One fault is one
crash or lost write at any step of any actor, which is what the code claims to survive;
it also ends runs in which a process dies for ever, without which no liveness could
hold. The two tickets of the deploy queue are in one batch or in two, with one commit
that is on main before the other; the first of them is urgent. The first commit changes
the bot's binary and a script of the dashboard, the second nothing, the third reverts
the script: so one binary is built and one carried, one service is restarted for a build
and one for a path, a failed switch of the first commit is followed by a batch that
resumes its frozen build or, for a later commit, carries from it or from its parent, a
batch can find nothing to deploy, and the release of the third commit can be switched
and put back after a ticket was deployed with an earlier one, for good. A compaction
times out at once; with one minute more there are more orders of the same steps. A
history of two commits in which the second reverts the first was checked with a minute
for the compaction as well. For raids, two raids are the least for which one supersedes
or is confirmed beside the other, and the least the blacklist limit of 2 asks for; two
tasks at a time are a signal that overtakes the other or the registration. Sources do
not share state other than a target's counters. For the hub, three requests are one that
executes, one that waits for it or queues behind it, and one that takes its place
afterwards or evicts its record; room for one record makes eviction happen. `Mixes`
enumerates the keys and payloads up to renaming, as a symmetry would.

### Disagreements between the code and what it says

* `inbox_parallel`: the comment on `lease_due` promises that no other worker
  takes a leased row. A batch is leased as a whole for 30 s, and a work that waits
  longer is leased again; then the late `mark_retry` of the first worker, which asks
  for nothing but the `work_id` (`inbox_store/mod.rs:167`), makes the row due while the
  second lease still runs, and it is leased a third time.
* `ingress_acked`: a redelivery is acknowledged as a duplicate while the first
  delivery can still fail, and then nobody delivers the message again.
* `events_offline`: the release of a failed effect's guard is meant for a retry,
  but the retry of a stream.offline is turned away by the throttle that its own
  first attempt claimed.
* `deploy_not_live`: the failure message says "is NOT live" for every failed
  batch, also for one that failed after the release had been switched.

Met while modelling, without a run of their own:

* The throttle is to keep stream.offline and the poller from raiding twice for one
  stream end. A tick asks Twitch (live), the stream ends, stream.offline claims the
  throttle, raids and stores offline; the tick then reads offline against its own live,
  takes that for a new stream, releases the throttle (`poller/engine.rs:577-587`) and
  stores live; the next tick sees the end again, claims and raids a second time, within
  the 120 s. `NoDoubleRaid` counts such releases (`reopened`); without that term it is
  violated in `events` by just this.
* Signals of a raid name source and target, not the flow. When a raid of a pair landed
  and the next one of the same pair was called off, a late chat notification of the
  first confirms the flow of the second, which then counts towards the recruitment
  blacklist (`signal_correlation.rs:528-648`, `raid_arrival_wiring.rs:999-1250`).
  `ArrivalsLanded` is therefore a statement about pairs.
* `raid_arrival_wiring.rs:81-84` says that a raid cannot be confirmed twice since
  its pending is removed. A second handler that copied the pending before the
  removal, and whose database lookup did not see the arrival yet, stores its copy
  back and confirms again: a second score and thank-you message. The recruitment
  count is safe, its rows are keyed by the flow (`BlacklistEarned`).
* `eventsub_hooks.rs:510` says that a target's unraid is noted on the pending. The
  note is made on a copy that is stored back; another handler's copy, stored later,
  overwrites it.
* The comment on `promote_stale_orphans` says that orphans which cannot be promoted
  are dropped after their retention (900 s); they are taken out with the others
  after the grace (15 s).
* Between the removal of a pending and the arrival row other signals of the same
  raid see neither: they may record an independent arrival as well, and mark the
  source as having raided by hand.
* After a switch that broke off in its restarts, the next batch of the same commit
  finds it live already and only runs `--pruefen` (`run.rs:163-165`). That compares
  executables: a dashboard that was not restarted for a new frontend or script is
  reported as `no_deploy_needed` ("already the live release").
* A wrapper left behind by a crash may switch after the next batch has read its
  parent. The plan is then made for another release than the one it replaces: with a
  reverted commit a service is not restarted. `--pruefen` finds it and the batch
  fails; a batch that found nothing to deploy does not wait for the wrapper's lock
  and may report success before the wrapper switches (`moved`).
* Such a wrapper's release is linked before it is verified
  (`install-twitch-release.sh:657`). A batch of the restarted daemon for the same commit
  reads the link without a lock (`run.rs:155`, `295`) and finds nothing to deploy; when
  the wrapper then puts the link back (`deploy-twitch-release:389-412`), `--pruefen`
  passes against the older release, and the tickets are told "already the live release"
  of a commit that is not live. `SuccessRuns` exempts this batch by `moved`.
* A frozen build that is resumed was made for the parent of its first attempt. It may
  hold a rebuilt binary that a service runs under an older stamp; `--pruefen` then
  fails although the code is the same.
* `rest/tests.rs:1033` tests that concurrent creations of one role with different
  keys create it once. With a creation that timed out while Discord still had it,
  the next one finds no role and creates a second; `RoleOnce` exempts these by name.

### Fairness

The inbox workers (`inbox_overrun`): the loop has no wait without a timeout, so
a worker that can take its next step takes it, provided that every handler
returns. Events (`events_heal`): the poller ticks for ever, a handler that began
goes on; whether a waiting row is ever handled is not needed. The hub (`hub`): a
task that can take its next step takes it, for its HTTP calls and its waits have
time limits; the role lock is tokio's, which is first come, first served; here each
request comes once, so weak fairness of taking it is enough. No fairness of Discord,
of clients or of expiry is assumed. The raids have no liveness property: nothing
in the code insists that an arrival is ever signalled, and a pending that nobody
confirms is removed by its age. Deploy queue
(`deploy`): the service manager restarts the daemon, its loop polls for ever, a
batch goes on, the wrapper ends. All of it is weak fairness, of steps that stay
possible until they are taken. Fairness is never assumed of faults, of Twitch,
of agents, or of the outcome of a step. In `deploy` the steps of a batch share
one fairness condition, so a batch may fail every time, and the property asks for
a message, whatever it says. `EveryTicketTold` is about the tickets that were submitted
by the time nothing more is.

## What is proved

`EventSubInboxProofs` proves, for any sets of works and workers and any limits
that satisfy the `ASSUME`s of `EventSubInbox`:

* `TypeCorrect`: the type invariant. The other proofs rest on it.
* `NothingLost` and `InOneTable`: `NoLostWork` and `OneTable` for every
  behaviour, overruns included, from the invariant `SafeInv`. It adds to the two
  properties that a worker only holds works that were submitted and that every
  row and dead letter was; without it a stale worker could dead-letter a work
  nobody ever enqueued.
* `ExclusiveLeases`, `DeadLettersEarned`, `AttemptsOnlyGrow`: under `Timely`,
  from the invariant `TimelyInv`: a work in hand still has its row, its remaining
  time until it is due is at least what is left of its holder's lease, that lease
  has not ended, the attempt number in memory is the one in the row, and the
  handler's errors are the attempts, or one more while the failure is being
  recorded. The remaining times are what makes it inductive: a row in hand is
  never due, so nobody leases it.
* `InboxIsWorkQueue`: under `Timely` every step of the inbox is a step of
  `WorkQueue` or leaves it unchanged.

`EventSubIngressProofs` proves, for any messages, deliveries and faults, and any
limits in which a guard lives no longer than the callback accepts a message
(both are 600 s in the code):

* `TypeCorrect`: the type invariant.
* `NoSecondRow`: `DedupWhileYoung`, from `DedupInv`: while a message is young, the
  life left to its guard and the message's age add up to at least the guard's
  life less the skew, as long as somebody relies on the guard. So the guard has
  not expired, at most one delivery is being routed, and none once a row is in;
  that is why the unconditional delete of a release hits its own guard.
* `CalmAckIsDurable` and `CalmRetryIsTaken`: `AckedUnlessTroubled` and
  `RetryNotBlocked`, from `CalmInv`: the deliveries come one at a time, and a
  guard stands for one that is being routed or for a row.

`EventPipelineProofs` proves, for any messages, deliveries, works, workers and limits
that satisfy the `ASSUME`s of both parts:

* `PipelineIsIngress` and `PipelineIsInbox`: every behaviour of the pipeline is one of
  `EventSubIngress` and one of `EventSubInbox`. What is proved of the parts holds in
  it: that is how `PipelineDedup`, `PipelineRetry` and, under `Timely`,
  `PipelineIsQueue` follow.
* `PipelineTypeCorrect`: the types of both, and `RowsInv`, which joins them: the works
  submitted for a message are as many as the ingress counts in `copies`.
* `AckedAreKept`: `AckedIsKept`, from `CalmAckIsDurable` (an acknowledged message that
  had no trouble has a row), `RowsInv` (so a work was submitted for it) and
  `NothingLost` (which is still somewhere). It does not need `Timely`: a message is
  kept also when leases run out.
* `HandlersStartAlone`: `StartsAlone` under `Timely`. A fresh message has one work
  (`NoSecondRow` with `RowsInv`), that work is in one hand at most and its row is
  there (`TimelyInv`), and a handler is only started by `NextWork` of the holder.

`StreamEventsProofs` proves, for any works of any types and messages, any number of
handlers, faults and polls:

* `TypeCorrect`: the type invariant, together with `WorksInv`: a running work has a
  waiting row, its attempts are below the limit, a work inside a guarded effect
  holds that effect's guard and is the only one inside it.
* `RowsAreAQueue`: the rows move as `WorkQueue` says.
* `AtMostOnce`: `EffectAtMostOnce`, from `DoneInv`: an effect that was completed once
  more than its guard lapsed has its guard, and nobody is inside it.
  Guards are only released by whoever is inside, and lapse only when nobody is.
* `EffectsAreGuarded`: `ImplementsEffects`. Every step takes up an effect, completes it,
  gives it back or forgets it, a crash loses those under way, and all others leave
  each effect as it is. That a step of one work moves no other effect needs that
  nobody else is inside the same one.
* `OneRaid`: `NoDoubleRaid`, from `RaidsInv`: the raids started in a window and the
  paths that have claimed it and may still start one are together at most one more than
  the times it was reopened, and no more than those times while it is not claimed.
* `AllEffects`: `EffectsComplete`, from `GuardsInv` (a guard stands for a completed
  effect, one under way or one that was lost) and `CompleteInv`: every effect a work
  has passed is completed or lost. An effect that was skipped because its guard was
  taken may still be under way in another work of the message, which is why
  `MessageOver` asks for all of them. The steps are sorted by what they do to a work
  (it arrives, starts, advances, claims, completes an effect, fails, leaves or comes
  back from the dead letters), and the invariants are shown for these eight cases.

`RaidArrivalsProofs` proves, for any sources, targets, partners and bounds:

* `TypeCorrect`: the type invariant, with the shape of tasks (which kind can be
  where) that makes it inductive.
* `OncePerStore`: `ConfirmedOncePerStore`, from `FlowInv`: the pending of a pair and
  every copy in a task's hands are a registered flow of that very pair.
* `OnlyLanded`: `ArrivalsLanded`, from `LandedInv`: everything an arrival can be
  concluded from (a signal under way, an orphan, a task beyond its first look)
  belongs to a pair of which a raid was executed. That a target's unraid stores its
  copy but does not confirm it is what carries it.
* `AutoYields`: `AutoRaidYields`, from `YieldInv`: noted sources are marked, and an
  auto-raid past its last look has none.
* `Earned`: `BlacklistEarned`, from `EarnedInv`: the rows of a target are the different
  flows recorded for it, each confirmed, and whoever is due has as many as the limit.
* `ArrivalsTracked`: `TrackedOrWorking`, from `TrackInv`: orphans and tasks beyond their
  look are of signalled pairs, and a registration that has yet to replay its orphan,
  or a task about to confirm on a partner, finds the pending in the store, unless
  the arrival is recorded or being written or a removal interfered (`Safe`).

`HubIdempotencyProofs` proves, for any requests, keys, payloads, capacity and number
of attempts and restarts:

* `TypeCorrect`: the type invariant, with `WriteInv`, which ties the stage of a task to
  what Discord has of it: a write that is still under way after its task is adrift.
* `NothingStaysHeld`: `NothingLeaks`, from `HoldInv`: a role creation past the queue has
  the lock, and an executing task has its reservation unless that expired.
* `AnsweredRight`: `AnswerIsOurs`, from `AnswerInv`: records are of ended tasks of their
  key, and whoever waits, waits for a task with its key and payload.
* `RoleCreatedOnce`: `RoleOnce`, from `RoleInv`: while a creation is past its look no
  other has been executed, apart from those adrift.
* `ExecutedOnce`: `OncePerKey`, from `CountInv`: the writes of a key that were executed
  or still may be are no more than the times it was forgotten, and one more if the
  store knows it.

`DeployQueueProofs` proves, for any tickets, any main and any number of faults:

* `TypeCorrect`: the type invariant.
* `RunsAttended`: `RunningIsAttended`, from `RunInv`: there is a batch only while
  the daemon that spawned it is up, and its tickets are running until they are
  recorded; between two attempts to record them, those that are done have the
  outcome the second attempt will write.
* `QueueIsDesk`: `ImplementsDesk`: every step of the queue is a step of `TicketDesk` or
  changes nothing the agents see. It rests on `RunInv`, on `OutcomeInv` (a ticket that
  is done has an outcome) and on `ReleaseInv` (a "deployed" is only recorded for a commit
  that is live, and no later release, nor one that is put back, is without it).
  `TellsTheRecord` below is a consequence of it, proved directly.
* `RejectedStayOff`: a ticket that its batch turned away is not live while the batch
  lasts, so its message is true: neither the batch nor a wrapper left behind can switch
  beyond the batch's target (`RejectedInv`).
* `TellsTheRecord` and `CompactsFirst`: `ToldIsFinal` and `CompactFirst`, from
  `ToldInv`: a thread that was told something has its ticket done, its compaction
  over and heard nothing but the recorded outcome. That the outcome does not
  change any more needs `RunInv`.
* `OneMessagePerFault`: `NoSpareMessages`, from `SendsInv`: each message was
  followed by a mark, is being marked, or cost one of the faults.
* `DeployedStaysLive`: `DeployedIsLive`, from `ReleaseInv`: whatever can still
  switch the `current` link, the batch or a wrapper left behind, switches it to a
  release that is not older than the live one, and what a failed verification puts back
  (`previous`) is not older than any commit on record as deployed. The first holds
  because a batch fetches its target after the earlier ones fetched theirs and the
  wrappers pass their lock in order; the second because a wrapper reads `previous`
  under the lock, after whatever deployed those commits.

`ReleasesProofs` proves, for any artifacts, services and history of their inputs:

* `ReleasesImplementQueue`: every behaviour of `Releases` is one of `DeployQueue`, so
  all theorems of `DeployQueueProofs` hold of it, and its type invariant is used here.
* `BuildsAreTheirCommits`: `BuildIsItsCommit`. What is carried was compiled from inputs
  equal to the target's, which is why the plan must compare with the origin and a
  build can be carried any number of times.
* `NoServiceLeftBehind`: `RestartsSuffice`, from `PlansCover` (a plan, of the batch or
  left behind, restarts every service for which its parent and its target differ) and
  `RunsLive` (up to versions, every service runs `previous`: the release that is kept,
  or put back if the linked one is not verified yet).
* `SuccessIsRunning`: `SuccessRuns`, from `CheckKnows`: a batch that deployed knows that
  its target is live and no wrapper is left; one that did not knows that the compiled
  artifacts of its parent and its target are the same and, unless a wrapper left behind
  `moved` the link, that its parent is live. It needs nothing of earlier
  switches: `PruefenPasses` establishes it.

The strengthened invariants were checked with TLC on the instances of the runs before
they were proved. Every invariant, action property and refinement of the runs that
hold is proved, for `deploy` by way of `ReleasesImplementQueue`. Some properties are
stated by theorems only, and no run repeats them: `ToldIsFinal` and
`EffectAtMostOnce`, which the refinements imply, `AckedUnlessTroubled`, from which
`AckedIsKept` follows, `RowsAreQueue` and `RejectedIsNotLive`. TLC found no violation
of them on the instances of the runs. Only model-checked: all liveness
(`SettlesWorks`, `LiveStateConverges`, `EverybodyLeaves`, `EveryTicketTold`), which is
beyond the proof system's reach.

## What is not modelled

`PROJECT.json` lists every component with its status. Within the modelled ones:
payloads, texts, signatures, telemetry and logging; the event types that are not
queued; announcements and sessions; of the raids, how a target is chosen, the
attempts over several targets, strikes against targets that refuse, scores, messages
and their bans; of the hub, the rate-limit buckets beyond "no room", the gateway
session and the reading actions; of a build plan, how the inputs of a package are
found; time inside a
database transaction; two deploy daemons; a dead-letter write that is repeated
after it was committed while an administrator requeues the same work. Numbers of
attempts and times are mathematical integers: the code keeps them far below the
limits of its types.

## Plan

Done: the inbox, the ingress, both joined to a pipeline, the handlers with the poller,
the deploy queue with its builds and restarts, the raids, the idempotent writes of the
hub, and the proofs of their safety. Left, in this order:

1. Discord hub: the rate-limit buckets (a bucket that is shared by routes is learnt
   from an answer while requests are under way) and the gateway session (identify,
   resume, heartbeat, reconnect).
2. The announcement of the poller and of stream.online with its cooldown guard
   (`claim_or_extend` in three statements), beside `StreamEvents`.
3. Token lifecycle and the shared refresh of the application token.
4. Subscriptions and sessions.
5. The leased queues of the social-media pipeline and the VOD archive, which are
   similar in kind to the inbox.
