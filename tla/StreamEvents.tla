--------------------------- MODULE StreamEvents ---------------------------
(***************************************************************************)
(* What the inbox worker does with the events of one broadcaster           *)
(* (handlers.rs), together with the poller that watches the same stream    *)
(* (poller/engine.rs).  The two meet in the guard table (guard.rs): an     *)
(* effect runs under a business-effect guard per message, and the handling *)
(* of a stream's end is throttled per broadcaster.                         *)
(*                                                                         *)
(* The inbox is what EventSubInbox shows it to be: a waiting work is       *)
(* handled again until it is delivered or has failed                       *)
(* INBOX_MAX_ATTEMPTS times, and a dead letter may be put back.  Two works *)
(* may stand for one message.  Business-effect guards live for 7 days and  *)
(* are kept as a set: one that nobody holds may lapse at any time.  The    *)
(* throttle is kept as its remaining time.                                 *)
(***************************************************************************)
EXTENDS Integers, FiniteSets, Sequences

CONSTANTS
    Works,                         \* inbox rows
    WorkType, WorkMessage,         \* their work_type and message_id
    MaxRunning,                    \* bound on handlers at work at a time
    INBOX_MAX_ATTEMPTS,
    OFFLINE_THROTTLE_TTL_SECONDS,
    MaxFaults,                     \* bound on crashes, failed guard writes and
                                   \* lapses of guards
    MaxRequeues,                   \* bound on dead letters put back
    MaxPolls                       \* bound on changes seen by the poller

Types == {"stream.online", "stream.offline", "channel.update", "channel.raid",
          "stream.online.followups"}

ASSUME EventsAssumption ==
    /\ WorkType \in [Works -> Types]
    /\ MaxRunning \in Nat \ {0}
    /\ INBOX_MAX_ATTEMPTS \in Nat \ {0}
    /\ OFFLINE_THROTTLE_TTL_SECONDS \in Nat \ {0}
    /\ MaxFaults \in Nat
    /\ MaxRequeues \in Nat
    /\ MaxPolls \in Nat

(* The steps of the handlers, in order.  "hook" steps cannot fail and keep *)
(* no state in here; "once" steps run under a business-effect guard.       *)
Hook(n) == [kind |-> "hook", name |-> n]
Once(n) == [kind |-> "once", name |-> n]

Steps(type) ==
    CASE type = "stream.online" ->
            << [kind |-> "apply_online",     name |-> "live_state"],
               [kind |-> "release_throttle", name |-> "offline_throttle"],
               Once("stream_online_session"),
               Once("stream_online_channel_info"),
               Once("stream_online_went_live"),
               Once("stream_online_refresh") >>
      [] type = "stream.offline" ->
            << Hook("engagement_auto_off"),
               [kind |-> "claim_throttle", name |-> "offline_throttle"],
               Hook("global_ban_sweep"),
               Once("stream_offline_state"),
               Hook("reannounce_cooldown"),
               Once("stream_offline_refresh"),
               Once("stream_offline_auto_raid") >>
      [] type = "channel.update" ->
            << Once("channel_update_db"), Once("channel_update_refresh") >>
      [] type = "channel.raid" ->
            << Once("channel_raid_arrival") >>
      [] type = "stream.online.followups" ->
            << Once("stream_online_went_live"), Once("stream_online_refresh") >>

(* The guarded effects whose body can return an error. *)
Fallible == {"stream_offline_state", "channel_update_db"}

(* The one that runs only with a channel lookup and no pending reconcile. *)
Optional == {"stream_online_channel_info"}

StepsOf(w) == Steps(WorkType[w])
Key(w, s)  == <<s.name, WorkMessage[w]>>
KeysOf(w)  == {Key(w, StepsOf(w)[i]) :
                 i \in {j \in DOMAIN StepsOf(w) : StepsOf(w)[j].kind = "once"}}
Keys == UNION {KeysOf(w) : w \in Works}

VARIABLES
    row,       \* state of an inbox row
    attempts,  \* its attempt_count
    at,        \* index of the running handler's next step, 0 if none runs
    body,      \* is that step's guarded effect being executed?
    guards,    \* keys of claimed business-effect guards
    throttle,  \* remaining life of the OfflineThrottle guard
    live,      \* twitch_live_state.is_live
    real,      \* is the stream live on Twitch?
    poll,      \* the poller's snapshot, while a tick is under way
    faults, requeues, polls,
    done,      \* history: how often a guarded effect was completed
    lapses,    \* history: how often the guard of a key lapsed
    lost,      \* history: keys whose guard outlived an unfinished effect
    passed,    \* history: works that won the throttle
    throttled, \* history: works that ended at the throttle
    holders,   \* history: claimants of the current throttle window that
               \* have not triggered an auto-raid
    raids,     \* history: auto-raids triggered in the current window
    reopened   \* history: how often a view of the stream from before its end
               \* released the throttle in that window

rowVars  == <<row, attempts, at, body>>
dbVars   == <<guards, throttle, live>>
bounds   == <<faults, requeues, polls>>
window   == <<holders, raids, reopened>>
history  == <<done, lapses, lost, passed, throttled, window>>
vars     == <<rowVars, dbVars, real, poll, bounds, history>>

NoPoll == [was |-> FALSE, is |-> FALSE, stage |-> "idle"]

Init ==
    /\ row = [w \in Works |-> "absent"]
    /\ attempts = [w \in Works |-> 0]
    /\ at = [w \in Works |-> 0]
    /\ body = [w \in Works |-> FALSE]
    /\ guards = {} /\ throttle = 0
    /\ real \in BOOLEAN /\ live = real
    /\ poll = NoPoll
    /\ faults = MaxFaults /\ requeues = MaxRequeues /\ polls = MaxPolls
    /\ done = [k \in Keys |-> 0] /\ lapses = [k \in Keys |-> 0]
    /\ lost = {} /\ passed = {} /\ throttled = {} /\ holders = {}
    /\ raids = 0 /\ reopened = 0

Running == {w \in Works : at[w] > 0}
AtStep(w) == at[w] \in DOMAIN StepsOf(w)
Step(w) == StepsOf(w)[at[w]]
UnderWay(k) == \E w \in Works : body[w] /\ Key(w, Step(w)) = k

-----------------------------------------------------------------------------
(* The inbox. *)

(* The dispatcher enqueues the work. *)
Arrive(w) ==
    /\ row[w] = "absent"
    /\ row' = [row EXCEPT ![w] = "waiting"]
    /\ UNCHANGED <<attempts, at, body, dbVars, real, poll, bounds, history>>

(* requeue_dead_letter: the row is back, with no attempt made. *)
Requeue(w) ==
    /\ requeues > 0 /\ requeues' = requeues - 1
    /\ row[w] = "dead"
    /\ row' = [row EXCEPT ![w] = "waiting"]
    /\ attempts' = [attempts EXCEPT ![w] = 0]
    /\ UNCHANGED <<at, body, dbVars, real, poll, faults, polls, history>>

(* InboxHandler::handle starts. *)
Begin(w) ==
    /\ row[w] = "waiting" /\ at[w] = 0
    /\ Cardinality(Running) < MaxRunning
    /\ at' = [at EXCEPT ![w] = 1]
    /\ UNCHANGED <<row, attempts, body, dbVars, real, poll, bounds, history>>

(* The handler returned Ok and the row is deleted. *)
Deliver(w) ==
    /\ at' = [at EXCEPT ![w] = 0]
    /\ row' = [row EXCEPT ![w] = "delivered"]
    /\ UNCHANGED attempts

(* Mutant of Fail: one attempt too many. *)
FailLate(w) ==
    /\ at' = [at EXCEPT ![w] = 0]
    /\ attempts' = [attempts EXCEPT ![w] = @ + 1]
    /\ row' = [row EXCEPT ![w] =
                 IF attempts[w] >= INBOX_MAX_ATTEMPTS THEN "dead" ELSE "waiting"]

(* The handler returned Err: another attempt or the dead letters. *)
Fail(w) ==
    /\ at' = [at EXCEPT ![w] = 0]
    /\ attempts' = [attempts EXCEPT ![w] = @ + 1]
    /\ row' = [row EXCEPT ![w] =
                 IF attempts[w] + 1 >= INBOX_MAX_ATTEMPTS THEN "dead" ELSE "waiting"]

(* The handler ran through all its steps. *)
Complete(w) ==
    /\ at[w] = Len(StepsOf(w)) + 1
    /\ Deliver(w)
    /\ UNCHANGED <<body, dbVars, real, poll, bounds, history>>

(* It did, and the deletion failed: the row comes back after its lease. *)
CompleteUnmarked(w) ==
    /\ at[w] = Len(StepsOf(w)) + 1
    /\ faults > 0 /\ faults' = faults - 1
    /\ at' = [at EXCEPT ![w] = 0]
    /\ UNCHANGED <<row, attempts, body, dbVars, real, poll, requeues, polls, history>>

-----------------------------------------------------------------------------
(* The handlers' steps. *)

StepDone(w) == at' = [at EXCEPT ![w] = @ + 1] /\ UNCHANGED <<row, attempts>>

RunHook(w) ==
    /\ AtStep(w) /\ Step(w).kind = "hook"
    /\ StepDone(w)
    /\ UNCHANGED <<body, dbVars, real, poll, bounds, history>>

(* live_state.apply_stream_online *)
ApplyOnline(w) ==
    /\ AtStep(w) /\ Step(w).kind = "apply_online"
    /\ live' = TRUE
    /\ StepDone(w)
    /\ UNCHANGED <<body, guards, throttle, real, poll, bounds, history>>

(* The window of the throttle is over: nothing later belongs to it. *)
CloseWindow == holders' = {} /\ raids' = 0 /\ reopened' = 0

(* The throttle is released because the stream started.  If it has ended   *)
(* since, the window stays that of its end, now open to another claim.     *)
Release ==
    /\ throttle' = 0
    /\ IF real THEN CloseWindow
       ELSE /\ reopened' = IF throttle > 0 THEN reopened + 1 ELSE reopened
            /\ UNCHANGED <<holders, raids>>

(* stream.online *)
ReleaseThrottle(w) ==
    /\ AtStep(w) /\ Step(w).kind = "release_throttle"
    /\ Release
    /\ StepDone(w)
    /\ UNCHANGED <<body, guards, live, real, poll, bounds, done, lapses, lost, passed, throttled>>

ClaimThrottle(c) ==
    /\ throttle = 0
    /\ throttle' = OFFLINE_THROTTLE_TTL_SECONDS
    /\ holders' = holders \cup {c}

(* stream.offline: the throttle is won ... *)
PassThrottle(w) ==
    /\ AtStep(w) /\ Step(w).kind = "claim_throttle"
    /\ ClaimThrottle(w)
    /\ passed' = passed \cup {w}
    /\ StepDone(w)
    /\ UNCHANGED <<body, guards, live, real, poll, bounds, done, lapses, lost, throttled,
                   raids, reopened>>

(* ... or still held, and the handler returns Ok. *)
Throttled(w) ==
    /\ AtStep(w) /\ Step(w).kind = "claim_throttle"
    /\ throttle > 0
    /\ Deliver(w)
    /\ throttled' = throttled \cup {w}
    /\ UNCHANGED <<body, dbVars, real, poll, bounds, done, lapses, lost, passed, window>>

(* Reading or writing the guard or the live state fails in the database.   *)
StepFails(w) ==
    /\ AtStep(w) /\ ~body[w]
    /\ Step(w).kind # "hook"
    /\ Fail(w)
    /\ UNCHANGED <<body, dbVars, real, poll, bounds, history>>

(* Mutant of ClaimEffect: it does not matter who has the guard. *)
ClaimEffectAgain(w) ==
    /\ AtStep(w) /\ ~body[w] /\ Step(w).kind = "once"
    /\ guards' = guards \cup {Key(w, Step(w))}
    /\ body' = [body EXCEPT ![w] = TRUE]
    /\ UNCHANGED <<row, attempts, at, throttle, live, real, poll, bounds, history>>

(* run_business_effect_once: the guard is won and the effect begins, *)
ClaimEffect(w) ==
    /\ AtStep(w) /\ ~body[w] /\ Step(w).kind = "once"
    /\ Key(w, Step(w)) \notin guards
    /\ guards' = guards \cup {Key(w, Step(w))}
    /\ body' = [body EXCEPT ![w] = TRUE]
    /\ UNCHANGED <<row, attempts, at, throttle, live, real, poll, bounds, history>>

(* or another work or attempt has it, and the effect is skipped;           *)
SkipEffect(w) ==
    /\ AtStep(w) /\ ~body[w] /\ Step(w).kind = "once"
    /\ Key(w, Step(w)) \in guards \/ Step(w).name \in Optional
    /\ StepDone(w)
    /\ UNCHANGED <<body, dbVars, real, poll, bounds, history>>

(* An auto-raid counts for the throttle window its claimant won. *)
TriggerRaid(c) ==
    /\ holders' = holders \ {c}
    /\ raids' = IF c \in holders THEN raids + 1 ELSE raids

(* the effect succeeds;                                                    *)
EffectOk(w) ==
    /\ body[w]
    /\ done' = [done EXCEPT ![Key(w, Step(w))] = @ + 1]
    /\ live' = IF Step(w).name = "stream_offline_state" THEN FALSE ELSE live
    /\ IF Step(w).name = "stream_offline_auto_raid"
       THEN TriggerRaid(w)
       ELSE UNCHANGED <<holders, raids>>
    /\ body' = [body EXCEPT ![w] = FALSE]
    /\ StepDone(w)
    /\ UNCHANGED <<guards, throttle, real, poll, bounds, lapses, lost, passed, throttled, reopened>>

(* Mutant of EffectErr: the guard is not released. *)
EffectErrKeeps(w) ==
    /\ body[w]
    /\ Step(w).name \in Fallible
    /\ body' = [body EXCEPT ![w] = FALSE]
    /\ Fail(w)
    /\ UNCHANGED <<dbVars, real, poll, bounds, history>>

(* the effect fails, its guard is released and the handler returns Err;    *)
EffectErr(w) ==
    /\ body[w]
    /\ Step(w).name \in Fallible
    /\ guards' = guards \ {Key(w, Step(w))}
    /\ body' = [body EXCEPT ![w] = FALSE]
    /\ Fail(w)
    /\ UNCHANGED <<throttle, live, real, poll, bounds, history>>

(* the same, and the release fails too, which is only logged; or the       *)
(* effect panics, which the inbox worker takes for an Err.                 *)
EffectErrUnreleased(w) ==
    /\ body[w]
    /\ faults > 0 /\ faults' = faults - 1
    /\ lost' = lost \cup {Key(w, Step(w))}
    /\ body' = [body EXCEPT ![w] = FALSE]
    /\ Fail(w)
    /\ UNCHANGED <<dbVars, real, poll, requeues, polls, done, lapses, passed, throttled, window>>

-----------------------------------------------------------------------------
(* The poller and the world. *)

(* The stream starts or ends. *)
StreamChanges ==
    /\ polls > 0 /\ polls' = polls - 1
    /\ real' = ~real
    /\ UNCHANGED <<rowVars, dbVars, poll, faults, requeues, history>>

(* A tick asks Twitch first ... *)
PollAsk ==
    /\ poll.stage = "idle"
    /\ poll' = [poll EXCEPT !.is = real, !.stage = "asked"]
    /\ UNCHANGED <<rowVars, dbVars, real, bounds, history>>

(* ... and then loads the stored state. *)
PollRead ==
    /\ poll.stage = "asked"
    /\ poll' = [poll EXCEPT !.was = live, !.stage = "read"]
    /\ UNCHANGED <<rowVars, dbVars, real, bounds, history>>

(* Mutant of PollRaid: the throttle is not asked. *)
PollRaidAnyway ==
    /\ poll.stage = "read" /\ poll.was /\ ~poll.is
    /\ poll' = [poll EXCEPT !.stage = "persist"]
    /\ raids' = raids + 1
    /\ UNCHANGED <<rowVars, dbVars, real, bounds, done, lapses, lost, passed, throttled,
                   holders, reopened>>

(* maybe_trigger_poll_offline_raid on an end that this tick discovered. *)
PollRaid ==
    /\ poll.stage = "read" /\ poll.was /\ ~poll.is
    /\ poll' = [poll EXCEPT !.stage = "persist"]
    /\ IF throttle = 0
       THEN /\ throttle' = OFFLINE_THROTTLE_TTL_SECONDS
            /\ raids' = raids + 1
       ELSE UNCHANGED <<throttle, raids>>
    /\ UNCHANGED <<rowVars, guards, live, real, bounds, done, lapses, lost, passed, throttled,
                   holders, reopened>>

(* The tick takes the stream to have started and releases the throttle,    *)
(* whatever became of the stream since Twitch was asked.                   *)
PollGoesLive ==
    /\ poll.stage = "read" /\ ~poll.was /\ poll.is
    /\ poll' = [poll EXCEPT !.stage = "persist"]
    /\ Release
    /\ UNCHANGED <<rowVars, guards, live, real, bounds, done, lapses, lost, passed, throttled>>

(* No change was discovered, the streamer is no partner, or the claim or   *)
(* the release failed.                                                     *)
PollNoRaid ==
    /\ poll.stage = "read"
    /\ poll' = [poll EXCEPT !.stage = "persist"]
    /\ UNCHANGED <<rowVars, dbVars, real, bounds, history>>

(* Mutant of PollPersist: only live streams get a row. *)
PollPersistLive ==
    /\ poll.stage = "persist"
    /\ live' = (live \/ poll.is)
    /\ poll' = NoPoll
    /\ UNCHANGED <<rowVars, guards, throttle, real, bounds, history>>

(* live_state.persist writes what the tick saw over what is there now. *)
PollPersist ==
    /\ poll.stage = "persist"
    /\ live' = poll.is
    /\ poll' = NoPoll
    /\ UNCHANGED <<rowVars, guards, throttle, real, bounds, history>>

(* The stored state cannot be loaded or not be written, which is logged.   *)
PollFails ==
    /\ poll.stage \in {"asked", "persist"}
    /\ faults > 0 /\ faults' = faults - 1
    /\ poll' = NoPoll
    /\ UNCHANGED <<rowVars, dbVars, real, requeues, polls, history>>

(* The process dies: handlers and the poller's tick are gone, the tables   *)
(* stay, and so do the guards of unfinished effects.                       *)
Crash ==
    /\ faults > 0 /\ faults' = faults - 1
    /\ lost' = lost \cup {Key(w, Step(w)) : w \in {v \in Works : body[v]}}
    /\ at' = [w \in Works |-> 0]
    /\ body' = [w \in Works |-> FALSE]
    /\ poll' = NoPoll
    /\ UNCHANGED <<row, attempts, dbVars, real, requeues, polls, done, lapses, passed, throttled, window>>

(* The guard of an effect that nobody is at work on is 7 days old. *)
Lapse(k) ==
    /\ faults > 0 /\ faults' = faults - 1
    /\ k \in guards /\ ~UnderWay(k)
    /\ guards' = guards \ {k}
    /\ lapses' = [lapses EXCEPT ![k] = @ + 1]
    /\ UNCHANGED <<rowVars, throttle, live, real, poll, requeues, polls, done, lost,
                   passed, throttled, window>>

Tick ==
    /\ throttle > 0
    /\ throttle' = throttle - 1
    /\ IF throttle = 1 THEN CloseWindow ELSE UNCHANGED window
    /\ UNCHANGED <<rowVars, guards, live, real, poll, bounds, done, lapses, lost, passed, throttled>>

Handle(w) ==
    \/ Begin(w) \/ Complete(w) \/ RunHook(w)
    \/ ApplyOnline(w) \/ ReleaseThrottle(w)
    \/ PassThrottle(w) \/ Throttled(w) \/ StepFails(w)
    \/ ClaimEffect(w) \/ SkipEffect(w) \/ EffectOk(w) \/ EffectErr(w)

Poll == PollAsk \/ PollRead \/ PollRaid \/ PollGoesLive \/ PollNoRaid \/ PollPersist

Next ==
    \/ \E w \in Works :
        \/ Arrive(w) \/ Requeue(w) \/ Handle(w)
        \/ CompleteUnmarked(w) \/ EffectErrUnreleased(w)
    \/ \E k \in Keys : Lapse(k)
    \/ Poll \/ PollFails \/ StreamChanges \/ Crash \/ Tick

Spec == Init /\ [][Next]_vars

(* The poller ticks for ever and a handler that began goes on. *)
Fairness == WF_vars(Poll) /\ WF_vars(Tick) /\ \A w \in Works : WF_vars(Handle(w))

FairSpec == Spec /\ Fairness

-----------------------------------------------------------------------------
(* Properties. *)

(* Every variable keeps its type. *)
TypeOK ==
    /\ row \in [Works -> {"absent", "waiting", "delivered", "dead"}]
    /\ attempts \in [Works -> 0 .. INBOX_MAX_ATTEMPTS]
    /\ at \in [Works -> Nat]
    /\ \A w \in Works : at[w] <= Len(StepsOf(w)) + 1
    /\ body \in [Works -> BOOLEAN]
    /\ guards \subseteq Keys /\ lost \subseteq Keys
    /\ throttle \in 0 .. OFFLINE_THROTTLE_TTL_SECONDS
    /\ live \in BOOLEAN /\ real \in BOOLEAN
    /\ poll \in [was : BOOLEAN, is : BOOLEAN, stage : {"idle", "asked", "read", "persist"}]
    /\ faults \in Nat /\ requeues \in Nat /\ polls \in Nat
    /\ raids \in Nat /\ reopened \in Nat
    /\ done \in [Keys -> Nat] /\ lapses \in [Keys -> Nat]
    /\ passed \cup throttled \cup holders \subseteq Works

(* No guarded effect is completed twice for a message, however often the   *)
(* message is handled: duplicate rows side by side, retries, rows that     *)
(* come back after a lost deletion or from the dead letters, crashes - but *)
(* once more for each time its guard was too old.                          *)
EffectAtMostOnce == \A k \in Keys : done[k] <= 1 + lapses[k]

(* The effects as GuardedEffects sees them.  Every step is one of its      *)
(* steps: an effect is under way in one handler at a time, also when two   *)
(* rows of a message are handled side by side; a retry takes up only what  *)
(* failed and was given back, never what was completed or lost, unless the *)
(* guard has lapsed.                                                       *)
EffectOf(k) == IF UnderWay(k) THEN "running"
               ELSE IF k \in guards THEN "closed" ELSE "free"

Effect == [k \in Keys |-> EffectOf(k)]

Guarded == INSTANCE GuardedEffects WITH effect <- Effect, times <- done

ImplementsEffects == Guarded!Spec

(* The rows are a queue as the inbox promises it (WorkQueue).              *)
RowStatus == [w \in Works |-> IF row[w] = "waiting" THEN "pending" ELSE row[w]]

Queue == INSTANCE WorkQueue WITH status <- RowStatus

RowsAreQueue == Queue!Spec

(* The works of w's message are all delivered, as far as they arrived. *)
MessageOver(w) ==
    /\ row[w] = "delivered"
    /\ \A v \in Works :
         WorkMessage[v] = WorkMessage[w] => row[v] \in {"absent", "delivered"}

EffectsDone(w) ==
    \A k \in KeysOf(w) : k[1] \in Optional \/ done[k] > 0 \/ k \in lost

(* A message whose works are all delivered has had all its effects, except *)
(* when the throttle sent one of its works home and for effects whose      *)
(* guard outlived them in a crash or a failed release.                     *)
EffectsComplete ==
    \A w \in Works :
        MessageOver(w) =>
            \/ \E v \in throttled : WorkMessage[v] = WorkMessage[w]
            \/ EffectsDone(w)

(* handlers.rs: effects run "exactly-once pro Message (..., Release bei    *)
(* Fehler)": a work that got past the throttle and is delivered has had    *)
(* its effects, too.                                                       *)
OfflineComplete ==
    \A w \in passed : MessageOver(w) => EffectsDone(w)

(* The throttle keeps the two paths that see a stream end from triggering  *)
(* two auto-raids in one window.  A second raid takes a release in between *)
(* by someone who still saw the stream live: a tick that asked Twitch      *)
(* before the end, or a late stream.online.  It is one more per release,   *)
(* however many works claim the throttle and whoever of them crashes.      *)
NoDoubleRaid == raids <= 1 + reopened

(* The poller heals what late or lost events did to the stored state: once *)
(* the stream stays as it is, so does twitch_live_state, and they agree.   *)
LiveStateConverges == <>[](live = real)
=============================================================================
