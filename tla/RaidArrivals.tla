--------------------------- MODULE RaidArrivals ---------------------------
(***************************************************************************)
(* How the raids the bot sends, and those streamers send themselves, are   *)
(* followed to their arrival (tb-raid; wiring in tb-bot's                  *)
(* raid_arrival_wiring.rs, eventsub_hooks.rs, auto_raid.rs).               *)
(*                                                                         *)
(* A pipeline run starts a raid on Twitch and registers it as pending.     *)
(* The arrival is signalled by channel.raid and by a chat notification,    *)
(* each handled by a task of its own: it looks up the pending raid, waits  *)
(* for the database, and acts on the copy it read.  Meanwhile pendings are *)
(* swept, superseded and cancelled, and another signal may be confirming   *)
(* the same raid.  Pendings, orphaned chat notifications and the           *)
(* suppression of auto-raids live in memory; arrival rows and what counts  *)
(* towards the recruitment blacklist live in the database.                 *)
(*                                                                         *)
(* Ages are abstract: an orphan may be past its grace, a pending past its  *)
(* timeout, an arrival past its 600 s and a mark past its 180 s whenever a *)
(* step asks for it.                                                       *)
(***************************************************************************)
EXTENDS Integers, FiniteSets

CONSTANTS
    Sources,      \* raiding broadcasters
    Targets,      \* raided broadcasters
    Partners,     \* those of them that are partners
    EXTERNAL_RECRUITMENT_RAID_LIMIT,
    MaxTasks,     \* bound on tasks under way at a time
    MaxRaids,     \* bound on raids started on Twitch
    MaxTroubles   \* bound on restarts, failed calls, sweeps, raids called off

ASSUME RaidsAssumption ==
    /\ Sources # {} /\ Targets # {} /\ Partners \subseteq Targets
    /\ EXTERNAL_RECRUITMENT_RAID_LIMIT \in Nat \ {0}
    /\ MaxTasks \in Nat
    /\ MaxRaids \in Nat
    /\ MaxTroubles \in Nat

Pairs   == Sources \X Targets
Flows   == 1..MaxRaids
Signals == {"raid", "chat", "unraid"}
Runs    == {"auto", "manual"}
Actors  == (Signals \cup Runs) \X Sources   \* one task of a kind and source

VARIABLES
    pending,    \* PendingRaidStore: flow of the pending of a pair, or 0
    orphans,    \* pairs with a chat notification that found no pending
    promoting,  \* orphans the sweeper has taken out and is recording
    marks,      \* ManualRaidSuppression: sources whose auto-raid is off
    act,        \* the tasks: where each is, for which target and flow
    arrivals,   \* pairs with a row in the arrival table
    external,   \* flows in twitch_confirmed_external_recruitment_raids
    rows,       \* number of those rows per target
    due,        \* targets awaiting the recruitment blacklist
    blacklist,  \* targets on it
    countdown,  \* raids Twitch is about to execute
    inbound,    \* signals Twitch has yet to deliver
    started, troubles,
    pairOf,     \* history: the pair a flow was registered for
    flows,      \* history: number of flows registered
    landed,     \* history: pairs of executed raids
    confirms,   \* history: how often a flow was taken for confirmation
    revived,    \* history: how often a copy of it was stored anew
    heard,      \* history: pairs an arrival was signalled for
    excused,    \* history: heard pairs hit by a removal, a fault, a restart
    noted       \* history: sources marked before their auto-raid's last check

memory   == <<pending, orphans, promoting, marks>>
database == <<arrivals, external, rows, due, blacklist>>
twitch   == <<countdown, inbound, started>>
history  == <<pairOf, flows, landed, confirms, revived, heard, excused, noted>>
vars     == <<memory, act, database, twitch, troubles, history>>

Stages == {"idle", "grace", "run", "register", "replay", "finish", "look", "store",
           "confirm", "write", "orphan", "independent", "mark"}
Tasks  == [at : Stages, to : Targets, flow : 0..MaxRaids]

Idle(a) == [at |-> "idle", to |-> CHOOSE t \in Targets : TRUE, flow |-> 0]

Init ==
    /\ pending = [p \in Pairs |-> 0]
    /\ orphans = {} /\ promoting = {} /\ marks = {}
    /\ act = [a \in Actors |-> Idle(a)]
    /\ arrivals = {} /\ external = {} /\ rows = [t \in Targets |-> 0]
    /\ due = {} /\ blacklist = {}
    /\ countdown = {} /\ inbound = {} /\ started = 0
    /\ troubles = MaxTroubles
    /\ pairOf = [f \in Flows |-> CHOOSE p \in Pairs : TRUE]
    /\ flows = 0 /\ landed = {}
    /\ confirms = [f \in Flows |-> 0] /\ revived = [f \in Flows |-> 0]
    /\ heard = {} /\ excused = {} /\ noted = {}

Trouble    == troubles > 0 /\ troubles' = troubles - 1
Pair(a)    == <<a[2], act[a].to>>
At(a, st)  == act[a].at = st
Goes(a, st) == act' = [act EXCEPT ![a].at = st]
Ends(a)    == act' = [act EXCEPT ![a] = Idle(a)]
Room       == Cardinality({a \in Actors : act[a].at # "idle"}) < MaxTasks

(* A pair that is heard of, or being registered, is excused from being     *)
(* tracked when something removes what the tracking rests on.              *)
Registering == {Pair(a) : a \in {b \in Actors : At(b, "replay")}}
Excuse(P) == excused' = excused \cup (P \cap (heard \cup Registering))

(* ManualRaidSuppression::mark. *)
Mark(s) ==
    /\ marks' = marks \cup {s}
    /\ noted' = IF act[<<"auto", s>>].at \in {"idle", "grace"}
                THEN noted \cup {s} ELSE noted

-----------------------------------------------------------------------------
(* Twitch, and the streamers. *)

(* A streamer raids without the bot; channel.moderate tells of it, which   *)
(* OutgoingRaidObserver::handle answers with a mark.                       *)
OwnRaid(p) ==
    /\ started < MaxRaids
    /\ started' = started + 1 /\ countdown' = countdown \cup {p}
    /\ UNCHANGED <<memory, act, database, inbound, troubles, history>>

ObserveOwnRaid(p) ==
    /\ p \in countdown /\ p[1] \notin marks
    /\ Mark(p[1])
    /\ UNCHANGED <<pending, orphans, promoting, act, database, twitch, troubles,
                   pairOf, flows, landed, confirms, revived, heard, excused>>

(* The raid is executed and both signals are on their way. *)
Land(p) ==
    /\ p \in countdown
    /\ countdown' = countdown \ {p} /\ landed' = landed \cup {p}
    /\ inbound' = inbound \cup {<<"raid", p>>, <<"chat", p>>}
    /\ UNCHANGED <<memory, act, database, started, troubles, pairOf, flows,
                   confirms, revived, heard, excused, noted>>

(* The streamer calls it off: the target's chat is told, and the source's. *)
CallOff(p) ==
    /\ p \in countdown /\ Trouble
    /\ countdown' = countdown \ {p}
    /\ inbound' = inbound \cup {<<"unraid", p>>, <<"self", p>>}
    /\ UNCHANGED <<memory, act, database, started, history>>

-----------------------------------------------------------------------------
(* The pipeline runs. *)

(* handle_streamer_offline: first look at the marks. *)
Offline(s) ==
    /\ At(<<"auto", s>>, "idle") /\ Room /\ s \notin marks
    /\ Goes(<<"auto", s>>, "grace")
    /\ UNCHANGED <<memory, database, twitch, troubles, history>>

(* Mutant of GraceOver: the marks are not looked at again. *)
GraceOverUnchecked(s) ==
    /\ At(<<"auto", s>>, "grace")
    /\ Goes(<<"auto", s>>, "run")
    /\ UNCHANGED <<memory, database, twitch, troubles, history>>

(* manual_raid_won_the_race, at the end of the grace. *)
GraceOver(s) ==
    /\ At(<<"auto", s>>, "grace")
    /\ IF s \in marks THEN Ends(<<"auto", s>>) ELSE Goes(<<"auto", s>>, "run")
    /\ UNCHANGED <<memory, database, twitch, troubles, history>>

(* !raid: no look at the marks. *)
ManualRaid(s) ==
    /\ At(<<"manual", s>>, "idle") /\ Room
    /\ Goes(<<"manual", s>>, "run")
    /\ UNCHANGED <<memory, database, twitch, troubles, history>>

(* The run ends without a raid: no target, refused, blocked. *)
NoRaid(a) ==
    /\ a[1] \in Runs /\ At(a, "run")
    /\ Ends(a)
    /\ UNCHANGED <<memory, database, twitch, troubles, history>>

(* Twitch accepts the raid.  When the answer is lost the executor reports  *)
(* a failure that is not retried, and nothing is registered.               *)
StartRaid(a, t) ==
    /\ a[1] \in Runs /\ At(a, "run")
    /\ started < MaxRaids
    /\ started' = started + 1 /\ countdown' = countdown \cup {<<a[2], t>>}
    /\ \/ act' = [act EXCEPT ![a].at = "register", ![a].to = t] /\ UNCHANGED troubles
       \/ Trouble /\ Ends(a)
    /\ UNCHANGED <<memory, database, inbound, history>>

(* register_pending, up to the replay: one critical section. *)
Superseded(p) == {q \in Pairs : q[1] = p[1] /\ q[2] # p[2] /\ pending[q] # 0}

Register(a) ==
    /\ a[1] \in Runs /\ At(a, "register")
    /\ flows < MaxRaids
    /\ flows' = flows + 1
    /\ pairOf' = [pairOf EXCEPT ![flows + 1] = Pair(a)]
    /\ pending' = [q \in Pairs |-> IF q = Pair(a) THEN flows + 1
                                   ELSE IF q \in Superseded(Pair(a)) THEN 0
                                   ELSE pending[q]]
    /\ Excuse(Superseded(Pair(a)))
    /\ Goes(a, "replay")
    /\ UNCHANGED <<orphans, promoting, marks, database, twitch, troubles, landed,
                   confirms, revived, heard, noted>>

(* Mutant of Replay: the orphan is taken out and not replayed. *)
ReplayForgets(a) ==
    /\ a[1] \in Runs /\ At(a, "replay")
    /\ orphans' = orphans \ {Pair(a)}
    /\ Goes(a, "finish")
    /\ UNCHANGED <<pending, promoting, marks, database, twitch, troubles, history>>

(* pop_orphan: an earlier chat notification confirms the pending at once. *)
Replay(a) ==
    /\ a[1] \in Runs /\ At(a, "replay")
    /\ orphans' = orphans \ {Pair(a)}
    /\ Goes(a, IF Pair(a) \in orphans THEN "confirm" ELSE "finish")
    /\ UNCHANGED <<pending, promoting, marks, database, twitch, troubles, history>>

(* run_manual_pipeline marks its source once the pipeline has returned. *)
Finish(a) ==
    /\ a[1] \in Runs /\ At(a, "finish")
    /\ Ends(a)
    /\ IF a[1] = "manual" THEN Mark(a[2]) ELSE UNCHANGED <<marks, noted>>
    /\ UNCHANGED <<pending, orphans, promoting, database, twitch, troubles, pairOf,
                   flows, landed, confirms, revived, heard, excused>>

-----------------------------------------------------------------------------
(* The signal handlers. *)

(* A handler starts and copies the pending of its pair under the lock. *)
Hear(a, t) ==
    /\ a[1] \in Signals /\ At(a, "idle") /\ Room
    /\ <<a[1], <<a[2], t>>>> \in inbound
    /\ inbound' = inbound \ {<<a[1], <<a[2], t>>>>}
    /\ act' = [act EXCEPT ![a] = [at |-> "look", to |-> t, flow |-> pending[<<a[2], t>>]]]
    /\ heard' = IF a[1] = "unraid" THEN heard ELSE heard \cup {<<a[2], t>>}
    /\ UNCHANGED <<memory, database, countdown, started, troubles, pairOf, flows,
                   landed, confirms, revived, excused, noted>>

(* The plan, once the recent arrival has been looked up (recent): see      *)
(* plan_raid_arrival, plan_chat_notification and plan_chat_unraid.  A      *)
(* secondary signal only extends the arrival's list of signals.            *)
Plan(kind, t, flow, recent) ==
    IF recent THEN "idle"
    ELSE IF flow # 0 THEN "store"
    ELSE IF kind = "chat" THEN "orphan"
    ELSE IF kind = "raid" /\ t \in Partners THEN "independent"
    ELSE "idle"

(* recent_arrival_present: a failed lookup counts as no, and so does an    *)
(* arrival that is too old.                                                *)
Recall(a) ==
    /\ a[1] \in Signals /\ At(a, "look")
    /\ \E recent \in BOOLEAN :
         /\ \/ recent = (Pair(a) \in arrivals) /\ UNCHANGED troubles
            \/ ~recent /\ Trouble
         /\ LET st == Plan(a[1], act[a].to, act[a].flow, recent)
            IN  IF st = "idle" THEN Ends(a) ELSE Goes(a, st)
    /\ UNCHANGED <<memory, database, twitch, history>>

(* Mutant of StorePending: a target's unraid confirms as well. *)
StorePendingUnraid(a) ==
    /\ a[1] \in Signals /\ At(a, "store")
    /\ pending' = [pending EXCEPT ![Pair(a)] = act[a].flow]
    /\ revived' = [revived EXCEPT ![act[a].flow] =
                     IF pending[Pair(a)] = act[a].flow THEN @ ELSE @ + 1]
    /\ Goes(a, "confirm")
    /\ UNCHANGED <<orphans, promoting, marks, database, twitch, troubles, pairOf,
                   flows, landed, confirms, heard, excused, noted>>

(* StorePendingRaid puts the copy back, whatever became of the pending.  A *)
(* target's unraid ends here.                                              *)
StorePending(a) ==
    /\ a[1] \in Signals /\ At(a, "store")
    /\ pending' = [pending EXCEPT ![Pair(a)] = act[a].flow]
    /\ revived' = [revived EXCEPT ![act[a].flow] =
                     IF pending[Pair(a)] = act[a].flow THEN @ ELSE @ + 1]
    /\ IF a[1] = "unraid" THEN Ends(a) ELSE Goes(a, "confirm")
    /\ UNCHANGED <<orphans, promoting, marks, database, twitch, troubles, pairOf,
                   flows, landed, confirms, heard, excused, noted>>

(* The task is done with the confirmation. *)
Returns(a) == IF a[1] \in Runs THEN Goes(a, "finish") ELSE Ends(a)

(* Mutant of Confirm: the pending is looked up but stays in the store. *)
ConfirmKeepsPending(a) ==
    /\ At(a, "confirm")
    /\ orphans' = orphans \ {Pair(a)}
    /\ LET f == pending[Pair(a)]
       IN  IF f = 0
           THEN Returns(a) /\ UNCHANGED confirms
           ELSE /\ confirms' = [confirms EXCEPT ![f] = @ + 1]
                /\ act' = [act EXCEPT ![a].at = "write", ![a].flow = f]
    /\ UNCHANGED <<pending, promoting, marks, database, twitch, troubles, pairOf,
                   flows, landed, revived, heard, excused, noted>>

(* Mutant of Confirm: goes on although the pending is gone. *)
ConfirmWithoutPending(a) ==
    /\ At(a, "confirm")
    /\ orphans' = orphans \ {Pair(a)}
    /\ pending' = [pending EXCEPT ![Pair(a)] = 0]
    /\ confirms' = [confirms EXCEPT ![pending[Pair(a)]] = @ + 1]
    /\ act' = [act EXCEPT ![a].at = "write", ![a].flow = pending[Pair(a)]]
    /\ UNCHANGED <<promoting, marks, database, twitch, troubles, pairOf, flows,
                   landed, revived, heard, excused, noted>>

(* confirm_pending_raid: the orphan and the pending are taken out; without *)
(* a pending it returns.                                                   *)
Confirm(a) ==
    /\ At(a, "confirm")
    /\ orphans' = orphans \ {Pair(a)}
    /\ LET f == pending[Pair(a)]
       IN  IF f = 0
           THEN Returns(a) /\ UNCHANGED <<pending, confirms>>
           ELSE /\ pending' = [pending EXCEPT ![Pair(a)] = 0]
                /\ confirms' = [confirms EXCEPT ![f] = @ + 1]
                /\ act' = [act EXCEPT ![a].at = "write", ![a].flow = f]
    /\ UNCHANGED <<promoting, marks, database, twitch, troubles, pairOf, flows,
                   landed, revived, heard, excused, noted>>

(* record_arrival; a failure is logged and the task goes on. *)
RecordArrival(p) == arrivals' = arrivals \cup {p} /\ UNCHANGED <<troubles, excused>>
RecordFails(p)   == Trouble /\ Excuse({p}) /\ UNCHANGED arrivals
WriteArrival(p)  == RecordArrival(p) \/ RecordFails(p)

(* Mutant of RecordConfirmedRaid: without ON CONFLICT (raid_flow_id). *)
RecordEveryRaid(f, t) ==
    /\ external' = external \cup {f}
    /\ rows' = [rows EXCEPT ![t] = @ + 1]

(* record_confirmed_raid: one row per flow, and the rows of the target. *)
RecordConfirmedRaid(f, t) ==
    /\ external' = external \cup {f}
    /\ rows' = [rows EXCEPT ![t] = IF f \in external THEN @ ELSE @ + 1]

(* The rest of confirm_pending_raid: a partner's arrival, or a recruitment *)
(* raid that may put the target on its way to the blacklist.               *)
WritePartner(a) ==
    /\ At(a, "write") /\ act[a].to \in Partners
    /\ WriteArrival(Pair(a))
    /\ due' = due \ {act[a].to}
    /\ Returns(a)
    /\ UNCHANGED <<memory, external, rows, blacklist, twitch, pairOf, flows,
                   landed, confirms, revived, heard, noted>>

WriteExternal(a) ==
    /\ At(a, "write") /\ act[a].to \notin Partners
    /\ \/ /\ RecordConfirmedRaid(act[a].flow, act[a].to)
          /\ due' = IF rows'[act[a].to] < EXTERNAL_RECRUITMENT_RAID_LIMIT
                    THEN due ELSE due \cup {act[a].to}
          /\ UNCHANGED troubles
       \/ /\ Trouble
          /\ UNCHANGED <<external, rows, due>>
    /\ Returns(a)
    /\ UNCHANGED <<memory, arrivals, blacklist, twitch, history>>

(* store_orphan_chat_notification. *)
StoreOrphan(a) ==
    /\ At(a, "orphan")
    /\ orphans' = orphans \cup {Pair(a)}
    /\ Ends(a)
    /\ UNCHANGED <<pending, promoting, marks, database, twitch, troubles, history>>

(* record_independent_raid_arrival, then mark_manual_raid_started. *)
Independent(a) ==
    /\ At(a, "independent")
    /\ WriteArrival(Pair(a))
    /\ Goes(a, "mark")
    /\ UNCHANGED <<memory, external, rows, due, blacklist, twitch, pairOf, flows,
                   landed, confirms, revived, heard, noted>>

MarkManualRaidStarted(a) ==
    /\ At(a, "mark")
    /\ Mark(a[2])
    /\ Ends(a)
    /\ UNCHANGED <<pending, orphans, promoting, database, twitch, troubles, pairOf,
                   flows, landed, confirms, revived, heard, excused>>

-----------------------------------------------------------------------------
(* The sweepers, and what else takes pendings away. *)

(* claim_stale_orphans. *)
ClaimStaleOrphan(p) ==
    /\ p \in orphans
    /\ orphans' = orphans \ {p} /\ promoting' = promoting \cup {p}
    /\ UNCHANGED <<pending, marks, act, database, twitch, troubles, history>>

(* record_independent_orphan_arrival: only a partner's arrival is recorded *)
(* and only a recorded one marks the source; the orphan is gone.           *)
PromoteOrphan(p) ==
    /\ p \in promoting
    /\ promoting' = promoting \ {p}
    /\ IF p[2] \in Partners
       THEN \/ RecordArrival(p) /\ Mark(p[1])
            \/ RecordFails(p) /\ UNCHANGED <<marks, noted>>
       ELSE UNCHANGED <<arrivals, troubles, excused, marks, noted>>
    /\ UNCHANGED <<pending, orphans, act, external, rows, due, blacklist, twitch,
                   pairOf, flows, landed, confirms, revived, heard>>

(* PendingRaidStore::sweep_stale. *)
Sweep(p) ==
    /\ pending[p] # 0 /\ Trouble
    /\ pending' = [pending EXCEPT ![p] = 0]
    /\ Excuse({p})
    /\ UNCHANGED <<orphans, promoting, marks, act, database, twitch, pairOf, flows, landed, confirms, revived, heard, noted>>

(* cancel_from_source. *)
CancelFromSource(s) ==
    /\ pending' = [p \in Pairs |-> IF p[1] = s THEN 0 ELSE pending[p]]
    /\ Excuse({p \in Pairs : p[1] = s /\ pending[p] # 0})

(* A source's own unraid cancels every pending of the source. *)
SelfUnraid(p) ==
    /\ <<"self", p>> \in inbound
    /\ inbound' = inbound \ {<<"self", p>>}
    /\ CancelFromSource(p[1])
    /\ UNCHANGED <<orphans, promoting, marks, act, database, countdown, started,
                   troubles, pairOf, flows, landed, confirms, revived, heard, noted>>

(* handle_go_live: the source is live again; inside the flip window its    *)
(* raid is stopped on Twitch, and a repeated flip marks the source.        *)
GoLive(s) ==
    /\ Trouble
    /\ \E p \in Pairs : p[1] = s /\ pending[p] # 0
    /\ CancelFromSource(s)
    /\ countdown' \in {countdown, {p \in countdown : p[1] # s}}
    /\ Mark(s) \/ UNCHANGED <<marks, noted>>
    /\ UNCHANGED <<orphans, promoting, act, database, inbound, started, pairOf, flows, landed, confirms, revived, heard>>

(* process_due_recruitment_blacklists: list the target, then remove what   *)
(* was due.                                                                *)
Blacklist(t) ==
    /\ t \in due \ blacklist
    /\ blacklist' = blacklist \cup {t}
    /\ UNCHANGED <<memory, act, arrivals, external, rows, due, twitch, troubles, history>>

CleanupDue(t) ==
    /\ t \in due /\ (t \in blacklist \/ t \in Partners)
    /\ due' = due \ {t}
    /\ UNCHANGED <<memory, act, arrivals, external, rows, blacklist, twitch, troubles, history>>

-----------------------------------------------------------------------------
(* Time, and a restart. *)

MarkExpires(s) ==
    /\ s \in marks
    /\ marks' = marks \ {s} /\ noted' = noted \ {s}
    /\ UNCHANGED <<pending, orphans, promoting, act, database, twitch, troubles,
                   pairOf, flows, landed, confirms, revived, heard, excused>>

(* The process restarts: what is in memory is gone. *)
Restart ==
    /\ Trouble
    /\ pending' = [p \in Pairs |-> 0]
    /\ orphans' = {} /\ promoting' = {} /\ marks' = {} /\ noted' = {}
    /\ act' = [a \in Actors |-> Idle(a)]
    /\ Excuse(Pairs)
    /\ UNCHANGED <<database, twitch, pairOf, flows, landed, confirms, revived, heard>>

-----------------------------------------------------------------------------
TaskStep(a) ==
    \/ Register(a) \/ Replay(a) \/ Finish(a) \/ Recall(a) \/ StorePending(a)
    \/ Confirm(a) \/ WritePartner(a) \/ WriteExternal(a) \/ StoreOrphan(a)
    \/ Independent(a) \/ MarkManualRaidStarted(a)

Next ==
    \/ \E a \in Actors : TaskStep(a) \/ NoRaid(a)
                         \/ \E t \in Targets : StartRaid(a, t) \/ Hear(a, t)
    \/ \E p \in Pairs : \/ OwnRaid(p) \/ ObserveOwnRaid(p) \/ Land(p) \/ CallOff(p)
                        \/ ClaimStaleOrphan(p) \/ PromoteOrphan(p) \/ Sweep(p)
                        \/ SelfUnraid(p)
    \/ \E s \in Sources : \/ Offline(s) \/ GraceOver(s) \/ ManualRaid(s)
                          \/ GoLive(s) \/ MarkExpires(s)
    \/ \E t \in Targets : Blacklist(t) \/ CleanupDue(t)
    \/ Restart

Spec == Init /\ [][Next]_vars

-----------------------------------------------------------------------------
TypeOK ==
    /\ pending \in [Pairs -> 0..MaxRaids]
    /\ orphans \subseteq Pairs /\ promoting \subseteq Pairs
    /\ marks \subseteq Sources
    /\ act \in [Actors -> Tasks]
    /\ arrivals \subseteq Pairs
    /\ external \subseteq Flows /\ rows \in [Targets -> Nat]
    /\ due \subseteq Targets /\ blacklist \subseteq Targets
    /\ countdown \subseteq Pairs
    /\ inbound \subseteq (Signals \cup {"self"}) \X Pairs
    /\ started \in 0..MaxRaids /\ troubles \in 0..MaxTroubles
    /\ pairOf \in [Flows -> Pairs] /\ flows \in 0..MaxRaids
    /\ landed \subseteq Pairs
    /\ confirms \in [Flows -> Nat] /\ revived \in [Flows -> Nat]
    /\ heard \subseteq Pairs /\ excused \subseteq Pairs /\ noted \subseteq Sources

(* Mutual accounting of the in-memory store: a flow that was registered    *)
(* once is taken for confirmation at most once for its registration and    *)
(* once for each stale copy a handler put back, and only while it is not   *)
(* in the store any more.                                                  *)
ConfirmedOncePerStore ==
    \A f \in Flows : \A p \in Pairs :
        confirms[f] + (IF pending[p] = f THEN 1 ELSE 0) <=
            (IF f <= flows THEN 1 ELSE 0) + revived[f]

(* What the recruitment blacklist punishes has happened: behind a target   *)
(* on it, or due for it, stand that many different raids on that target,   *)
(* each confirmed by a signal - however often one of them was confirmed.   *)
BlacklistEarned ==
    \A t \in due \cup blacklist :
        Cardinality({f \in 1..flows : pairOf[f][2] = t /\ confirms[f] > 0})
            >= EXTERNAL_RECRUITMENT_RAID_LIMIT

(* An arrival row or a confirmation means that Twitch executed a raid of   *)
(* that source on that target: an unraid, a sweep or a stale copy alone    *)
(* never makes one.  It is a statement about the pair and not about the    *)
(* raid, since signals name the two channels only: when an earlier raid of *)
(* the pair landed, a late signal of it confirms the flow of a later raid  *)
(* that was called off.                                                    *)
ArrivalsLanded ==
    /\ arrivals \subseteq landed
    /\ \A f \in Flows : confirms[f] > 0 => pairOf[f] \in landed

(* An arrival on a partner that was signalled is recorded, or somebody is  *)
(* still at it, or a removal, a fault or a restart has interfered.         *)
Working(p) ==
    \/ p \in orphans \cup promoting
    \/ \E a \in Actors : Pair(a) = p /\ At(a, "write")
    \/ \E a \in (Signals \X Sources) : /\ Pair(a) = p /\ a[1] # "unraid"
                                       /\ act[a].at \in {"look", "orphan", "independent"}
    \/ \E a \in Actors : Pair(a) = p /\ At(a, "confirm") /\ pending[p] # 0
    \/ \E a \in Actors : Pair(a) = p /\ At(a, "store") /\ a[1] # "unraid"

TrackedOrWorking ==
    \A p \in heard \ excused :
        p[2] \in Partners => p \in arrivals \/ Working(p)

(* An auto-raid does not follow a raid of the streamer that was noticed    *)
(* before the end of the grace, unless the mark has expired or been lost.  *)
AutoRaidYields ==
    [][\A s \in Sources, t \in Targets : StartRaid(<<"auto", s>>, t) => s \notin noted]_vars
=============================================================================
