----------------------------- MODULE Schedules ------------------------------
(***************************************************************************)
(* Cron schedules on pipelines: the monitor's ticks, the checkpoint of     *)
(* each schedule, and the builds they start.                               *)
(*                                                                         *)
(* Time is counted in ticks of the monitor, three to a minute.  A tick     *)
(* works through the schedules one statement at a time with the time at    *)
(* which it started; meanwhile the clock goes on, source providers and the *)
(* database fail, pipelines are edited and the daemon may restart.         *)
(***************************************************************************)
EXTENDS Integers, FiniteSets

CONSTANTS
    Schedules,    \* (pipeline, cron, branch): one row of pipeline_schedule_runs
    PipeOf,       \* [Schedules -> pipelines]
    DueMinutes,   \* [Schedules -> sets of minutes]: when the cron expression fires
    CatchUp,      \* CATCH_UP_SECS, in ticks
    MaxClock,     \* bound: time
    NoSchedule

ASSUME ScheduleAssumption ==
    /\ CatchUp \in Nat /\ MaxClock \in Nat
    /\ NoSchedule \notin Schedules

VARIABLES
    clock,
    enabled,      \* pipelines.enabled
    listed,       \* schedules that are in their pipeline's trigger_config
    checkpoint,   \* pipeline_schedule_runs.last_checked_at; -1: no row
    builds,       \* scheduled builds, with the due window they were started for
    tick          \* what the monitor is doing

scheduleVars == <<clock, enabled, listed, checkpoint, builds, tick>>

Minute(t) == t \div 3

Pipelines == {PipeOf[s] : s \in Schedules}

(* A scheduled build: created_at, and the ticks (from, upto] whose due      *)
(* minutes it stands for.  id tells apart builds of one second.             *)
ScheduledBuilds == [s : Schedules, id : Nat, at : Nat, from : Int, upto : Nat]

NoTick == [pc |-> "idle", now |-> 0, todo |-> {}, s |-> NoSchedule, prev |-> -1]

Ticks == [pc : {"idle", "next", "claim", "create", "release"},
          now : Nat,                             \* when the tick started
          todo : SUBSET Schedules,               \* schedules still to come
          s : Schedules \cup {NoSchedule},       \* the schedule at hand
          prev : Nat \cup {-1}]                  \* the checkpoint read

(* Types; and a run is only claimed for a minute after the last one checked. *)
SchedulesTypeOK ==
    /\ clock \in Nat
    /\ enabled \subseteq Pipelines /\ listed \subseteq Schedules
    /\ checkpoint \in [Schedules -> Nat \cup {-1}]
    /\ builds \subseteq ScheduledBuilds
    /\ tick \in Ticks
    /\ tick.pc \in {"claim", "create"} => Minute(tick.prev) < Minute(tick.now)

SchedulesInit ==
    /\ clock = 0
    /\ enabled \in SUBSET Pipelines /\ listed \in SUBSET Schedules
    /\ checkpoint = [s \in Schedules |-> -1]
    /\ builds = {}
    /\ tick = NoTick

-----------------------------------------------------------------------------
(* run_schedule_tick: SELECT the schedules of the enabled pipelines. *)
StartTick ==
    /\ tick = NoTick
    /\ tick' = [NoTick EXCEPT !.pc = "next", !.now = clock,
                              !.todo = {s \in listed : PipeOf[s] \in enabled}]
    /\ UNCHANGED <<clock, enabled, listed, checkpoint, builds>>

EndTick ==
    /\ tick.pc = "next" /\ tick.todo = {}
    /\ tick' = NoTick
    /\ UNCHANGED <<clock, enabled, listed, checkpoint, builds>>

NextSchedule == [tick EXCEPT !.pc = "next", !.s = NoSchedule, !.prev = -1]

(* claim_due_run: read the checkpoint.  A new schedule starts counting from *)
(* now; a minute that was checked is not checked again.                     *)
ReadCheckpoint(s) ==
    /\ tick.pc = "next" /\ s \in tick.todo
    /\ LET t == [tick EXCEPT !.todo = @ \ {s}]
       IN  IF checkpoint[s] = -1
           THEN /\ checkpoint' = [checkpoint EXCEPT ![s] = tick.now]
                /\ tick' = t
           ELSE /\ tick' = IF Minute(tick.now) > Minute(checkpoint[s])
                           THEN [t EXCEPT !.pc = "claim", !.s = s, !.prev = checkpoint[s]]
                           ELSE t
                /\ UNCHANGED checkpoint
    /\ UNCHANGED <<clock, enabled, listed, builds>>

(* The start of the window a claim looks back on: last_checked.max(now - CATCH_UP_SECS) *)
WindowStart == IF tick.prev > tick.now - CatchUp THEN tick.prev ELSE tick.now - CatchUp

(* Cron::due_between *)
DueBetween(s, after, until) ==
    \E m \in DueMinutes[s] : Minute(after) < m /\ m <= Minute(until)

(* The conditional UPDATE of claim_due_run. *)
ClaimDueRun ==
    /\ tick.pc = "claim"
    /\ LET s == tick.s
           claimed == checkpoint[s] = tick.prev
       IN  /\ checkpoint' = [checkpoint EXCEPT ![s] = IF claimed THEN tick.now ELSE @]
           /\ tick' = IF claimed /\ DueBetween(s, WindowStart, tick.now)
                      THEN [tick EXCEPT !.pc = "create"]
                      ELSE NextSchedule
    /\ UNCHANGED <<clock, enabled, listed, builds>>

Inserted == builds' = builds \cup {[s |-> tick.s, id |-> Cardinality(builds), at |-> clock,
                                    from |-> WindowStart, upto |-> tick.now]}

(* create_scheduled_build succeeds when the pipeline is still enabled, also  *)
(* for a schedule it no longer lists, ...                                   *)
CreateBuild ==
    /\ tick.pc = "create" /\ PipeOf[tick.s] \in enabled
    /\ Inserted
    /\ tick' = NextSchedule
    /\ UNCHANGED <<clock, enabled, listed, checkpoint>>

(* ... is refused (4xx: pipeline disabled, no source, source changed), ... *)
RefuseBuild ==
    /\ tick.pc = "create"
    /\ tick' = NextSchedule
    /\ UNCHANGED <<clock, enabled, listed, checkpoint, builds>>

(* ... or fails (5xx): before the build was inserted, or after it, when its *)
(* first event could not be recorded.                                       *)
FailBuild ==
    /\ tick.pc = "create"
    /\ tick' = [tick EXCEPT !.pc = "release"]
    /\ \/ UNCHANGED builds
       \/ PipeOf[tick.s] \in enabled /\ Inserted
    /\ UNCHANGED <<clock, enabled, listed, checkpoint>>

(* Mutant: a claim is handed back although its build exists. *)
MutReleaseAlways == checkpoint[tick.s] = tick.now

(* The guards of release_claim: nobody moved the checkpoint, and the        *)
(* pipeline has no scheduled build created since.                           *)
MayRelease ==
    /\ checkpoint[tick.s] = tick.now
    /\ ~ \E b \in builds : PipeOf[b.s] = PipeOf[tick.s] /\ b.at >= tick.now

(* release_claim *)
ReleaseClaim ==
    /\ tick.pc = "release"
    /\ checkpoint' = [checkpoint EXCEPT ![tick.s] = IF MayRelease THEN tick.prev ELSE @]
    /\ tick' = NextSchedule
    /\ UNCHANGED <<clock, enabled, listed, builds>>

(* A statement of the monitor fails: the whole tick is given up. *)
TickFails ==
    /\ tick.pc \in {"next", "claim", "release"}
    /\ tick' = NoTick
    /\ UNCHANGED <<clock, enabled, listed, checkpoint, builds>>

(* The daemon restarts. *)
RestartMonitor ==
    /\ tick # NoTick
    /\ tick' = NoTick
    /\ UNCHANGED <<clock, enabled, listed, checkpoint, builds>>

(* update_pipeline: a pipeline is enabled or disabled, ... *)
EditPipeline(p) ==
    /\ enabled' = IF p \in enabled THEN enabled \ {p} ELSE enabled \cup {p}
    /\ UNCHANGED <<clock, listed, checkpoint, builds, tick>>

(* ... a schedule is added or removed. *)
EditSchedules(s) ==
    /\ listed' = IF s \in listed THEN listed \ {s} ELSE listed \cup {s}
    /\ UNCHANGED <<clock, enabled, checkpoint, builds, tick>>

Time ==
    /\ clock < MaxClock
    /\ clock' = clock + 1
    /\ UNCHANGED <<enabled, listed, checkpoint, builds, tick>>

SchedulesNext ==
    \/ StartTick \/ EndTick \/ ClaimDueRun \/ CreateBuild \/ RefuseBuild \/ FailBuild
    \/ ReleaseClaim \/ TickFails \/ RestartMonitor \/ Time
    \/ \E s \in Schedules : ReadCheckpoint(s) \/ EditSchedules(s)
    \/ \E p \in Pipelines : EditPipeline(p)

SchedulesSpec == SchedulesInit /\ [][SchedulesNext]_scheduleVars

-----------------------------------------------------------------------------
(* Properties.                                                              *)

(* "A restart neither replays old runs nor fires a minute twice": the due   *)
(* windows of two builds of a schedule share no minute, although a failed   *)
(* run is handed back and claimed again (claim_due_run, release_claim).     *)
RunFiresOnce ==
    \A b, c \in builds : b.s = c.s /\ b.id # c.id =>
        Minute(b.upto) <= Minute(c.from) \/ Minute(c.upto) <= Minute(b.from)

(* "Put the checkpoint back to previous after a run claimed at now failed   *)
(* to start, unless another tick moved it or the run's build exists after   *)
(* all" (release_claim).                                                    *)
FailedRunHandedBack ==
    [][ReleaseClaim /\ checkpoint[tick.s] = tick.now
          /\ ~(\E b \in builds : b.s = tick.s /\ b.upto = tick.now)
       => checkpoint'[tick.s] = tick.prev]_scheduleVars
=============================================================================
