--------------------------- MODULE MonitorsProofs ---------------------------
(***************************************************************************)
(* Theorems about the two monitors of the daemon that act on the clock:    *)
(* cron schedules and staged rollouts, for any schedules, pipelines, cron  *)
(* expressions and catch-up window, and any callers and rollout steps.     *)
(* The two share no state.                                                 *)
(*                                                                         *)
(* Schedules.  RunFiresOnce relates two builds; what keeps their windows   *)
(* apart is the checkpoint between them.  The inductive invariant          *)
(* Scheduled says that a checkpoint is never behind a build of its         *)
(* schedule, although a failed run hands its claim back: at each step of a *)
(* claim, the builds of the schedule are no later than the checkpoint the  *)
(* claim started from, or were created by the claim itself and are found   *)
(* by release_claim.                                                       *)
(*                                                                         *)
(* Rollouts.  Both theorems are about one step of a change that began      *)
(* several steps before, with a view of the release that may be stale by   *)
(* now.  The inductive invariant Rolling carries what was checked along    *)
(* the change: a widening planned outside the lock is marked `expect` and  *)
(* never plans to shrink what it saw; under the lock the row is the one    *)
(* that was checked; and a release that rolls in Oore has left its draft   *)
(* in Play.                                                                *)
(***************************************************************************)
EXTENDS Schedules, Rollout, FiniteSetTheorems, TLAPS

(* The builds of schedule s that started before the claim at hand. *)
Before(b) == b.upto <= tick.prev

Claimed == tick.pc \in {"claim", "create", "release"}

ScheduleShape ==
    /\ clock \in Nat
    /\ enabled \in SUBSET Pipelines /\ listed \in SUBSET Schedules
    /\ checkpoint \in [Schedules -> Nat \cup {-1}]
    /\ builds \in SUBSET ScheduledBuilds
    /\ tick \in Ticks

(* Builds are told apart by their ids. *)
IdsApart ==
    /\ IsFiniteSet(builds)
    /\ \A b \in builds : b.id < Cardinality(builds)
    /\ \A b, c \in builds : b.id = c.id => b = c

(* A build stands for a window that ended before it was created, and no     *)
(* checkpoint is behind it.                                                 *)
BuildOK(b) == b.upto <= b.at /\ b.at <= clock /\ b.upto <= checkpoint[b.s]

TickOK ==
    /\ tick.now <= clock
    /\ Claimed => tick.s \in Schedules /\ tick.prev >= 0
    /\ Claimed => Minute(tick.prev) < Minute(tick.now)
    /\ tick.pc = "create" =>
          /\ checkpoint[tick.s] = tick.now
          /\ \A b \in builds : b.s = tick.s => Before(b)
    /\ tick.pc = "release" =>
          \A b \in builds : b.s = tick.s => Before(b) \/ b.at >= tick.now

Scheduled ==
    /\ ScheduleShape
    /\ IdsApart
    /\ \A b \in builds : BuildOK(b)
    /\ TickOK
    /\ RunFiresOnce

-----------------------------------------------------------------------------
(* Minutes do not run backwards. *)
LEMMA MinuteGrows == \A t, u \in Int : t <= u => Minute(t) <= Minute(u)
BY DEF Minute

(* The states between two schedules are states of the monitor. *)
LEMMA TickTypes ==
    ASSUME tick \in Ticks
    PROVE  /\ NoTick \in Ticks /\ NoTick.pc = "idle" /\ NoTick.now = 0
           /\ NextSchedule \in Ticks /\ NextSchedule.pc = "next" /\ NextSchedule.now = tick.now
<1>1. NoTick \in Ticks /\ NoTick.pc = "idle" /\ NoTick.now = 0
  BY DEF NoTick, Ticks
<1>2. NextSchedule \in Ticks /\ NextSchedule.pc = "next" /\ NextSchedule.now = tick.now
  BY DEF NextSchedule, Ticks
<1> QED  BY <1>1, <1>2

(* The window of a claim starts at the checkpoint it read, or later. *)
LEMMA WindowFacts ==
    ASSUME tick \in Ticks, tick.prev >= 0
    PROVE  WindowStart \in Int /\ WindowStart >= tick.prev
<1>1. tick.prev \in Int /\ tick.now \in Int /\ CatchUp \in Int
  BY ScheduleAssumption DEF Ticks
<1> QED  BY <1>1 DEF WindowStart

(* The INSERT of a claimed run: its window lies after those of all builds of  *)
(* the schedule.                                                              *)
LEMMA InsertFacts ==
    ASSUME Scheduled, tick.pc = "create", Inserted, UNCHANGED <<clock, checkpoint>>
    PROVE  /\ builds' \in SUBSET ScheduledBuilds
           /\ IdsApart' /\ RunFiresOnce'
           /\ \A b \in builds' : BuildOK(b)'
           /\ \A b \in builds' : b \in builds \/ b.at >= tick.now
<1> DEFINE n == [s |-> tick.s, id |-> Cardinality(builds), at |-> clock,
                 from |-> WindowStart, upto |-> tick.now]
<1>1. /\ ScheduleShape /\ IdsApart /\ RunFiresOnce /\ \A b \in builds : BuildOK(b)
      /\ tick.now <= clock /\ tick.s \in Schedules /\ tick.prev >= 0
      /\ checkpoint[tick.s] = tick.now
      /\ \A b \in builds : b.s = tick.s => Before(b)
  BY DEF Scheduled, TickOK, Claimed
<1>2. tick.now \in Nat /\ clock \in Nat /\ tick.prev \in Int /\ tick \in Ticks
  BY <1>1 DEF ScheduleShape, Ticks
<1>3. Cardinality(builds) \in Nat
  BY <1>1, FS_CardinalityType DEF IdsApart
<1>4. WindowStart \in Int /\ WindowStart >= tick.prev
  BY <1>1, <1>2, WindowFacts
<1>5. /\ n \in ScheduledBuilds /\ n.s = tick.s /\ n.id = Cardinality(builds) /\ n.at = clock
      /\ n.from = WindowStart /\ n.upto = tick.now
  BY <1>1, <1>2, <1>3, <1>4 DEF ScheduledBuilds
<1>6. builds' = builds \cup {n}
  BY DEF Inserted
<1> HIDE DEF n
<1>7. builds' \in SUBSET ScheduledBuilds
  BY <1>1, <1>5, <1>6 DEF ScheduleShape
<1>8. \A b \in builds : b.id \in Nat /\ b.upto \in Nat /\ b.at \in Nat
  BY <1>1 DEF ScheduleShape, ScheduledBuilds
<1>9. n \notin builds
  BY <1>1, <1>3, <1>5, <1>8 DEF IdsApart
<1>10. IdsApart'
  <2>1. IsFiniteSet(builds') /\ Cardinality(builds') = Cardinality(builds) + 1
    BY <1>1, <1>6, <1>9, FS_AddElement DEF IdsApart
  <2>2. \A b \in builds' : b.id < Cardinality(builds')
    BY <1>1, <1>3, <1>5, <1>6, <1>8, <2>1 DEF IdsApart
  <2>3. \A b, c \in builds' : b.id = c.id => b = c
    BY <1>1, <1>3, <1>5, <1>6, <1>8 DEF IdsApart
  <2> QED  BY <2>1, <2>2, <2>3 DEF IdsApart
<1>11. ASSUME NEW c \in builds, c.s = n.s PROVE Minute(c.upto) <= Minute(n.from)
  <2>1. c.upto <= tick.prev /\ c.upto \in Int
    BY <1>1, <1>5, <1>8, <1>11 DEF Before
  <2>2. c.upto <= n.from /\ n.from \in Int
    BY <1>2, <1>4, <1>5, <2>1
  <2> QED  BY <2>1, <2>2, MinuteGrows
<1>12. RunFiresOnce'
  BY <1>1, <1>6, <1>11 DEF RunFiresOnce
<1>13. \A b \in builds' : BuildOK(b)'
  <2>1. \A b \in builds : BuildOK(b)'
    BY <1>1 DEF BuildOK
  <2>2. \A b : b = n => BuildOK(b)'
    BY <1>1, <1>2, <1>5 DEF BuildOK
  <2> QED  BY <1>6, <2>1, <2>2
<1>14. n.at >= tick.now
  BY <1>1, <1>2, <1>5
<1> QED  BY <1>6, <1>7, <1>10, <1>12, <1>13, <1>14

-----------------------------------------------------------------------------
(* The invariant holds at the start. *)
LEMMA ScheduledInit == SchedulesInit => Scheduled
<1> SUFFICES ASSUME SchedulesInit PROVE Scheduled
  OBVIOUS
<1>1. NoTick \in Ticks /\ NoTick.pc = "idle" /\ NoTick.now = 0
  BY DEF NoTick, Ticks
<1>2. ScheduleShape
  BY <1>1 DEF SchedulesInit, ScheduleShape
<1>3. IdsApart
  BY FS_EmptySet DEF SchedulesInit, IdsApart
<1>4. TickOK
  BY <1>1 DEF SchedulesInit, TickOK, Claimed
<1> QED  BY <1>2, <1>3, <1>4 DEF SchedulesInit, Scheduled, RunFiresOnce

(* A step that gives up the tick or goes on to the next schedule, and leaves  *)
(* everything else alone, keeps the invariant.                                *)
LEMMA MovesOn ==
    ASSUME Scheduled, tick' \in Ticks, tick'.pc \in {"idle", "next"}, tick'.now <= clock,
           UNCHANGED <<clock, checkpoint, builds>>, enabled' \in SUBSET Pipelines,
           listed' \in SUBSET Schedules
    PROVE  Scheduled'
<1>1. ScheduleShape' /\ TickOK'
  BY DEF Scheduled, ScheduleShape, TickOK, Claimed
<1>2. IdsApart' /\ RunFiresOnce' /\ \A b \in builds' : BuildOK(b)'
  BY DEF Scheduled, IdsApart, RunFiresOnce, BuildOK
<1> QED  BY <1>1, <1>2 DEF Scheduled

(* Every step of the monitor, of the people who edit pipelines and of the     *)
(* clock keeps the invariant (schedules.rs run_schedule_tick, claim_due_run,  *)
(* release_claim).                                                            *)
LEMMA ScheduledStep == Scheduled /\ [SchedulesNext]_scheduleVars => Scheduled'
<1> SUFFICES ASSUME Scheduled, [SchedulesNext]_scheduleVars PROVE Scheduled'
  OBVIOUS
<1>s. /\ ScheduleShape /\ IdsApart /\ RunFiresOnce /\ TickOK
      /\ \A b \in builds : BuildOK(b)
  BY DEF Scheduled
<1>t. /\ clock \in Nat /\ tick \in Ticks
      /\ enabled \in SUBSET Pipelines /\ listed \in SUBSET Schedules
      /\ tick.now \in Nat /\ tick.prev \in Int /\ tick.now <= clock
  BY <1>s DEF ScheduleShape, TickOK, Ticks
<1>n. /\ NoTick \in Ticks /\ NoTick.pc = "idle" /\ NoTick.now = 0
      /\ NextSchedule \in Ticks /\ NextSchedule.pc = "next" /\ NextSchedule.now = tick.now
  BY <1>t, TickTypes
<1>b. \A b \in builds : b.upto \in Nat /\ b.at \in Nat /\ b.s \in Schedules
  BY <1>s DEF ScheduleShape, ScheduledBuilds
<1>1. CASE StartTick
  <2>1. tick' \in Ticks /\ tick'.pc = "next" /\ tick'.now = clock
    BY <1>1, <1>t DEF StartTick, NoTick, Ticks
  <2> QED  BY <1>1, <1>t, <2>1, MovesOn DEF StartTick
<1>2. CASE EndTick \/ TickFails \/ RestartMonitor
  <2>1. tick' = NoTick /\ UNCHANGED <<clock, enabled, listed, checkpoint, builds>>
    BY <1>2 DEF EndTick, TickFails, RestartMonitor
  <2> QED  BY <1>t, <1>n, <2>1, MovesOn
<1>3. CASE RefuseBuild
  BY <1>3, <1>t, <1>n, MovesOn DEF RefuseBuild
<1>4. ASSUME NEW s \in Schedules, ReadCheckpoint(s) PROVE Scheduled'
  <2> DEFINE t == [tick EXCEPT !.todo = tick.todo \ {s}]
  <2>1. t \in Ticks /\ t.pc = "next" /\ t.now = tick.now
    BY <1>4, <1>t DEF ReadCheckpoint, Ticks
  <2>2. CASE checkpoint[s] = -1
    <3>1. tick' = t /\ checkpoint' = [checkpoint EXCEPT ![s] = tick.now]
          /\ UNCHANGED <<clock, enabled, listed, builds>>
      BY <1>4, <2>2 DEF ReadCheckpoint
    <3> HIDE DEF t
    <3>2. \A b \in builds : b.s # s
      BY <1>s, <1>b, <2>2 DEF BuildOK
    <3>3. checkpoint' \in [Schedules -> Nat \cup {-1}] /\ \A r \in Schedules : r # s => checkpoint'[r] = checkpoint[r]
      BY <1>s, <1>t, <3>1 DEF ScheduleShape
    <3>4. \A b \in builds' : BuildOK(b)'
      BY <1>s, <1>b, <3>1, <3>2, <3>3 DEF BuildOK
    <3>5. TickOK'
      BY <1>t, <2>1, <3>1 DEF TickOK, Claimed
    <3> QED  BY <1>s, <1>t, <2>1, <3>1, <3>3, <3>4, <3>5 DEF Scheduled, ScheduleShape, IdsApart, RunFiresOnce
  <2>3. CASE checkpoint[s] # -1 /\ Minute(tick.now) > Minute(checkpoint[s])
    <3> DEFINE c == [t EXCEPT !.pc = "claim", !.s = s, !.prev = checkpoint[s]]
    <3>1. checkpoint[s] \in Nat
      BY <1>s, <2>3 DEF ScheduleShape
    <3>2. c \in Ticks /\ c.pc = "claim" /\ c.s = s /\ c.prev = checkpoint[s] /\ c.now = tick.now
      BY <2>1, <3>1 DEF Ticks
    <3>3. tick' = c /\ UNCHANGED <<clock, enabled, listed, checkpoint, builds>>
      BY <1>4, <2>3 DEF ReadCheckpoint
    <3> HIDE DEF c, t
    <3>4. Minute(checkpoint[s]) < Minute(tick.now)
      BY <2>3, <3>1, <1>t DEF Minute
    <3>5. TickOK'
      BY <1>t, <3>1, <3>2, <3>3, <3>4 DEF TickOK, Claimed, Minute
    <3>6. \A b \in builds' : BuildOK(b)'
      BY <1>s, <3>3 DEF BuildOK
    <3> QED  BY <1>s, <3>2, <3>3, <3>5, <3>6 DEF Scheduled, ScheduleShape, IdsApart, RunFiresOnce
  <2>4. CASE checkpoint[s] # -1 /\ ~(Minute(tick.now) > Minute(checkpoint[s]))
    <3>1. tick' = t /\ UNCHANGED <<clock, enabled, listed, checkpoint, builds>>
      BY <1>4, <2>4 DEF ReadCheckpoint
    <3> HIDE DEF t
    <3> QED  BY <1>t, <2>1, <3>1, MovesOn
  <2> QED  BY <2>2, <2>3, <2>4
<1>5. CASE ClaimDueRun
  <2> DEFINE s == tick.s
  <2>1. s \in Schedules /\ tick.prev >= 0 /\ Minute(tick.prev) < Minute(tick.now) /\ tick.pc = "claim"
    BY <1>5, <1>s DEF ClaimDueRun, TickOK, Claimed
  <2>2. tick.prev < tick.now
    BY <1>t, <2>1, MinuteGrows DEF Minute
  <2>3. CASE checkpoint[s] = tick.prev
    <3>1. checkpoint' = [checkpoint EXCEPT ![s] = tick.now] /\ UNCHANGED <<clock, enabled, listed, builds>>
      BY <1>5, <2>3 DEF ClaimDueRun
    <3>2. /\ checkpoint' \in [Schedules -> Nat \cup {-1}] /\ checkpoint'[s] = tick.now
          /\ \A r \in Schedules : r # s => checkpoint'[r] = checkpoint[r]
      BY <1>s, <1>t, <2>1, <3>1 DEF ScheduleShape
    <3>3. \A b \in builds : b.s = s => b.upto <= tick.prev
      BY <1>s, <2>3 DEF BuildOK
    <3>4. \A b \in builds' : BuildOK(b)'
      BY <1>s, <1>t, <1>b, <2>2, <3>1, <3>2, <3>3 DEF BuildOK
    <3>5. CASE tick' = NextSchedule
      <4>1. TickOK'
        BY <1>t, <1>n, <3>1, <3>5 DEF TickOK, Claimed
      <4> QED  BY <1>s, <1>n, <3>1, <3>2, <3>4, <3>5, <4>1 DEF Scheduled, ScheduleShape, IdsApart, RunFiresOnce
    <3>6. CASE tick' = [tick EXCEPT !.pc = "create"]
      <4>1. tick' \in Ticks /\ tick'.pc = "create" /\ tick'.s = s /\ tick'.prev = tick.prev /\ tick'.now = tick.now
        BY <1>t, <3>6 DEF Ticks
      <4>2. TickOK'
        BY <1>t, <2>1, <3>1, <3>2, <3>3, <4>1 DEF TickOK, Claimed, Before, Minute
      <4> QED  BY <1>s, <3>1, <3>2, <3>4, <4>1, <4>2 DEF Scheduled, ScheduleShape, IdsApart, RunFiresOnce
    <3> QED  BY <1>5, <3>5, <3>6 DEF ClaimDueRun
  <2>4. CASE checkpoint[s] # tick.prev
    <3>1. tick' = NextSchedule /\ UNCHANGED <<clock, enabled, listed, checkpoint, builds>>
      BY <1>5, <1>s, <2>1, <2>4 DEF ClaimDueRun, ScheduleShape
    <3> QED  BY <1>t, <1>n, <3>1, MovesOn
  <2> QED  BY <2>3, <2>4
<1>6. CASE CreateBuild
  <2>1. /\ builds' \in SUBSET ScheduledBuilds /\ IdsApart' /\ RunFiresOnce'
        /\ \A b \in builds' : BuildOK(b)'
    BY <1>6, InsertFacts DEF CreateBuild
  <2>2. TickOK'
    BY <1>6, <1>t, <1>n DEF CreateBuild, TickOK, Claimed
  <2> QED  BY <1>6, <1>s, <1>n, <2>1, <2>2 DEF CreateBuild, Scheduled, ScheduleShape
<1>7. CASE FailBuild
  <2>1. /\ builds' \in SUBSET ScheduledBuilds /\ IdsApart' /\ RunFiresOnce'
        /\ \A b \in builds' : BuildOK(b)'
        /\ \A b \in builds' : b \in builds \/ b.at >= tick.now
    <3>1. CASE UNCHANGED builds
      BY <1>7, <1>s, <3>1 DEF FailBuild, ScheduleShape, IdsApart, RunFiresOnce, BuildOK
    <3>2. CASE Inserted
      BY <1>7, <3>2, InsertFacts DEF FailBuild
    <3> QED  BY <1>7, <3>1, <3>2 DEF FailBuild
  <2>2. tick' \in Ticks /\ tick'.pc = "release" /\ tick'.s = tick.s /\ tick'.prev = tick.prev /\ tick'.now = tick.now
    BY <1>7, <1>t DEF FailBuild, Ticks
  <2>3. /\ tick.s \in Schedules /\ tick.prev >= 0 /\ Minute(tick.prev) < Minute(tick.now)
        /\ \A b \in builds : b.s = tick.s => b.upto <= tick.prev
    BY <1>7, <1>s DEF FailBuild, TickOK, Claimed, Before
  <2>4. TickOK'
    BY <1>7, <1>t, <2>1, <2>2, <2>3 DEF FailBuild, TickOK, Claimed, Before, Minute
  <2> QED  BY <1>7, <1>s, <2>1, <2>2, <2>4 DEF FailBuild, Scheduled, ScheduleShape
<1>8. CASE ReleaseClaim
  <2>1. tick.s \in Schedules /\ tick.prev >= 0 /\ tick.pc = "release"
    BY <1>8, <1>s DEF ReleaseClaim, TickOK, Claimed
  <2>2. CASE MayRelease
    <3>1. checkpoint' = [checkpoint EXCEPT ![tick.s] = tick.prev] /\ UNCHANGED <<clock, enabled, listed, builds>>
      BY <1>8, <2>2 DEF ReleaseClaim
    <3>2. /\ checkpoint' \in [Schedules -> Nat \cup {-1}] /\ checkpoint'[tick.s] = tick.prev
          /\ \A r \in Schedules : r # tick.s => checkpoint'[r] = checkpoint[r]
      BY <1>s, <1>t, <2>1, <3>1 DEF ScheduleShape
    <3>3. \A b \in builds : b.s = tick.s => b.upto <= tick.prev
      BY <1>s, <2>1, <2>2 DEF TickOK, MayRelease, Before
    <3>4. \A b \in builds' : BuildOK(b)'
      BY <1>s, <1>b, <3>1, <3>2, <3>3 DEF BuildOK
    <3>5. TickOK'
      BY <1>8, <1>t, <1>n DEF ReleaseClaim, TickOK, Claimed
    <3> QED  BY <1>8, <1>s, <1>n, <3>1, <3>2, <3>4, <3>5
             DEF ReleaseClaim, Scheduled, ScheduleShape, IdsApart, RunFiresOnce
  <2>3. CASE ~MayRelease
    <3>1. UNCHANGED <<clock, enabled, listed, checkpoint, builds>> /\ tick' = NextSchedule
      BY <1>8, <1>s, <2>1, <2>3 DEF ReleaseClaim, ScheduleShape
    <3> QED  BY <1>t, <1>n, <3>1, MovesOn
  <2> QED  BY <2>2, <2>3
<1>9. CASE Time
  <2>1. clock' = clock + 1 /\ UNCHANGED <<enabled, listed, checkpoint, builds, tick>>
    BY <1>9 DEF Time
  <2>2. \A b \in builds' : BuildOK(b)'
    BY <1>s, <1>t, <1>b, <2>1 DEF BuildOK
  <2>3. TickOK'
    BY <1>s, <1>t, <2>1 DEF TickOK, Claimed, Before
  <2> QED  BY <1>s, <1>t, <2>1, <2>2, <2>3 DEF Scheduled, ScheduleShape, IdsApart, RunFiresOnce
<1>10. CASE UNCHANGED <<clock, checkpoint, builds, tick>>
            /\ enabled' \in SUBSET Pipelines /\ listed' \in SUBSET Schedules
  <2>1. TickOK' /\ \A b \in builds' : BuildOK(b)'
    BY <1>s, <1>10 DEF TickOK, Claimed, Before, BuildOK
  <2> QED  BY <1>s, <1>10, <2>1 DEF Scheduled, ScheduleShape, IdsApart, RunFiresOnce
<1>11. CASE \/ \E p \in Pipelines : EditPipeline(p)
            \/ \E s \in Schedules : EditSchedules(s)
  BY <1>10, <1>11, <1>t DEF EditPipeline, EditSchedules
<1>12. CASE UNCHANGED scheduleVars
  BY <1>10, <1>12, <1>t DEF scheduleVars
<1> QED  BY <1>1, <1>2, <1>3, <1>4, <1>5, <1>6, <1>7, <1>8, <1>9, <1>11, <1>12 DEF SchedulesNext

(* The invariant holds in every state. *)
THEOREM ScheduledAlways == SchedulesSpec => []Scheduled
BY ScheduledInit, ScheduledStep, PTL DEF SchedulesSpec

(* No minute of a schedule starts two builds: their windows share none,       *)
(* across restarts, failed runs handed back by release_claim and catch-up     *)
(* after an outage (claim_due_run).                                           *)
THEOREM MinutesFireOnce == SchedulesSpec => []RunFiresOnce
<1>1. Scheduled => RunFiresOnce
  BY DEF Scheduled
<1> QED  BY <1>1, ScheduledAlways, PTL

(* Types, with what the fields of a build and of the tick say of each other. *)
THEOREM ScheduleTyped == SchedulesSpec => []SchedulesTypeOK
<1>1. Scheduled => SchedulesTypeOK
  BY DEF Scheduled, ScheduleShape, TickOK, Claimed, SchedulesTypeOK
<1> QED  BY <1>1, ScheduledAlways, PTL

-----------------------------------------------------------------------------
(* Staged rollouts. *)

Plays == [status : {"draft", "in_progress", "halted", "completed", "missing"},
          fraction : Fractions]
Changes == [to : States, frac : Fractions]
Calls == [pc : {"idle", "observe", "sync", "decide", "health", "change", "store", "write"},
          op : Actions \cup {"none", "step"}, seen : Views, due : BOOLEAN,
          sync : Seq(Changes), expect : BOOLEAN, to : States, frac : Fractions]

RollingShape ==
    /\ rel \in Views
    /\ play \in Plays
    /\ call \in [Callers -> Calls]
    /\ lock \in Callers \cup {NoOne}

Widening == {"rolling", "complete"}
Planned == {"change", "store", "write"}
UnderLock == {"store", "write"}
LastChange == <<[to |-> "complete", frac |-> Full]>>

(* A change to record from Play is what a comparison of the view with some    *)
(* state of Play came to, or the second half of one.                          *)
SyncOK(s) ==
    /\ s.sync # <<>>
    /\ IF s.expect THEN \E p \in Plays : s.sync = SyncChanges(s.seen, p) ELSE s.sync = LastChange

CallOK(c) ==
    LET s == call[c]
    IN  /\ s.pc \in {"observe", "sync", "health"} /\ s.due => s.seen.state = "rolling"
        /\ s.pc = "observe" => s.expect
        /\ s.pc = "sync" => SyncOK(s) /\ play.status # "draft"
        /\ s.pc \in Planned => s.to \in Widening \cup {"paused", "halted"}
        /\ s.pc = "change" /\ s.to \in Widening =>
              /\ s.expect /\ s.frac >= s.seen.fraction
              /\ s.op = "step" => s.seen.state = "rolling"
        /\ s.pc \in UnderLock =>
              /\ lock = c /\ s.seen = rel
              /\ MayMove(rel.state, s.to) /\ s.frac >= rel.fraction
              /\ s.to \in Widening => ~Awaiting(rel) /\ (s.op = "step" => rel.state = "rolling")
        /\ s.pc = "write" /\ s.to # "paused" => play.status # "draft"

(* A release that rolls has left its draft. *)
Started == rel.state = "rolling" => play.status # "draft"

Rolling ==
    /\ RollingShape
    /\ \A c \in Callers : CallOK(c)
    /\ Started


-----------------------------------------------------------------------------
(* What store_sync_changes can ask for: nothing; one change that keeps the    *)
(* share or raises it; or such a change followed by the completion.           *)
LEMMA SyncFacts ==
    ASSUME NEW r \in Views, NEW p \in Plays
    PROVE  \/ SyncChanges(r, p) = <<>>
           \/ /\ p.status # "draft"
              /\ \E x \in Changes : /\ x.frac >= r.fraction
                                    /\ \/ SyncChanges(r, p) = <<x>>
                                       \/ SyncChanges(r, p) = <<x, LastChange[1]>>
<1> DEFINE x(to, frac) == [to |-> to, frac |-> frac]
<1>1. r.fraction \in Nat /\ r.fraction <= Full /\ p.fraction \in Nat /\ p.fraction <= Full /\ Full \in Nat
  BY RolloutAssumption DEF Views, Plays, Fractions
<1>2. \A to \in States, f \in Fractions : x(to, f) \in Changes /\ x(to, f).frac = f
  BY DEF Changes
<1>3. LastChange[1] = x("complete", Full)
  BY DEF LastChange
<1>4. Full \in Fractions /\ r.fraction \in Fractions /\ p.fraction \in Fractions
  BY <1>1 DEF Fractions
<1>5. CASE p.status = "missing" /\ ~Terminal(r.state)
  <2>1. SyncChanges(r, p) = <<x("failed", r.fraction)>>
    BY <1>5 DEF SyncChanges
  <2> QED  BY <1>1, <1>2, <1>4, <1>5, <2>1 DEF States
<1>6. CASE p.status = "completed" /\ r.state \in {"rolling", "paused"}
  <2>1. SyncChanges(r, p) = <<x("complete", Full)>>
    BY <1>6 DEF SyncChanges
  <2> QED  BY <1>1, <1>2, <1>4, <1>6, <2>1 DEF States
<1>7. CASE p.status = "completed" /\ r.state = "halted"
  <2>1. SyncChanges(r, p) = <<x("rolling", Full), LastChange[1]>>
    BY <1>3, <1>7 DEF SyncChanges
  <2> HIDE DEF x
  <2> QED  BY <1>1, <1>2, <1>4, <1>7, <2>1 DEF States
<1>8. CASE p.status = "halted" /\ r.state \in {"rolling", "paused"}
  <2>1. SyncChanges(r, p) = <<x("halted", r.fraction)>>
    BY <1>8 DEF SyncChanges
  <2> QED  BY <1>1, <1>2, <1>4, <1>8, <2>1 DEF States
<1>9. CASE p.status = "in_progress" /\ r.state = "rolling" /\ p.fraction > r.fraction
  <2>1. SyncChanges(r, p) = <<x("rolling", p.fraction)>>
    BY <1>9 DEF SyncChanges
  <2> QED  BY <1>1, <1>2, <1>4, <1>9, <2>1 DEF States
<1>10. CASE p.status = "in_progress" /\ r.state = "halted"
  <2> DEFINE f == IF p.fraction > r.fraction THEN p.fraction ELSE r.fraction
  <2>1. SyncChanges(r, p) = <<x("rolling", f)>>
    BY <1>10 DEF SyncChanges
  <2>2. f \in Fractions /\ f >= r.fraction
    BY <1>1, <1>4
  <2> HIDE DEF f
  <2> QED  BY <1>2, <1>10, <2>1, <2>2 DEF States
<1>11. CASE SyncChanges(r, p) = <<>>
  BY <1>11
<1> QED  BY <1>5, <1>6, <1>7, <1>8, <1>9, <1>10, <1>11 DEF SyncChanges

(* One or two changes make a sequence. *)
LEMMA ShortSeqs ==
    ASSUME NEW x \in Changes, NEW y \in Changes
    PROVE  /\ <<x>> \in Seq(Changes) /\ Head(<<x>>) = x /\ Len(<<x>>) = 1
           /\ <<x, y>> \in Seq(Changes) /\ Head(<<x, y>>) = x /\ Tail(<<x, y>>) = <<y>>
OBVIOUS

(* The second change of a sync. *)
LEMMA LastFacts == LastChange[1] \in Changes /\ LastChange = <<LastChange[1]>>
BY RolloutAssumption DEF LastChange, Changes, States, Fractions

(* A call that is over. *)
LEMMA DoneFacts == Done \in Calls /\ Done.pc = "idle" /\ Done.expect
<1>1. 0 \in Fractions
  BY RolloutAssumption DEF Fractions
<1>2. <<>> \in Seq(Changes)
  OBVIOUS
<1>3. [state |-> "failed", fraction |-> 0, approved |-> FALSE] \in Views
  BY <1>1 DEF Views, States
<1> QED  BY <1>1, <1>2, <1>3 DEF Done, Calls, States

(* One caller moves: what it leaves to the others.  The row may change only   *)
(* while nobody else holds the lock, and Play never returns to a draft.       *)
LEMMA OneMoves ==
    ASSUME Rolling, NEW c \in Callers, NEW n \in Calls,
           call' = [call EXCEPT ![c] = n],
           rel' \in Views, play' \in Plays, lock' \in Callers \cup {NoOne},
           play.status # "draft" => play'.status # "draft",
           rel'.state = "rolling" /\ rel' # rel => play'.status # "draft",
           rel' # rel => lock \in {NoOne, c},
           lock' # lock => lock \in {NoOne, c},
           CallOK(c)'
    PROVE  Rolling'
<1>1. /\ call' \in [Callers -> Calls]
      /\ \A d \in Callers : d # c => call'[d] = call[d]
  BY DEF Rolling, RollingShape
<1>2. ASSUME NEW d \in Callers, d # c PROVE CallOK(d)'
  <2>1. CallOK(d) /\ call'[d] = call[d] /\ d # NoOne
    BY <1>1, <1>2, RolloutAssumption DEF Rolling
  <2>2. call[d].pc \in UnderLock => lock = d
    BY <2>1 DEF CallOK
  <2>3. call[d].pc \in UnderLock => rel' = rel /\ lock' = lock
    BY <1>2, <2>1, <2>2
  <2> QED  BY <2>1, <2>3 DEF CallOK, Awaiting, UnderLock
<1>3. Started'
  BY DEF Rolling, Started
<1> QED  BY <1>1, <1>2, <1>3 DEF Rolling, RollingShape

(* A call that ends promises nothing, and gives back the lock it holds. *)
LEMMA Returns ==
    ASSUME Rolling, NEW c \in Callers, Return(c),
           rel' \in Views, play' \in Plays,
           play.status # "draft" => play'.status # "draft",
           rel'.state = "rolling" /\ rel' # rel => play'.status # "draft",
           rel' # rel => lock \in {NoOne, c}
    PROVE  Rolling'
<1>1. call' = [call EXCEPT ![c] = Done] /\ call'[c] = Done
  BY DEF Return, Rolling, RollingShape
<1>2. lock' \in Callers \cup {NoOne} /\ (lock' # lock => lock = c)
  BY DEF Return, Rolling, RollingShape
<1>3. CallOK(c)'
  BY <1>1, DoneFacts DEF CallOK, Planned, UnderLock
<1> QED  BY <1>1, <1>2, <1>3, DoneFacts, OneMoves


(* After a look at Play that changed nothing a call goes on with its view. *)
LEMMA AfterSyncFacts ==
    ASSUME Rolling, NEW c \in Callers, call[c].pc \in {"observe", "sync"}, NEW failed \in BOOLEAN,
           call' = [call EXCEPT ![c] = AfterSync(c, failed)]
    PROVE  AfterSync(c, failed) \in Calls /\ CallOK(c)'
<1> DEFINE n == [call[c] EXCEPT !.pc = IF c = Monitor THEN "health" ELSE "decide",
                                !.sync = <<>>, !.expect = TRUE]
<1>1. call[c] \in Calls /\ CallOK(c)
  BY DEF Rolling, RollingShape
<1>2. <<>> \in Seq(Changes)
  OBVIOUS
<1>3. n \in Calls /\ n.pc \in {"health", "decide"} /\ n.due = call[c].due /\ n.seen = call[c].seen
  BY <1>1, <1>2 DEF Calls
<1>4. AfterSync(c, failed) \in {Done, n}
  BY DEF AfterSync
<1> HIDE DEF n
<1>5. call'[c] \in {Done, n} /\ call'[c] = AfterSync(c, failed)
  BY <1>4 DEF Rolling, RollingShape
<1>6. CallOK(c)'
  <2>1. CASE call'[c] = Done
    BY <2>1, DoneFacts DEF CallOK, Planned, UnderLock
  <2>2. CASE call'[c] = n
    BY <1>1, <1>3, <2>2 DEF CallOK, Planned, UnderLock
  <2> QED  BY <1>5, <2>1, <2>2
<1> QED  BY <1>3, <1>4, <1>6, DoneFacts

(* A request or a tick begins with the row as it is (release_action,          *)
(* run_rollout_tick).                                                         *)
LEMMA BeginStep ==
    ASSUME Rolling,
           \/ \E c \in People, a \in Actions : ReleaseAction(c, a)
           \/ TickSync \/ TickHealth
    PROVE  Rolling'
<1>s. rel \in Views /\ play \in Plays /\ lock \in Callers \cup {NoOne}
  BY DEF Rolling, RollingShape
<1>1. ASSUME NEW c \in People, NEW a \in Actions, ReleaseAction(c, a) PROVE Rolling'
  <2> DEFINE n == [Done EXCEPT !.pc = "observe", !.op = a, !.seen = rel]
  <2>1. n \in Calls /\ n.pc = "observe" /\ ~n.due /\ n.expect
    BY <1>s, DoneFacts DEF Calls, Done
  <2>2. call' = [call EXCEPT ![c] = n] /\ UNCHANGED <<rel, play, lock>> /\ c \in Callers
    BY <1>1 DEF ReleaseAction, Callers
  <2> HIDE DEF n
  <2>3. CallOK(c)'
    BY <2>1, <2>2 DEF CallOK, Planned, UnderLock, Rolling, RollingShape
  <2> QED  BY <1>s, <2>1, <2>2, <2>3, OneMoves
<1>2. CASE TickSync \/ TickHealth
  <2>1. PICK pc \in {"observe", "health"} : Tick(pc)
    BY <1>2 DEF TickSync, TickHealth
  <2> DEFINE due == (rel.state = "rolling" /\ next = "due")
             n == [Done EXCEPT !.pc = pc, !.op = "step", !.seen = rel, !.due = due]
  <2>2. due \in BOOLEAN /\ (due => rel.state = "rolling")
    OBVIOUS
  <2>3. call' = [call EXCEPT ![Monitor] = n] /\ UNCHANGED <<rel, play, lock>>
    BY <2>1 DEF Tick
  <2> HIDE DEF due
  <2>4. n \in Calls /\ n.pc = pc /\ n.due = due /\ n.seen = rel /\ n.expect
    <3>1. ASSUME NEW e \in BOOLEAN
          PROVE  LET m == [Done EXCEPT !.pc = pc, !.op = "step", !.seen = rel, !.due = e]
                 IN  m \in Calls /\ m.pc = pc /\ m.due = e /\ m.seen = rel /\ m.expect
      BY <1>s, DoneFacts DEF Calls, Done
    <3> QED  BY <2>2, <3>1
  <2> HIDE DEF n
  <2>5. Monitor \in Callers
    BY DEF Callers
  <2>6. CallOK(Monitor)'
    BY <2>2, <2>3, <2>4, <2>5 DEF CallOK, Planned, UnderLock, Rolling, RollingShape
  <2> QED  BY <1>s, <2>3, <2>4, <2>5, <2>6, OneMoves
<1> QED  BY <1>1, <1>2

(* Looking at Play, and recording what it shows (observe,                     *)
(* store_sync_changes, transition_release with from_store).                   *)
LEMMA SyncStep ==
    ASSUME Rolling, NEW c \in Callers, Observe(c) \/ ObserveFails(c) \/ RecordSync(c)
    PROVE  Rolling'
<1>s. /\ rel \in Views /\ play \in Plays /\ lock \in Callers \cup {NoOne}
      /\ call \in [Callers -> Calls] /\ call[c] \in Calls /\ call[c].seen \in Views /\ CallOK(c)
  BY DEF Rolling, RollingShape, Calls
<1>q. ASSUME NEW failed \in BOOLEAN, call[c].pc \in {"observe", "sync"},
             call' = [call EXCEPT ![c] = AfterSync(c, failed)], UNCHANGED <<rel, play, lock>>
      PROVE  Rolling'
  <2>1. AfterSync(c, failed) \in Calls /\ CallOK(c)'
    BY <1>q, AfterSyncFacts
  <2> QED  BY <1>s, <1>q, <2>1, OneMoves
<1>1. CASE ObserveFails(c)
  BY <1>1, <1>q DEF ObserveFails
<1>2. CASE Observe(c)
  <2> DEFINE changes == SyncChanges(call[c].seen, play)
  <2>1. CASE changes = <<>>
    BY <1>2, <1>q, <2>1 DEF Observe
  <2>2. CASE changes # <<>>
    <3> DEFINE n == [call[c] EXCEPT !.pc = "sync", !.sync = changes]
    <3>1. call' = [call EXCEPT ![c] = n] /\ UNCHANGED <<rel, play, lock>> /\ call[c].pc = "observe"
      BY <1>2, <2>2 DEF Observe
    <3>2. changes \in Seq(Changes) /\ play.status # "draft"
      <4>1. LastChange[1] \in Changes
        BY LastFacts
      <4>2. PICK x \in Changes : changes = <<x>> \/ changes = <<x, LastChange[1]>>
        BY <1>s, <2>2, SyncFacts
      <4>3. changes \in Seq(Changes)
        BY <4>1, <4>2, ShortSeqs
      <4>4. play.status # "draft"
        BY <1>s, <2>2, SyncFacts
      <4> QED  BY <4>3, <4>4
    <3> HIDE DEF changes
    <3>3. /\ n \in Calls /\ n.pc = "sync" /\ n.sync = changes /\ n.seen = call[c].seen
          /\ n.due = call[c].due /\ n.expect = call[c].expect
      BY <1>s, <3>2 DEF Calls
    <3>4. SyncOK(n)
      BY <1>s, <2>2, <3>1, <3>3 DEF CallOK, SyncOK, changes
    <3> HIDE DEF n
    <3>5. call'[c] = n
      BY <1>s, <3>1
    <3>6. CallOK(c)'
      BY <1>s, <3>1, <3>2, <3>3, <3>4, <3>5 DEF CallOK, Planned, UnderLock, SyncOK
    <3> QED  BY <1>s, <3>1, <3>3, <3>6, OneMoves
  <2> QED  BY <2>1, <2>2
<1>3. CASE RecordSync(c)
  <2> DEFINE now == Head(call[c].sync)
             r == [rel EXCEPT !.state = now.to, !.fraction = now.frac]
             legal == /\ AsExpected(c) /\ MayMove(rel.state, now.to)
                      /\ now.to = "rolling" /\ rel.state = "rolling" => now.frac > rel.fraction
  <2>1. call[c].pc = "sync" /\ lock = NoOne /\ UNCHANGED <<play, lock>>
    BY <1>3 DEF RecordSync
  <2>2. CASE ~legal
    BY <1>3, <1>q, <2>1, <2>2 DEF RecordSync
  <2>3. CASE legal
    <3>1. SyncOK(call[c]) /\ play.status # "draft"
      BY <1>s, <2>1 DEF CallOK
    <3>2. now \in Changes /\ (Len(call[c].sync) > 1 => Tail(call[c].sync) = LastChange)
      <4> DEFINE y == LastChange[1]
      <4>1. y \in Changes /\ LastChange = <<y>>
        BY LastFacts
      <4>2. CASE call[c].expect
        <5>1. PICK p \in Plays : call[c].sync = SyncChanges(call[c].seen, p)
          BY <3>1, <4>2 DEF SyncOK
        <5>2. PICK x \in Changes : call[c].sync = <<x>> \/ call[c].sync = <<x, y>>
          BY <1>s, <3>1, <5>1, SyncFacts DEF SyncOK
        <5> HIDE DEF y
        <5>3. CASE call[c].sync = <<x>>
          BY <4>1, <5>3, ShortSeqs
        <5>4. CASE call[c].sync = <<x, y>>
          BY <4>1, <5>4, ShortSeqs
        <5> QED  BY <5>2, <5>3, <5>4
      <4>3. CASE ~call[c].expect
        <5>1. call[c].sync = LastChange
          BY <3>1, <4>3 DEF SyncOK
        <5> HIDE DEF y
        <5> QED  BY <4>1, <5>1, ShortSeqs
      <4> QED  BY <4>2, <4>3
    <3>3. r \in Views
      BY <1>s, <3>2 DEF Views, Changes
    <3>4. LastChange \in Seq(Changes) /\ LastChange # <<>> /\ <<>> \in Seq(Changes)
      BY RolloutAssumption DEF LastChange, Changes, States, Fractions
    <3>5. rel' = r
      BY <1>3, <2>3 DEF RecordSync, WriteRow
    <3> DEFINE n == IF Len(call[c].sync) > 1
                    THEN [call[c] EXCEPT !.sync = Tail(call[c].sync), !.expect = FALSE]
                    ELSE IF c = Monitor THEN Done
                    ELSE [call[c] EXCEPT !.pc = "decide", !.seen = r, !.sync = <<>>, !.expect = TRUE]
    <3>6. call' = [call EXCEPT ![c] = n]
      BY <1>3, <2>3 DEF RecordSync
    <3> HIDE DEF r, now, legal
    <3>7. \/ /\ n \in Calls /\ n.pc = "sync" /\ ~n.expect /\ n.sync = LastChange
             /\ n.due = call[c].due /\ n.seen = call[c].seen
          \/ n \in Calls /\ n.pc \in {"idle", "decide"}
      BY <1>s, <2>1, <3>2, <3>3, <3>4, DoneFacts DEF Calls
    <3> HIDE DEF n
    <3>8. call'[c] = n
      BY <1>s, <3>6
    <3>9. CallOK(c)'
      BY <1>s, <2>1, <3>1, <3>4, <3>7, <3>8 DEF CallOK, Planned, UnderLock, SyncOK
    <3> QED  BY <1>s, <2>1, <3>1, <3>3, <3>5, <3>6, <3>7, <3>9, OneMoves
  <2> QED  BY <2>2, <2>3
<1> QED  BY <1>1, <1>2, <1>3


(* A change is planned. *)
LEMMA Plans ==
    ASSUME Rolling, NEW c \in Callers, NEW to \in Widening \cup {"paused", "halted"},
           NEW f \in Fractions, NEW e \in BOOLEAN,
           call' = [call EXCEPT ![c] = Plan(c, to, f, e)], UNCHANGED <<rel, play, lock>>,
           to \in Widening => /\ e /\ f >= call[c].seen.fraction
                              /\ call[c].op = "step" => call[c].seen.state = "rolling"
    PROVE  Rolling'
<1> DEFINE n == Plan(c, to, f, e)
<1>1. /\ rel \in Views /\ play \in Plays /\ lock \in Callers \cup {NoOne}
      /\ call \in [Callers -> Calls] /\ call[c] \in Calls
  BY DEF Rolling, RollingShape
<1>2. /\ n \in Calls /\ n.pc = "change" /\ n.to = to /\ n.frac = f /\ n.expect = e
      /\ n.seen = call[c].seen /\ n.op = call[c].op
  BY <1>1 DEF Plan, Calls, Widening, States
<1> HIDE DEF n
<1>3. call'[c] = n
  BY <1>1 DEF n
<1>4. CallOK(c)'
  BY <1>2, <1>3 DEF CallOK, Planned, UnderLock, Widening
<1> QED  BY <1>1, <1>2, <1>4, OneMoves DEF n

(* The action of a request (release_action), and an approval                  *)
(* (approve_release).                                                         *)
LEMMA DecideStep ==
    ASSUME Rolling, NEW c \in Callers, DecideAction(c) \/ Approve(c)
    PROVE  Rolling'
<1>s. /\ rel \in Views /\ play \in Plays /\ lock \in Callers \cup {NoOne}
      /\ call \in [Callers -> Calls] /\ call[c] \in Calls /\ call[c].seen \in Views /\ Started
  BY DEF Rolling, RollingShape, Calls
<1>1. CASE Approve(c)
  <2>1. rel' \in Views /\ rel'.state = rel.state /\ lock = NoOne /\ Return(c) /\ UNCHANGED play
    BY <1>1, <1>s DEF Approve, Views
  <2> QED  BY <1>s, <2>1, Returns DEF Started
<1>2. CASE DecideAction(c)
  <2> DEFINE r == call[c].seen
             a == call[c].op
  <2>1. CASE a \notin Allowed(r) /\ Return(c)
    BY <1>2, <1>s, <2>1, Returns DEF DecideAction
  <2>2. ASSUME a \in Allowed(r), NEW f \in Fractions,
               a = "raise" => f > r.fraction,
               a # "raise" => f = CASE a = "complete" -> Full
                                    [] a = "resume" /\ r.fraction = 0 -> 1
                                    [] OTHER -> r.fraction,
               call' = [call EXCEPT ![c] =
                   CASE a = "pause"  -> Plan(c, "paused", f, FALSE)
                     [] a = "halt"   -> Plan(c, "halted", f, FALSE)
                     [] a = "resume" -> Plan(c, "rolling", f, TRUE)
                     [] OTHER        -> Plan(c, IF f = Full THEN "complete" ELSE "rolling", f, TRUE)],
               a # "approve", UNCHANGED <<rel, play, lock>>
        PROVE  Rolling'
    <3>1. a \in Actions /\ a # "step"
      BY <2>2 DEF Allowed, Actions
    <3>2. f >= r.fraction
      <4>1. r.fraction \in Nat /\ r.fraction <= Full /\ f \in Nat /\ Full \in Nat
        BY <1>s, RolloutAssumption DEF Views, Fractions
      <4>2. CASE a = "raise"
        BY <2>2, <4>1, <4>2
      <4>3. CASE a = "complete"
        BY <2>2, <4>1, <4>3
      <4>4. CASE a = "resume" /\ r.fraction = 0
        BY <4>1, <4>4
      <4>5. CASE a \notin {"raise", "complete"} /\ ~(a = "resume" /\ r.fraction = 0)
        BY <2>2, <4>1, <4>5
      <4> QED  BY <4>2, <4>3, <4>4, <4>5
    <3>3. CASE a = "pause"
      <4>1. call' = [call EXCEPT ![c] = Plan(c, "paused", f, FALSE)]
        BY <2>2, <3>3
      <4> QED  BY <2>2, <4>1, Plans DEF Widening
    <3>4. CASE a = "halt"
      <4>1. call' = [call EXCEPT ![c] = Plan(c, "halted", f, FALSE)]
        BY <2>2, <3>4
      <4> QED  BY <2>2, <4>1, Plans DEF Widening
    <3>5. CASE a = "resume"
      <4>1. call' = [call EXCEPT ![c] = Plan(c, "rolling", f, TRUE)]
        BY <2>2, <3>5
      <4> QED  BY <2>2, <3>1, <3>2, <4>1, Plans DEF Widening
    <3>6. CASE a \notin {"pause", "halt", "resume"}
      <4> DEFINE to == IF f = Full THEN "complete" ELSE "rolling"
      <4>1. call' = [call EXCEPT ![c] = Plan(c, to, f, TRUE)]
        BY <2>2, <3>6
      <4>2. to \in Widening
        BY DEF Widening
      <4> HIDE DEF to
      <4> QED  BY <2>2, <3>1, <3>2, <4>1, <4>2, Plans
    <3> QED  BY <3>3, <3>4, <3>5, <3>6
  <2> QED  BY <1>2, <2>1, <2>2 DEF DecideAction
<1> QED  BY <1>1, <1>2

(* The rest of the monitor's pass: a due step, or a halt for the crash rate   *)
(* (run_rollout_tick).                                                        *)
LEMMA HealthStep ==
    ASSUME Rolling, Health
    PROVE  Rolling'
<1>1. PICK sick \in {TRUE, FALSE, unwell}, breach \in BOOLEAN : CheckHealth(sick, breach)
  BY DEF Health, CrashRateSkipped, CrashRateGood, CrashRateBreached, CrashRateUnavailable
<1> DEFINE r == call[Monitor].seen
           Rests == (Threshold /\ sick) \/ ~call[Monitor].due \/ Awaiting(r) \/ r.fraction = Full
           to == IF r.fraction + 1 = Full THEN "complete" ELSE "rolling"
<1>2. /\ Monitor \in Callers /\ call[Monitor] \in Calls /\ CallOK(Monitor) /\ r \in Views
      /\ rel \in Views /\ play \in Plays /\ lock \in Callers \cup {NoOne}
  BY DEF Callers, Rolling, RollingShape, Calls
<1>3. UNCHANGED <<rel, play, lock>> /\ call[Monitor].pc = "health"
  BY <1>1 DEF CheckHealth
<1>4. CASE breach
  <2>1. call' = [call EXCEPT ![Monitor] = Plan(Monitor, "halted", r.fraction, FALSE)]
    BY <1>1, <1>4 DEF CheckHealth
  <2>2. r.fraction \in Fractions
    BY <1>2 DEF Views
  <2> QED  BY <1>2, <1>3, <2>1, <2>2, Plans DEF Widening
<1>5. CASE ~breach /\ Rests
  <2>1. call' = [call EXCEPT ![Monitor] = Done]
    BY <1>1, <1>5 DEF CheckHealth
  <2>2. CallOK(Monitor)'
    <3>1. call'[Monitor] = Done
      BY <1>2, <2>1 DEF Rolling, RollingShape
    <3> QED  BY <3>1, DoneFacts DEF CallOK, Planned, UnderLock
  <2> QED  BY <1>2, <1>3, <2>1, <2>2, DoneFacts, OneMoves
<1>6. CASE ~breach /\ ~Rests
  <2>1. call' = [call EXCEPT ![Monitor] = Plan(Monitor, to, r.fraction + 1, TRUE)]
    BY <1>1, <1>6 DEF CheckHealth
  <2>2. r.fraction + 1 \in Fractions /\ r.fraction + 1 >= r.fraction
    BY <1>2, <1>6, RolloutAssumption DEF Views, Fractions
  <2>3. to \in Widening
    BY DEF Widening
  <2>4. r.state = "rolling"
    BY <1>2, <1>3, <1>6 DEF CallOK
  <2> HIDE DEF to
  <2> QED  BY <1>2, <1>3, <2>1, <2>2, <2>3, <2>4, Plans
<1> QED  BY <1>4, <1>5, <1>6


(* A change takes the lock, and finds the row as it was planned for           *)
(* (transition_release).                                                      *)
LEMMA StartStep ==
    ASSUME Rolling, NEW c \in Callers, StartChange(c)
    PROVE  Rolling'
<1> DEFINE legal == /\ AsExpected(c) /\ MayMove(rel.state, call[c].to) /\ Approved(c)
                    /\ call[c].to = "rolling" /\ rel.state = "rolling" => call[c].frac > rel.fraction
<1>s. /\ rel \in Views /\ play \in Plays /\ lock \in Callers \cup {NoOne}
      /\ call \in [Callers -> Calls] /\ call[c] \in Calls /\ CallOK(c)
      /\ call[c].pc = "change" /\ lock = NoOne /\ UNCHANGED <<rel, play>>
  BY DEF Rolling, RollingShape, StartChange
<1>1. CASE ~legal
  <2>1. Return(c)
    BY <1>1 DEF StartChange
  <2> QED  BY <1>s, <2>1, Returns
<1>2. CASE legal
  <2> DEFINE f == IF call[c].to \in {"paused", "halted"} THEN rel.fraction ELSE call[c].frac
             n == [call[c] EXCEPT !.pc = "store", !.seen = rel, !.frac = f]
  <2>1. lock' = c
    BY <1>2 DEF StartChange
  <2>2. call' = [call EXCEPT ![c] = n]
    <3>1. call' = [call EXCEPT ![c].pc = "store", ![c].seen = rel,
                       ![c].frac = IF call[c].to \in {"paused", "halted"} THEN rel.fraction ELSE @]
      BY <1>2 DEF StartChange
    <3> HIDE DEF legal
    <3> QED  BY <1>s, <3>1
  <2>3. f \in Fractions
    BY <1>s DEF Views, Calls
  <2>4. rel.fraction \in Nat /\ call[c].frac \in Nat /\ call[c].seen.fraction \in Nat
    BY <1>s DEF Views, Calls, Fractions
  <2>5. f >= rel.fraction
    BY <1>s, <1>2, <2>4 DEF CallOK, AsExpected, Planned, Widening
  <2>6. call[c].to \in Widening => ~Awaiting(rel) /\ (call[c].op = "step" => rel.state = "rolling")
    BY <1>s, <1>2 DEF CallOK, AsExpected, Approved, Widening
  <2> HIDE DEF f
  <2>7. /\ n \in Calls /\ n.pc = "store" /\ n.seen = rel /\ n.frac = f
        /\ n.to = call[c].to /\ n.op = call[c].op
    BY <1>s, <2>3 DEF Calls
  <2> HIDE DEF n
  <2>8. call'[c] = n
    BY <1>s, <2>2
  <2>9. CallOK(c)'
    BY <1>s, <1>2, <2>1, <2>5, <2>6, <2>7, <2>8 DEF CallOK, Planned, UnderLock, Awaiting
  <2> QED  BY <1>s, <2>1, <2>2, <2>7, <2>9, OneMoves
<1> QED  BY <1>1, <1>2

(* What a change does in Play when it goes ahead (apply_play). *)
LEMMA AppliedFacts ==
    ASSUME Rolling, NEW c \in Callers, call[c].pc = "store"
    PROVE  /\ Applied(c) \in Plays
           /\ call[c].to = "paused" => Applied(c) = play
           /\ call[c].to # "paused" => Applied(c).status # "draft"
           /\ call[c].to = "halted" => Applied(c).status = "halted"
<1>1. /\ play \in Plays /\ call[c] \in Calls
      /\ call[c].to \in Widening \cup {"paused", "halted"}
  BY DEF Rolling, RollingShape, CallOK, Planned
<1>2. call[c].frac \in Fractions /\ Full \in Fractions
  BY <1>1, RolloutAssumption DEF Calls, Fractions
<1>3. CASE call[c].to = "paused"
  BY <1>1, <1>3 DEF Applied
<1>4. CASE call[c].to = "halted"
  <2>1. Applied(c) = [status |-> "halted", fraction |-> call[c].frac]
    BY <1>4 DEF Applied
  <2> QED  BY <1>2, <1>4, <2>1 DEF Plays
<1>5. CASE call[c].to \in Widening
  <2>1. Applied(c) \in {[status |-> "completed", fraction |-> Full],
                        [status |-> "in_progress", fraction |-> call[c].frac]}
    BY <1>5 DEF Applied, Widening
  <2> QED  BY <1>2, <1>5, <2>1 DEF Plays, Widening
<1> QED  BY <1>1, <1>3, <1>4, <1>5

(* The change in Play, and the row written after it (transition_release). *)
LEMMA ChangeStep ==
    ASSUME Rolling, NEW c \in Callers, StoreAnswers(c) \/ StoreFails(c) \/ WriteChange(c)
    PROVE  Rolling'
<1>s. /\ rel \in Views /\ play \in Plays /\ lock \in Callers \cup {NoOne} /\ Started
      /\ call \in [Callers -> Calls] /\ call[c] \in Calls /\ CallOK(c)
  BY DEF Rolling, RollingShape
<1>1. CASE StoreFails(c)
  <2>1. call[c].pc = "store" /\ Return(c) /\ UNCHANGED rel /\ play' \in {play, Applied(c)}
    BY <1>1 DEF StoreFails
  <2>2. play' \in Plays /\ (play.status # "draft" => play'.status # "draft")
    BY <1>s, <2>1, AppliedFacts
  <2> QED  BY <1>s, <2>1, <2>2, Returns
<1>2. CASE StoreAnswers(c)
  <2>1. CASE Return(c) /\ UNCHANGED play
    BY <1>2, <1>s, <2>1, Returns DEF StoreAnswers
  <2>2. CASE play' = Applied(c) /\ call' = [call EXCEPT ![c].pc = "write"] /\ UNCHANGED lock
    <3> DEFINE n == [call[c] EXCEPT !.pc = "write"]
    <3>1. call[c].pc = "store" /\ UNCHANGED rel /\ call' = [call EXCEPT ![c] = n]
      BY <1>2, <1>s, <2>2 DEF StoreAnswers
    <3>2. /\ n \in Calls /\ n.pc = "write" /\ n.to = call[c].to /\ n.frac = call[c].frac
          /\ n.seen = call[c].seen /\ n.op = call[c].op
      BY <1>s DEF Calls
    <3> HIDE DEF n
    <3>3. /\ play' \in Plays /\ (play.status # "draft" => play'.status # "draft")
          /\ (call[c].to # "paused" => play'.status # "draft")
      BY <1>s, <2>2, <3>1, AppliedFacts
    <3>4. call'[c] = n
      BY <1>s, <3>1
    <3>5. CallOK(c)'
      BY <1>s, <2>2, <3>1, <3>2, <3>3, <3>4 DEF CallOK, Planned, UnderLock, Awaiting
    <3> QED  BY <1>s, <2>2, <3>1, <3>2, <3>3, <3>5, OneMoves
  <2> QED  BY <1>2, <2>1, <2>2 DEF StoreAnswers
<1>3. CASE WriteChange(c)
  <2>1. /\ call[c].pc = "write" /\ Return(c) /\ UNCHANGED play /\ lock = c
        /\ rel' = [rel EXCEPT !.state = call[c].to, !.fraction = call[c].frac]
        /\ call[c].to # "paused" => play.status # "draft"
    BY <1>3, <1>s DEF WriteChange, WriteRow, CallOK, UnderLock
  <2>2. rel' \in Views /\ rel'.state = call[c].to
    BY <1>s, <2>1 DEF Views, Calls
  <2> QED  BY <1>s, <2>1, <2>2, Returns
<1> QED  BY <1>1, <1>2, <1>3

(* Changes made in Play Console keep the invariant: it goes on from what Play *)
(* shows, and no release becomes a draft again.                               *)
LEMMA ConsoleStep ==
    ASSUME Rolling,
           \E s \in {"in_progress", "halted", "completed", "missing"}, f \in Fractions : Console(s, f)
    PROVE  Rolling'
<1>1. PICK s \in {"in_progress", "halted", "completed", "missing"}, f \in Fractions : Console(s, f)
  OBVIOUS
<1>2. play' \in Plays /\ play'.status # "draft" /\ UNCHANGED <<rel, call, lock>>
  BY <1>1 DEF Console, Plays
<1>3. ASSUME NEW c \in Callers PROVE CallOK(c)'
  <2>1. CallOK(c)
    BY DEF Rolling
  <2> QED  BY <1>2, <2>1 DEF CallOK, Awaiting
<1> QED  BY <1>2, <1>3 DEF Rolling, RollingShape, Started

-----------------------------------------------------------------------------
(* The invariant holds at the start: an uploaded release that rolls, or a     *)
(* draft.                                                                     *)
LEMMA RollingInit == RolloutInit => Rolling
<1> SUFFICES ASSUME RolloutInit PROVE Rolling
  OBVIOUS
<1>1. rel \in Views /\ play \in Plays /\ Started
  BY RolloutAssumption DEF RolloutInit, Views, Plays, States, Fractions, Started
<1>2. call \in [Callers -> Calls] /\ \A c \in Callers : call[c].pc = "idle"
  BY DoneFacts DEF RolloutInit
<1>3. \A c \in Callers : CallOK(c)
  BY <1>2 DEF CallOK, Planned, UnderLock
<1> QED  BY <1>1, <1>2, <1>3 DEF Rolling, RollingShape, RolloutInit

(* Every step keeps the invariant. *)
LEMMA RollingStep == Rolling /\ [RolloutNext]_rolloutVars => Rolling'
<1> SUFFICES ASSUME Rolling, [RolloutNext]_rolloutVars PROVE Rolling'
  OBVIOUS
<1>1. ASSUME NEW c \in Callers, CallStep(c) PROVE Rolling'
  BY <1>1, SyncStep, DecideStep, StartStep, ChangeStep DEF CallStep
<1>2. CASE \/ \E c \in People, a \in Actions : ReleaseAction(c, a)
           \/ TickSync \/ TickHealth
  BY <1>2, BeginStep
<1>3. CASE Health
  BY <1>3, HealthStep
<1>4. ASSUME NEW c \in People, CutShort(c) PROVE Rolling'
  <2>1. c \in Callers /\ Return(c) /\ UNCHANGED <<rel, play>>
    BY <1>4 DEF CutShort, Callers
  <2> QED  BY <2>1, Returns DEF Rolling, RollingShape
<1>5. CASE \E s \in {"in_progress", "halted", "completed", "missing"}, f \in Fractions : Console(s, f)
  BY <1>5, ConsoleStep
<1>6. CASE TimePasses \/ UNCHANGED rolloutVars
  <2>1. UNCHANGED <<rel, play, call, lock>>
    BY <1>6 DEF TimePasses, rolloutVars
  <2>2. ASSUME NEW c \in Callers PROVE CallOK(c)'
    <3>1. CallOK(c)
      BY DEF Rolling
    <3> QED  BY <2>1, <3>1 DEF CallOK, Awaiting
  <2> QED  BY <2>1, <2>2 DEF Rolling, RollingShape, Started
<1> QED  BY <1>1, <1>2, <1>3, <1>4, <1>5, <1>6 DEF RolloutNext

(* The invariant holds in every state. *)
THEOREM RollingAlways == RolloutSpec => []Rolling
BY RollingInit, RollingStep, PTL DEF RolloutSpec

(* Oore widens a rollout in Play only for a release that does not wait for an *)
(* approval, and its schedule only while the release rolls in Oore and is in  *)
(* progress in Play: a pause, halt or discard made meanwhile holds (`expect`  *)
(* of transition_release, play_allows).                                       *)
THEOREM StopsAlwaysHold == RolloutSpec => StopsHold
<1> DEFINE Holds ==
        \A c \in Callers :
            call[c].pc = "store" /\ call' # call /\ play' # play /\ play'.status # "halted" =>
                /\ ~Awaiting(rel)
                /\ call[c].op = "step" => rel.state = "rolling" /\ play.status = "in_progress"
<1>1. ASSUME Rolling, RolloutNext PROVE Holds
  <2> SUFFICES ASSUME NEW c \in Callers, call[c].pc = "store", call' # call, play' # play,
                      play'.status # "halted"
               PROVE  /\ ~Awaiting(rel)
                      /\ call[c].op = "step" => rel.state = "rolling" /\ play.status = "in_progress"
    OBVIOUS
  <2>1. /\ CallOK(c) /\ lock = c /\ call[c].seen = rel /\ Started
        /\ call[c].to \in Widening \cup {"paused", "halted"}
    BY <1>1 DEF Rolling, CallOK, UnderLock, Planned
  <2>2. PICK d \in Callers : StoreAnswers(d) \/ StoreFails(d)
    BY <1>1
    DEF RolloutNext, CallStep, Observe, ObserveFails, RecordSync, DecideAction, Approve, StartChange,
        WriteChange, ReleaseAction, TickSync, TickHealth, Tick, Health, CrashRateSkipped, CrashRateGood,
        CrashRateBreached, CrashRateUnavailable, CheckHealth, CutShort, TimePasses, Console
  <2>3. call[d].pc = "store" /\ CallOK(d)
    BY <1>1, <2>2 DEF StoreAnswers, StoreFails, Rolling
  <2>4. d = c
    BY <2>1, <2>3 DEF CallOK, UnderLock
  <2>5. play' = Applied(c) /\ PlayAllows(rel.state, call[c].to, play.status)
    BY <2>1, <2>2, <2>4 DEF StoreAnswers, StoreFails
  <2>6. call[c].to \in Widening
    BY <1>1, <2>1, <2>5, AppliedFacts
  <2>7. ~Awaiting(rel) /\ (call[c].op = "step" => rel.state = "rolling")
    BY <2>1, <2>6 DEF CallOK, UnderLock
  <2>8. rel.state = "rolling" => play.status = "in_progress"
    BY <2>1, <2>5, <2>6 DEF PlayAllows, Widening, Started
  <2> QED  BY <2>7, <2>8
<1>2. Rolling /\ [RolloutNext]_rolloutVars => [Holds]_rolloutVars
  BY <1>1
<1> QED  BY <1>2, RollingAlways, PTL DEF RolloutSpec, StopsHold

(* The share recorded for a release never falls, and one that ended stays as  *)
(* it ended, whatever stale view a change was planned from                    *)
(* (transition_release, store_sync_changes).                                  *)
THEOREM SharesNeverFall == RolloutSpec => ShareNeverFalls
<1> DEFINE Grows == /\ rel'.fraction >= rel.fraction
                    /\ Terminal(rel.state) => rel' = rel
<1>1. ASSUME Rolling, RolloutNext PROVE Grows
  <2>s. rel \in Views /\ rel.fraction \in Nat
    BY <1>1 DEF Rolling, RollingShape, Views, Fractions
  <2>1. CASE UNCHANGED rel
    BY <2>s, <2>1
  <2>2. ASSUME NEW c \in Callers, RecordSync(c), rel' # rel PROVE Grows
    <3> DEFINE now == Head(call[c].sync)
    <3>1. /\ rel' = [rel EXCEPT !.state = now.to, !.fraction = now.frac]
          /\ AsExpected(c) /\ MayMove(rel.state, now.to) /\ call[c].pc = "sync"
      BY <2>2 DEF RecordSync, WriteRow
    <3>2. call[c] \in Calls /\ call[c].seen \in Views /\ SyncOK(call[c])
      BY <1>1, <3>1 DEF Rolling, RollingShape, Calls, CallOK
    <3>3. ~Terminal(rel.state)
      BY <3>1 DEF MayMove, Terminal
    <3>4. CASE call[c].expect
      <4>1. PICK p \in Plays : call[c].sync = SyncChanges(call[c].seen, p)
        BY <3>2, <3>4 DEF SyncOK
      <4> DEFINE y == LastChange[1]
      <4>2. PICK x \in Changes : /\ x.frac >= call[c].seen.fraction
                                 /\ call[c].sync = <<x>> \/ call[c].sync = <<x, y>>
        BY <3>2, <4>1, SyncFacts DEF SyncOK
      <4>3. y \in Changes
        BY LastFacts
      <4> HIDE DEF y
      <4>4. now = x
        BY <4>2, <4>3, ShortSeqs
      <4>5. call[c].seen.fraction = rel.fraction
        BY <3>1, <3>4 DEF AsExpected
      <4> HIDE DEF now
      <4> QED  BY <2>s, <3>1, <3>3, <4>2, <4>4, <4>5 DEF Views
    <3>5. CASE ~call[c].expect
      <4>1. now = [to |-> "complete", frac |-> Full]
        BY <3>2, <3>5 DEF SyncOK, LastChange
      <4>2. now.frac = Full
        BY <4>1
      <4> HIDE DEF now
      <4> QED  BY <2>s, <3>1, <3>3, <4>2, RolloutAssumption DEF Views, Fractions
    <3> QED  BY <3>4, <3>5
  <2>3. ASSUME NEW c \in Callers, Approve(c), rel' # rel PROVE Grows
    <3>1. rel' = [rel EXCEPT !.approved = TRUE] /\ Awaiting(rel)
      BY <2>3 DEF Approve
    <3> QED  BY <2>s, <3>1 DEF Views, Awaiting
  <2>4. ASSUME NEW c \in Callers, WriteChange(c) PROVE Grows
    <3>1. /\ rel' = [rel EXCEPT !.state = call[c].to, !.fraction = call[c].frac]
          /\ MayMove(rel.state, call[c].to) /\ call[c].frac >= rel.fraction
      BY <1>1, <2>4 DEF WriteChange, WriteRow, Rolling, CallOK, UnderLock
    <3> QED  BY <2>s, <3>1 DEF Views, MayMove, Terminal
  <2> QED
    BY <1>1, <2>1, <2>2, <2>3, <2>4
    DEF RolloutNext, CallStep, Observe, ObserveFails, DecideAction, StartChange, StoreAnswers, StoreFails,
        ReleaseAction, TickSync, TickHealth, Tick, Health, CrashRateSkipped, CrashRateGood,
        CrashRateBreached, CrashRateUnavailable, CheckHealth, CutShort, TimePasses, Console
<1>2. Rolling /\ [RolloutNext]_rolloutVars => [Grows]_rolloutVars
  BY <1>1
<1> QED  BY <1>2, RollingAlways, PTL DEF RolloutSpec, ShareNeverFalls
=============================================================================
