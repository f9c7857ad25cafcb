------------------------------ MODULE Dispatch ------------------------------
(***************************************************************************)
(* Build dispatch: the daemon's request handlers and monitors, and the     *)
(* runner agents, over the builds table.                                   *)
(*                                                                         *)
(* A handler or monitor is a task that issues one database statement or    *)
(* transaction per step, so between what it read and what it writes every  *)
(* other task may run.  transition_build is two such steps: the SELECT of  *)
(* the row (LoadRow) and the UPDATE guarded by the status it saw           *)
(* (ApplyRow, or LoseRace when the status has changed).                    *)
(*                                                                         *)
(* A request may outlive its client: a request that timed out (30 s) or    *)
(* whose runner died is an orphan, which the server finishes or drops.     *)
(*                                                                         *)
(* Time is abstracted to "past its deadline" flags.  aged[b]: the lease,   *)
(* build timeout or approval deadline of b's current state has passed;     *)
(* stale[r]: r has missed heartbeats for RUNNER_LOST_SECS; settled: this   *)
(* daemon process has been up for RUNNER_LOST_SECS.                        *)
(***************************************************************************)
EXTENDS BuildTable

CONSTANTS
    Workers,    \* request handlers that can be in flight at once
    Features    \* optional parts of the environment that may act

AllFeatures == {"approval", "supersede", "source", "pause", "incident", "barrier",
                "limits", "cancel", "retention", "timeout", "crash", "partition",
                "restart", "lease", "overdue", "lost"}

Monitors == {"lease_monitor", "timeout_monitor", "heartbeat_monitor"}

ASSUME DispatchAssumption ==
    /\ Features \subseteq AllFeatures
    /\ Workers \cap Monitors = {}

Tasks == Workers \cup Monitors

VARIABLES
    task,     \* what each handler and monitor is doing
    aged, stale, settled,
    up,       \* the agent process runs
    linked,   \* the agent can reach the daemon
    cached,   \* build_slots the agent took from its last heartbeat
    jobs,     \* the agents' build tasks, not yet joined
    active,   \* active_build_ids of each agent
    started   \* how often build commands were started, over all agents

clockVars == <<aged, stale, settled>>
agentVars == <<up, linked, cached, jobs, active, started>>
vars == <<tableVars, task, clockVars, agentVars>>

(* run_claimed_job: one task per claim, so the grant identifies the task. *)
Phases == {"starting", "executing", "succeeded", "failed", "over"}
Jobs == [run : Runners, b : Builds, cap : Nat, phase : Phases]
Rows == [b : Builds, to : TransitionTargets]
Reads == [b : Builds, to : TransitionTargets, from : RowStates]

TaskRecords ==
    [kind : {"idle", "claim", "report", "cancel", "requeue", "overdue", "approvals", "lost"},
     pc : {"done", "release", "preflight", "take", "owner", "rows", "reply"},
     run : Runners \cup {NoRunner},   \* the runner that asks
     live : BOOLEAN,                  \* it is still waiting for the answer
     active : SUBSET Builds,          \* active_build_ids of a claim
     who : SUBSET Runners,            \* runners whose builds are to be released
     rows : SUBSET Rows,              \* selected rows, not yet transitioned
     cur : SUBSET Reads,              \* the row transition_build has loaded
     pick : SUBSET Builds,            \* the build claimed or reported on
     goal : TransitionTargets \cup {"absent"},
     token : Nat,
     reply : {"none", "nojob", "job", "ok", "refused"}]

Idle == [kind |-> "idle", pc |-> "done", run |-> NoRunner, live |-> FALSE,
         active |-> {}, who |-> {}, rows |-> {}, cur |-> {}, pick |-> {},
         goal |-> "absent", token |-> 0, reply |-> "none"]

DispatchTypeOK ==
    /\ TypeOK
    /\ task \in [Tasks -> TaskRecords]
    /\ aged \in [Builds -> BOOLEAN]
    /\ stale \in [Runners -> BOOLEAN]
    /\ settled \in BOOLEAN
    /\ up \in [Runners -> BOOLEAN]
    /\ linked \in [Runners -> BOOLEAN]
    /\ cached \in [Runners -> Nat]
    /\ jobs \subseteq Jobs
    /\ active \in [Runners -> SUBSET Builds]
    /\ started \in [Builds -> Nat]

AtLeastOne(n) == IF n > 1 THEN n ELSE 1

Init ==
    /\ TableInit
    /\ task = [t \in Tasks |-> Idle]
    /\ aged = [b \in Builds |-> FALSE]
    /\ stale = [r \in Runners |-> FALSE]
    /\ settled = FALSE
    /\ up = [r \in Runners |-> TRUE]
    /\ linked = [r \in Runners |-> TRUE]
    /\ cached = [r \in Runners |-> AtLeastOne(slots[r])]
    /\ jobs = {}
    /\ active = [r \in Runners |-> {}]
    /\ started = [b \in Builds |-> 0]

(* Every write of a row sets updated_at: a new state has its whole deadline. *)
Touch == aged' = [b \in Builds |-> aged[b] /\ status'[b] = status[b]
                                           /\ approval'[b] = approval[b]]

OnlyTable == Touch /\ UNCHANGED <<stale, settled, agentVars>>
OnlyTask == UNCHANGED <<tableVars, clockVars, agentVars>>

-----------------------------------------------------------------------------
(* transition_build, for whichever task calls it.                           *)

(* The row of task s is dealt with, successfully or not: a report answers   *)
(* its runner; a monitor or a cancellation ends with its last row.          *)
Settled(s, ok) ==
    IF s.kind = "report"
    THEN [s EXCEPT !.rows = {}, !.cur = {}, !.pc = "reply",
                   !.reply = IF ok THEN "ok" ELSE "refused"]
    ELSE IF s.rows = {} /\ s.who = {} /\ s.kind # "claim"
    THEN Idle
    ELSE [s EXCEPT !.cur = {}]

(* SELECT the row and check can_transition_to. *)
LoadRow(t) ==
    /\ task[t].cur = {}
    /\ task[t].pc \in {"release", "rows"}
    /\ \E row \in task[t].rows :
        LET rest == [task[t] EXCEPT !.rows = @ \ {row}]
        IN  task' = [task EXCEPT ![t] =
                IF CanTransition(status[row.b], row.to)
                THEN [rest EXCEPT !.cur =
                        {[b |-> row.b, to |-> row.to, from |-> status[row.b]]}]
                ELSE Settled(rest, FALSE)]
    /\ OnlyTask

(* A slip: the UPDATE without AND status = ?. *)
MutApplyUnguarded(t) ==
    \E c \in task[t].cur :
        /\ IF c.to \in Terminal \cup {"queued"} THEN EndRows({c.b}, c.to)
                                                ELSE MarkRows({c.b}, c.to)
        /\ UNCHANGED <<issued, approval, repo, deliveries, policyVars>>
        /\ task' = [task EXCEPT ![t] = Settled(@, TRUE)]
        /\ OnlyTable

(* UPDATE ... WHERE status = the status read: one row changed, commit. *)
ApplyRow(t) ==
    \E c \in task[t].cur :
        /\ TransitionBuild(c.b, c.from, c.to)
        /\ task' = [task EXCEPT ![t] = Settled(@, TRUE)]
        /\ OnlyTable

(* ... or no row changed: 409 concurrent_modification. *)
LoseRace(t) ==
    \E c \in task[t].cur :
        /\ status[c.b] # c.from
        /\ task' = [task EXCEPT ![t] = Settled(@, FALSE)]
        /\ OnlyTask

-----------------------------------------------------------------------------
(* The claim request: runner agent's claim_job, daemon's claim_job.         *)

JobsOf(r) == {j \in jobs : j.run = r}

Request(kind, r) == [Idle EXCEPT !.kind = kind, !.run = r, !.live = TRUE]

(* The agent waits for the answer to a claim. *)
Claiming(r) == \E t \in Workers : task[t].live /\ task[t].kind = "claim" /\ task[t].run = r

(* run_runner_forever: claim while a slot is free, one request at a time,   *)
(* naming the builds still running here.                                    *)
SendClaim(t, r) ==
    /\ t \in Workers /\ task[t] = Idle
    /\ up[r] /\ linked[r]
    /\ ~Claiming(r)
    /\ Cardinality(JobsOf(r)) < cached[r]
    /\ task' = [task EXCEPT ![t] = [Request("claim", r) EXCEPT
                    !.pc = "release", !.active = active[r], !.who = {r}]]
    /\ OnlyTask

(* release_runner_builds_except: SELECT the builds the runner still holds;  *)
(* running ones are to fail, assigned ones to go back to the queue.         *)
ReleaseSelect(t) ==
    /\ task[t].pc = "release" /\ task[t].rows = {} /\ task[t].cur = {}
    /\ \E r \in task[t].who :
        LET lost == {[b |-> b, to |-> IF status[b] = "running" THEN "failed" ELSE "queued"] :
                        b \in HeldBy(r) \ task[t].active}
            rest == [task[t] EXCEPT !.who = @ \ {r}, !.rows = lost]
        IN  task' = [task EXCEPT ![t] = IF lost = {} THEN Settled(rest, TRUE) ELSE rest]
    /\ OnlyTask

(* fail_credential_blocked_builds: SELECT. *)
PreflightSelect(t) ==
    /\ task[t].kind = "claim" /\ task[t].pc = "release"
    /\ task[t].rows = {} /\ task[t].cur = {} /\ task[t].who = {}
    /\ task' = [task EXCEPT ![t].pc = "preflight",
                            ![t].rows = {[b |-> b, to |-> "failed"] :
                b \in {c \in Builds : /\ status[c] = "queued"
                                      /\ repo[c] \in blocked \cap known
                                      /\ source[ProjectOf[c]] = repo[c]}}]
    /\ OnlyTask

MutPreflightFailAll(t) ==
    /\ task[t].pc = "preflight"
    /\ \E row \in task[t].rows :
        /\ task' = [task EXCEPT ![t].rows = @ \ {row}]
        /\ MarkRows({row.b}, "failed")
    /\ UNCHANGED <<issued, approval, repo, deliveries, policyVars>>
    /\ OnlyTable

(* ... and one transaction per build, which skips one no longer queued. *)
PreflightFail(t) ==
    /\ task[t].pc = "preflight"
    /\ \E row \in task[t].rows :
        /\ task' = [task EXCEPT ![t].rows = @ \ {row}]
        /\ IF status[row.b] = "queued" THEN FailCredentialBlocked(row.b)
                                       ELSE UNCHANGED tableVars
    /\ OnlyTable

(* next_eligible_build: the oldest build this runner may take. *)
SelectBuild(t) ==
    /\ task[t].pc = "preflight" /\ task[t].rows = {}
    /\ LET found == {b \in Builds : Eligible(b, task[t].run)}
           oldest == {b \in found : \A c \in found : b <= c}
       IN  task' = [task EXCEPT ![t].pick = oldest,
                                ![t].pc = IF found = {} THEN "reply" ELSE "take",
                                ![t].reply = IF found = {} THEN "nojob" ELSE "none"]
    /\ OnlyTask

(* claim_eligible_direct_runner_build rechecks everything and takes it. *)
TakeBuild(t) ==
    /\ task[t].pc = "take"
    /\ \E b \in task[t].pick :
        /\ ClaimBuild(b, task[t].run)
        /\ task' = [task EXCEPT ![t].pc = "reply", ![t].reply = "job", ![t].token = issued + 1]
    /\ OnlyTable

(* ... or finds that something changed, or that the barrier is up. *)
MissBuild(t) ==
    /\ task[t].pc = "take"
    /\ \E b \in task[t].pick : ~ Eligible(b, task[t].run) \/ barrier \/ issued = MaxGrants
    /\ task' = [task EXCEPT ![t].pc = "reply", ![t].reply = "nojob", ![t].pick = {}]
    /\ OnlyTask

(* The agent reads the answer and spawns run_claimed_job. *)
ReceiveClaim(t) ==
    /\ task[t].kind = "claim" /\ task[t].pc = "reply" /\ task[t].live
    /\ linked[task[t].run]
    /\ task' = [task EXCEPT ![t] = Idle]
    /\ jobs' = jobs \cup {[run |-> task[t].run, b |-> b, cap |-> task[t].token,
                           phase |-> "starting"] : b \in task[t].pick}
    /\ active' = [active EXCEPT ![task[t].run] = @ \cup task[t].pick]
    /\ UNCHANGED <<tableVars, clockVars, up, linked, cached, started>>

-----------------------------------------------------------------------------
(* Status reports: report_status_with_retry and update_job_status.          *)

MutReportPhase(j) == j.phase

(* The report a job is due: "running" before it starts, then its result. *)
DueReport(j) == IF j.phase = "starting" THEN "running" ELSE j.phase

(* The report carries the runner and the build; the token only tells the    *)
(* agent which of its jobs asked.                                           *)
SendReport(t, j) ==
    /\ t \in Workers /\ task[t] = Idle
    /\ linked[j.run]
    /\ j.phase \in {"starting", "succeeded", "failed"}
    /\ ~ \E u \in Workers : task[u].live /\ task[u].kind = "report" /\ task[u].token = j.cap
    /\ task' = [task EXCEPT ![t] = [Request("report", j.run) EXCEPT
                    !.pc = "owner", !.pick = {j.b}, !.goal = DueReport(j), !.token = j.cap]]
    /\ OnlyTask

(* SELECT runner_id: the build must be this runner's. *)
CheckOwner(t) ==
    /\ task[t].pc = "owner"
    /\ \E b \in task[t].pick :
        task' = [task EXCEPT ![t] =
            IF holder[b] = task[t].run
            THEN [@ EXCEPT !.pc = "rows", !.rows = {[b |-> b, to |-> task[t].goal]}]
            ELSE Settled(@, FALSE)]
    /\ OnlyTask

(* The job that waits for the answer to request s. *)
Awaiting(s) == {j \in jobs : j.run = s.run /\ j.b \in s.pick /\ j.cap = s.token}

(* Job j moves on; an ended job lets go of its grant and waits to be joined. *)
MoveJob(j, phase) == jobs' = (jobs \ {j}) \cup {[j EXCEPT !.phase = phase]}

MutIgnoreRefusal(s) == s.goal = "running"

(* An accepted "running" starts the build commands; a refusal or an accepted *)
(* result ends the job.                                                      *)
StartsBuild(s) == s.goal = "running" /\ s.reply = "ok"

(* The agent reads the answer. *)
ReceiveReport(t) ==
    /\ task[t].kind = "report" /\ task[t].pc = "reply" /\ task[t].live
    /\ linked[task[t].run]
    /\ task' = [task EXCEPT ![t] = Idle]
    /\ \E j \in Awaiting(task[t]) :
        LET go == StartsBuild(task[t])
        IN  /\ MoveJob(j, IF go THEN "executing" ELSE "over")
            /\ started' = [started EXCEPT ![j.b] = IF go THEN @ + 1 ELSE @]
    /\ UNCHANGED <<tableVars, clockVars, up, linked, cached, active>>

(* The client stops waiting.  A report is retried later, or given up once    *)
(* its window has run out, which ends the job.                               *)
GiveUp(t) ==
    /\ "timeout" \in Features
    /\ task[t].live
    /\ task' = [task EXCEPT ![t].live = FALSE]
    /\ \/ UNCHANGED jobs
       \/ /\ task[t].kind = "report"
          /\ \E j \in Awaiting(task[t]) : MoveJob(j, "over")
    /\ UNCHANGED <<tableVars, clockVars, up, linked, cached, active, started>>

(* The server drops a handler whose client is gone, at any await. *)
DropOrphan(t) ==
    /\ task[t].kind \in {"claim", "report"} /\ ~task[t].live
    /\ task' = [task EXCEPT ![t] = Idle]
    /\ OnlyTask

-----------------------------------------------------------------------------
(* The runner agent between its requests.                                   *)

OnlyJob == UNCHANGED <<tableVars, task, clockVars, up, linked, cached, active, started>>

(* execute_build ends: the result is to be reported. *)
FinishBuild(j) ==
    /\ j.phase = "executing"
    /\ \E result \in {"succeeded", "failed"} : MoveJob(j, result)
    /\ OnlyJob

MutPollOnlyCanceled(j) ==
    /\ j.phase = "executing" /\ linked[j.run]
    /\ status[j.b] = "canceled"
    /\ MoveJob(j, "over")
    /\ OnlyJob

(* poll_cancellation: 403, the build is no longer this runner's.  A build   *)
(* that ended has no runner, so cancellation is seen the same way.          *)
PollLost(j) ==
    /\ j.phase = "executing" /\ linked[j.run]
    /\ holder[j.b] # j.run
    /\ MoveJob(j, "over")
    /\ OnlyJob

(* CONTROLLER_GRACE without an answer: stop, and report the failure later. *)
LoseController(j) ==
    /\ j.phase = "executing" /\ ~linked[j.run]
    /\ MoveJob(j, "failed")
    /\ OnlyJob

(* The main loop joins an ended task, never during a claim, and drops every *)
(* mention of its build from active_build_ids.                              *)
JoinJob(j) ==
    /\ j.phase = "over" /\ ~Claiming(j.run)
    /\ jobs' = jobs \ {j}
    /\ active' = [active EXCEPT ![j.run] = @ \ {j.b}]
    /\ UNCHANGED <<tableVars, task, clockVars, up, linked, cached, started>>

(* runner_heartbeat, and the slot count the agent takes from its answer. *)
Heartbeat(r) ==
    /\ up[r] /\ linked[r]
    /\ stale[r] \/ cached[r] # AtLeastOne(slots[r])
    /\ stale' = [stale EXCEPT ![r] = FALSE]
    /\ cached' = [cached EXCEPT ![r] = AtLeastOne(slots[r])]
    /\ UNCHANGED <<tableVars, task, aged, settled, up, linked, jobs, active, started>>

(* The agent process dies; its requests become orphans. *)
CrashRunner(r) ==
    /\ "crash" \in Features /\ up[r]
    /\ up' = [up EXCEPT ![r] = FALSE]
    /\ jobs' = jobs \ JobsOf(r)
    /\ active' = [active EXCEPT ![r] = {}]
    /\ task' = [t \in Tasks |-> IF task[t].run = r THEN [task[t] EXCEPT !.live = FALSE]
                                                  ELSE task[t]]
    /\ UNCHANGED <<tableVars, clockVars, linked, cached, started>>

(* establish_runner_heartbeat, before the first claim. *)
StartRunner(r) ==
    /\ ~up[r] /\ linked[r]
    /\ up' = [up EXCEPT ![r] = TRUE]
    /\ stale' = [stale EXCEPT ![r] = FALSE]
    /\ cached' = [cached EXCEPT ![r] = AtLeastOne(slots[r])]
    /\ UNCHANGED <<tableVars, task, aged, settled, linked, jobs, active, started>>

(* The network between the agent and the daemon. *)
Relink(r) ==
    /\ "partition" \in Features
    /\ linked' = [linked EXCEPT ![r] = ~@]
    /\ UNCHANGED <<tableVars, task, clockVars, up, cached, jobs, active, started>>

-----------------------------------------------------------------------------
(* The daemon's monitors and the passage of time.                           *)

Begin(t, kind, selected) ==
    /\ task[t] = Idle
    /\ selected # {}
    /\ task' = [task EXCEPT ![t] = [Idle EXCEPT !.kind = kind, !.pc = "rows", !.rows = selected]]
    /\ OnlyTask

(* requeue_expired_claims *)
RequeueExpiredClaims ==
    /\ "lease" \in Features
    /\ Begin("lease_monitor", "requeue",
             {[b |-> b, to |-> "queued"] :
                b \in {c \in Builds : status[c] \in {"assigned", "scheduled"} /\ aged[c]}})

MutTimeOutEarly ==
    /\ "overdue" \in Features
    /\ Begin("timeout_monitor", "overdue",
             {[b |-> b, to |-> "timed_out"] : b \in {c \in Builds : status[c] = "running"}})

MutTimeOutAssigned ==
    /\ "overdue" \in Features
    /\ Begin("timeout_monitor", "overdue",
             {[b |-> b, to |-> "timed_out"] :
                b \in {c \in Builds : status[c] = "assigned" /\ aged[c]}})

(* time_out_overdue_builds; the same loop then runs expire_pending_approvals. *)
TimeOutOverdueBuilds ==
    /\ "overdue" \in Features
    /\ Begin("timeout_monitor", "overdue",
             {[b |-> b, to |-> "timed_out"] :
                b \in {c \in Builds : status[c] = "running" /\ aged[c]}})

(* expire_pending_approvals *)
ExpirePendingApprovals ==
    /\ "approval" \in Features
    /\ Begin("timeout_monitor", "approvals",
             {[b |-> b, to |-> "canceled"] :
                b \in {c \in Builds : /\ status[c] = "queued" /\ approval[c] = "pending"
                                      /\ aged[c]}})

(* fail_builds_of_lost_runners: the runners first, then, per runner, the    *)
(* builds it holds (ReleaseSelect).                                         *)
FailBuildsOfLostRunners ==
    LET lost == {r \in Runners : stale[r] /\ HeldBy(r) # {}}
        t == "heartbeat_monitor"
    IN  /\ "lost" \in Features /\ settled
        /\ task[t] = Idle /\ lost # {}
        /\ task' = [task EXCEPT ![t] = [Idle EXCEPT !.kind = "lost", !.pc = "release",
                                                    !.who = lost]]
        /\ OnlyTask

(* A deadline passes: lease, scheduled timeout, build timeout, approval. *)
Age(b) ==
    /\ ~aged[b]
    /\ \/ status[b] \in {"assigned", "scheduled"} /\ "lease" \in Features
       \/ status[b] = "running" /\ "overdue" \in Features
       \/ status[b] = "queued" /\ approval[b] = "pending"
    /\ aged' = [aged EXCEPT ![b] = TRUE]
    /\ UNCHANGED <<tableVars, task, stale, settled, agentVars>>

(* RUNNER_LOST_SECS without a heartbeat. *)
MissHeartbeats(r) ==
    /\ ~stale[r] /\ ~(up[r] /\ linked[r])
    /\ stale' = [stale EXCEPT ![r] = TRUE]
    /\ UNCHANGED <<tableVars, task, aged, settled, agentVars>>

(* The daemon has been up for RUNNER_LOST_SECS: every runner that can reach *)
(* it has sent a heartbeat by now.                                          *)
Settle ==
    /\ "lost" \in Features
    /\ ~settled /\ \A r \in Runners : up[r] /\ linked[r] => ~stale[r]
    /\ settled' = TRUE
    /\ UNCHANGED <<tableVars, task, aged, stale, agentVars>>

(* The daemon dies and starts again: every handler and monitor is gone, the *)
(* heartbeats of its downtime are missing, and reload_pending requeues what  *)
(* was 'scheduled' before requests are served.                               *)
RestartDaemon ==
    /\ "restart" \in Features
    /\ task' = [t \in Tasks |-> Idle]
    /\ settled' = FALSE
    /\ \/ UNCHANGED stale
       \/ stale' = [r \in Runners |-> TRUE]
    /\ ReloadPending
    /\ Touch
    /\ UNCHANGED agentVars

-----------------------------------------------------------------------------
(* Users, webhooks and administrators.                                      *)

(* create_build, trigger_build_from_webhook, create_scheduled_build, reruns *)
SubmitBuild(b) ==
    /\ \E r \in Repositories, hold, prev \in BOOLEAN :
        /\ hold => "approval" \in Features
        /\ prev => "supersede" \in Features /\ RetrySteps[b] = {}
        /\ InsertBuild(b, r, hold, prev)
    /\ OnlyTable /\ UNCHANGED task

(* decide_build_approval *)
DecideApproval(b) ==
    /\ \E decision \in {"approved", "rejected"} : RecordApproval(b, decision)
    /\ OnlyTable /\ UNCHANGED task

(* cancel_build *)
CancelBuild(t, b) ==
    /\ "cancel" \in Features
    /\ t \in Workers
    /\ status[b] \in BuildStatuses
    /\ Begin(t, "cancel", {[b |-> b, to |-> "canceled"]})

(* Retention: expire_build_artifacts, or the row of a full cleanup. *)
CleanUpBuild(b) ==
    /\ "retention" \in Features
    /\ status[b] \in Terminal
    /\ TransitionBuild(b, status[b], "expired") \/ DeleteBuild(b)
    /\ OnlyTable /\ UNCHANGED task

Administer ==
    /\ \/ "source" \in Features /\ \E p \in Projects, r \in Repositories : ChangeSource(p, r)
       \/ "source" \in Features /\ \E R \in SUBSET Repositories : RemoveRepositories(R)
       \/ "barrier" \in Features /\ (AcquireBarrier \/ LiftBarrier)
       \/ "pause" \in Features /\ SetPaused
       \/ "incident" \in Features /\ \E r \in Repositories : SetIncident(r)
       \/ "limits" \in Features /\ \E p \in Pipelines, n \in Limits : UpdatePipeline(p, n)
       \/ "limits" \in Features /\ \E r \in Runners, n \in SlotCounts : UpdateRunner(r, n)
    /\ OnlyTable /\ UNCHANGED task

-----------------------------------------------------------------------------
(* One step of a handler or monitor that is under way. *)
TaskStep(t) ==
    \/ LoadRow(t) \/ ApplyRow(t) \/ LoseRace(t)
    \/ ReleaseSelect(t) \/ PreflightSelect(t) \/ PreflightFail(t)
    \/ SelectBuild(t) \/ TakeBuild(t) \/ MissBuild(t)
    \/ CheckOwner(t)

ClientStep(t) == ReceiveClaim(t) \/ ReceiveReport(t) \/ GiveUp(t) \/ DropOrphan(t)

RunnerStep(r) ==
    \/ Heartbeat(r) \/ CrashRunner(r) \/ StartRunner(r) \/ Relink(r) \/ MissHeartbeats(r)
    \/ \E t \in Workers : SendClaim(t, r)

JobStep(j) ==
    \/ FinishBuild(j) \/ PollLost(j) \/ LoseController(j) \/ JoinJob(j)
    \/ \E t \in Workers : SendReport(t, j)

MonitorStep ==
    \/ RequeueExpiredClaims \/ TimeOutOverdueBuilds \/ ExpirePendingApprovals
    \/ FailBuildsOfLostRunners
    \/ Settle \/ RestartDaemon

UserStep(b) ==
    \/ SubmitBuild(b) \/ DecideApproval(b) \/ CleanUpBuild(b) \/ Age(b)
    \/ \E t \in Workers : CancelBuild(t, b)

Next ==
    \/ \E t \in Tasks : TaskStep(t) \/ ClientStep(t)
    \/ \E r \in Runners : RunnerStep(r)
    \/ \E j \in jobs : JobStep(j)
    \/ MonitorStep
    \/ \E b \in Builds : UserStep(b)
    \/ Administer

Spec == Init /\ [][Next]_vars

-----------------------------------------------------------------------------
(* Safety.                                                                  *)

Executing(r, b) == \E j \in jobs : j.run = r /\ j.b = b /\ j.phase = "executing"

(* Build commands are started at most once for a build, on one runner,      *)
(* whatever requests are lost, repeated or late and whichever monitor takes *)
(* the build back; and the daemon never has a build waiting or merely       *)
(* assigned while some runner executes it (claim_job, update_job_status,    *)
(* execute_claimed_job).                                                    *)
AtMostOneExecution ==
    \A b \in Builds :
        /\ started[b] <= 1
        /\ \A r \in Runners : Executing(r, b) =>
                status[b] \in {"running", "deleted"} \cup Terminal

(* A build marked succeeded was executed, and by then no runner is still    *)
(* executing it (update_job_status takes a result only from the holder).    *)
SucceededWasExecuted ==
    \A b \in Builds : status[b] = "succeeded" =>
        started[b] = 1 /\ \A r \in Runners : ~Executing(r, b)

(* A grant an agent carries opens the signing material of a build only      *)
(* while that agent's runner holds the build: no grant survives a requeue   *)
(* and a later claim (require_active_job_signing_grant).                    *)
GrantOpensOwnBuild ==
    \A j \in jobs : j.phase # "over" /\ j.cap = grant[j.b] => holder[j.b] = j.run

(* Only a running build past its timeout is timed out: the monitor's stale  *)
(* selection cannot hit a build in any other state, although the contract   *)
(* also allows assigned -> timed_out (time_out_overdue_builds).             *)
OnlyOverdueTimedOut ==
    [][\A b \in Builds : status[b] # "timed_out" /\ status'[b] = "timed_out"
            => status[b] = "running" /\ aged[b]]_vars

(* Every step of the handlers, monitors and administrators is one of the    *)
(* table's transactions, or leaves the table alone: what BuildTable         *)
(* promises holds for the running system.                                   *)
ImplementsTable == TableInit /\ [][TableNext]_tableVars

-----------------------------------------------------------------------------
(* Liveness.                                                                *)

(* Handlers and monitors that are under way go on; the monitors' loops run  *)
(* again and again and time passes; an agent keeps claiming, reporting,     *)
(* polling, joining and sending heartbeats and reads the answers that       *)
(* arrive.  Nothing is assumed of users, crashes, restarts, the network or   *)
(* requests timing out, nor that build commands ever end by themselves.     *)
OwnJobs(r, b) == {j \in jobs : j.run = r /\ j.b = b}

Fairness ==
    /\ \A t \in Tasks : /\ WF_vars(TaskStep(t)) /\ WF_vars(DropOrphan(t))
                        /\ WF_vars(ReceiveClaim(t) \/ ReceiveReport(t))
    /\ \A r \in Runners : /\ WF_vars(Heartbeat(r)) /\ WF_vars(MissHeartbeats(r))
                          /\ WF_vars(\E t \in Workers : SendClaim(t, r))
    /\ \A r \in Runners, b \in Builds :
            /\ WF_vars(\E j \in OwnJobs(r, b) : PollLost(j) \/ LoseController(j))
            /\ WF_vars(\E j \in OwnJobs(r, b) : JoinJob(j))
            /\ WF_vars(\E j \in OwnJobs(r, b), t \in Workers : SendReport(t, j))
    /\ \A b \in Builds : WF_vars(Age(b))
    /\ WF_vars(RequeueExpiredClaims) /\ WF_vars(TimeOutOverdueBuilds)
    /\ WF_vars(FailBuildsOfLostRunners) /\ WF_vars(Settle)

FairSpec == Spec /\ Fairness

(* No runner keeps a build forever: even when it crashes, loses its answers *)
(* or never reports, a monitor takes the build back or ends it.             *)
HeldBuildsMoveOn ==
    \A b \in Builds : status[b] \in Held ~> status[b] \notin Held

(* A runner that lost its build stops executing it.                         *)
LostBuildsStop ==
    \A r \in Runners, b \in Builds :
        Executing(r, b) /\ holder[b] # r ~> ~Executing(r, b)

(* A queued build ends, unless the direct runner is paused or a service     *)
(* transition drains the runners again and again, or every claim the bound  *)
(* allows was used up (claim_job, requeue_expired_claims).                  *)
QueuedBuildsEnd ==
    \A b \in Builds :
        status[b] = "queued" ~>
            status[b] \in Terminal \/ paused \/ barrier \/ issued = MaxGrants

-----------------------------------------------------------------------------
(* What the documentation and comments say, where the code disagrees.       *)

(* "Valid transitions" of the build-states reference and of                 *)
(* BuildStatus::valid_transitions; a claim is queued -> scheduled ->        *)
(* assigned in one transaction.                                             *)
DocumentedTransitions ==
    [][\A b \in Builds : status[b] \in BuildStatuses /\ status'[b] # status[b] =>
        \/ CanTransition(status[b], status'[b])
        \/ status[b] = "queued" /\ status'[b] = "assigned"
        \/ status'[b] = "deleted"]_vars

(* "Queued work tied to the previous source is canceled": nothing waits     *)
(* that is tied to another source than its project's.                       *)
QueuedWorkHasItsSource ==
    \A b \in Builds : status[b] = "queued" => repo[b] = source[ProjectOf[b]]

(* expire_pending_approvals cancels "builds whose approval request was      *)
(* never decided".                                                          *)
OnlyUndecidedExpire ==
    [][\A b \in Builds :
        /\ status'[b] = "canceled" /\ status[b] # "canceled"
        /\ \E c \in task["timeout_monitor"].cur : c.b = b /\ c.to = "canceled"
        /\ task'["timeout_monitor"] # task["timeout_monitor"]
        => approval[b] = "pending"]_vars

(* claim_job: "any other build still bound to it was lost".  A claim takes  *)
(* no build from a runner that is working on it.                            *)
ReleasedWasLost ==
    [][\A t \in Workers, b \in Builds :
        /\ task[t].kind = "claim" /\ task'[t] # task[t]
        /\ \E c \in task[t].cur : c.b = b
        /\ status'[b] # status[b]
        => \A j \in OwnJobs(task[t].run, b) : j.phase = "over"]_vars
=============================================================================
