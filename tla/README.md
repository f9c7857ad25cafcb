# Oore: TLA+ models of a build service

This directory holds TLA+ specifications of Oore: which runner executes which build
and how often, how webhooks and schedules create builds, what becomes of their
artifacts, what channels and source hosts are told of them, how a release is promoted
and rolled out, and how the installation updates itself. TLC configurations check them
on small instances, and TLAPS proofs show every safety property of the runs for any number of builds, runners, pipelines, callers and faults.
The reference is the code under `src/`; `PROJECT.json` maps every definition to the lines
it models.

## 1. The system

Oore is a self-hosted CI system for mobile apps. A daemon (`oored`, axum over
SQLite) keeps the state and serves the API; runner agents (`oore-runner`) on Macs
poll it for work; a CLI (`oore`) installs and updates both; a web client shows it.

| Part | State it keeps | Operations | Hard because |
| --- | --- | --- | --- |
| builds (`oored/builds.rs`, contract `BuildStatus`) | `builds` rows: status, runner, signing grant, approval, config snapshot; webhook claims | create (API, webhook, schedule, rerun), `transition_build`, cancel, approve/reject, supersede | ten statements write the same columns; a transition reads, then writes guarded by what it read |
| runner API (`oored/runners.rs`) | `runners` rows, builds bound to them | claim, status report, status poll, heartbeat, settings | a claim is five statements; a report checks the owner in one statement and writes in another |
| monitors (`oored/background.rs`) | none of their own | lease, timeout and approval expiry, lost runners, retention, artifact sweeps | each selects a list and works through it while everything else goes on |
| runner agent (`oore-runner/lib.rs`) | active builds, one task per claim, its slot count | claim loop, running/final report with retries, authority poll, heartbeat | answers get lost, requests outlive the client, the process may die anywhere |
| policy (`operator.rs`, `incidents.rs`, `instance_settings.rs`, `projects.rs`, `pipelines.rs`, `integrations/mod.rs`) | barrier lease, incidents, pause, project source, limits | raise/lift, open/resolve, change, remove | has to take effect against claims already under way |
| start-up (`oored/lib.rs`, `scheduler.rs`) | – | `reload_pending`, start monitors | every task under way was lost |
| webhook inbox (`integrations/webhooks.rs`, `builds.rs`) | `integration_webhooks` rows with attempts, lease, backoff | receive, claim, process, record an error, recover | two copies at once, a lease that runs out under a busy worker, files that cannot be read |
| schedules (`pipeline_schedules.rs`) | a checkpoint per schedule | tick: claim, build, release | claim, build and release are three transactions |
| artifacts and retention (`artifacts.rs`, `storage.rs`, `artifact_tokens.rs`, `background.rs`) | `artifacts` rows, stored objects, download tokens, `expired_from` | reserve, upload, complete, abort, sweep, clean up, expire, download | two stores without a common transaction, four passes on the same rows |
| promotions (`environments.rs`) | environments, promotion rows, in-memory locks | request, decide, execute, delete, recover at start-up | the store change and its record are two steps |
| rollouts (`releases.rs`, `release_store.rs`) | release rows, a lock per release | act, approve, sync, step, halt on crashes | Play is changed by others at any time, answers get lost |
| updates (`oore/update_transaction.rs`, `main.rs`) | a journal per update, installed files, database, launchd services | stage, drain, back up, install, activate, roll back, recover | the process or the Mac may die anywhere |
| notifications (`notification_dispatch.rs`, `notification_channels.rs`) | `notified_status`, `notification_deliveries` rows | scan, record, claim, send, record the result, retry | two loops start attempts, a send and its record are two steps |
| commit checks (`commit_checks.rs`) | `scm_reported_status` with attempts and backoff, `scm_check_runs` | select, read again, set each check, record its owner, mark | the status moves on while it is told, answers get lost, builds share a check |
| setup | | | see section 7 |

Parts interact through the database (the daemon's handlers and monitors share
nothing else that decides a build's fate) and through HTTP requests from the
agents. SQLite has one writer at a time, so **a transaction, or a statement outside
one, is the atomic step** everywhere in these models.

### What makes each part correct

* builds: runner and grant are bound exactly while a build is held; an outcome is
  final; a build held for approval is not handed out; a delivery or a step retry
  does not produce two builds; limits hold; the queue is the only way a build
  changes hands.
* dispatch and agents: build commands start at most once; a success was really
  executed; a grant never opens a build for a runner that lost it; every held build
  is eventually finished or taken back; an agent that lost its build stops.
* webhooks and schedules: what is acknowledged is settled in the end; each matching
  pipeline builds a delivery exactly once; a due minute fires at most once.
* artifacts: what people can download has its file; a release keeps its records; a
  policy never removes an outcome it keeps; a single-use link serves once.
* promotions and rollouts: a build reaches an environment once; the rows are true to
  the store; nobody's stop is undone by a schedule; shares do not fall.
* notifications and checks: a channel hears of one end of a build; what has to be told
  is told or given up in the end; the checks of a commit show its newest build.
* updates: files and database belong together whenever no update is left to recover,
  and there is always a command that gets there.
* policy: no claim gets past a barrier that is up; nothing waits tied to a source
  its project no longer has (the code does not ensure that, see section 6).

## 2. Modules

| Module | What it is |
| --- | --- |
| `BuildStatus` | the contract's status values and transition table |
| `BuildLife` | abstract specification: the life of one build as a client may rely on it |
| `BuildTable` | the builds table and every transaction that writes it, callers unconstrained |
| `BuildTableProofs` | theorems about `BuildTable` |
| `Dispatch` | handlers, monitors, agents, network, users and administrators over `BuildTable` |
| `WebhookInbox` | the webhook inbox and its worker over `BuildTable`, whose `InsertBuild` it calls |
| `Schedules` | the schedule monitor's ticks, checkpoints and builds |
| `Artifacts` | uploads, the sweep, retention, expiry, download tokens and releases of a build |
| `ReportedBuilds` | the builds table as the two reporters see it |
| `Notifications` | the scan for ended builds, deliveries and attempts to send them |
| `CommitChecks` | the reporter of commit checks and the checks on the source |
| `Reports` | both reporters over one table, with restarts |
| `Promotions` | environments, promotions and their store calls |
| `Rollout` | the staged rollout of one release: row, Play, people and monitor |
| `Updates` | the update command, its journal, rollback and recovery |
| `DispatchProofs` | theorems about `Dispatch`, resting on those about `BuildTable` |
| `WebhookInboxProofs` | theorems about `WebhookInbox`, likewise |
| `MonitorsProofs` | theorems about the two monitors that act on the clock, `Schedules` and `Rollout` |
| `ArtifactsProofs`, `PromotionsProofs`, `ReportsProofs`, `UpdatesProofs` | theorems about the module each is named after |
| `MC*` | values of the constants for TLC (`Updates` needs none) |

**`BuildTable`.** A build is a natural number; the order of the numbers is the order
`(queued_at, id)` of the queue. `status` has two extra values, `absent` and
`deleted`, for a row that does not exist. `holder` is `runner_id`, `grant` is
`signing_token_hash` (a number, 0 for NULL; `issued` counts the grants generated,
so a grant is new exactly as a random token is), `approval` is `approval_state`,
`repo` the repository in the config snapshot, `deliveries` the
`webhook_build_claims`, `known` the integration repositories, `source` each
project's repository, `blocked` the repositories with an open credential incident.
What a build was asked for (pipeline, project, branch, retried steps, delivery, the
runners its labels admit) is constant. One action is one transaction with all its
guards: `InsertBuild` is `execute_build_insert` with the retry check, the webhook
claim and the cancellation of previous builds; `TransitionBuild` the guarded UPDATE
of `transition_build_with_results`; `ClaimBuild` the claim that rechecks the whole
WHERE clause and is aborted by the barrier's trigger; and so on. Statements that
bypass `transition_build` (credential preflight, approval, source change, removed
repositories, barrier, start-up) are actions of their own. `Legacy` builds start in
`scheduled`, which the present daemon never leaves behind: an older one did, and
`reload_pending`, the lease monitor and `acquire_barrier` still handle such rows.

**`Dispatch`** extends it. `task[t]` is what each request handler (`Workers`) and each
monitor is doing: the rows it selected, the row `transition_build` has loaded
(`LoadRow`), which it then writes (`ApplyRow`) or loses to somebody else
(`LoseRace`), and the answer it owes. `jobs` are the agents' `run_claimed_job` tasks,
one per claim, and `active` is `active_build_ids`; they differ, as in the code, when
the same build is claimed twice by one runner. A request whose client gave up or
died is an orphan that the server finishes or drops (`DropOrphan`). The agent, the
network and the daemon may fail where `Features` allows it; `Features` names the
optional parts of the environment so that a run can concentrate on some of them.

Time is abstracted to deadlines that have passed: `aged[b]` (lease, build timeout or
approval deadline of the state b is in; any write of the row starts it anew),
`stale[r]` (no heartbeat for `RUNNER_LOST_SECS`), `settled` (the daemon has been up
that long). The model does not assume that `RUNNING_REPORT_WINDOW` (120 s) is shorter
than the lease (300 s): leases may expire at any moment, so what is shown does not
rest on clocks.

**`WebhookInbox`** extends `BuildTable`: a delivery reaches the table only through
`InsertBuild`, so `OneBuildPerDelivery`, proved of the table, is checked end to end.
`receiver[h]` is one request in `github_webhook` or `gitlab_webhook` (the idempotency
SELECT, the INSERT with its unique key, the wake-up); `worker` is the one processing
task, which goes through the linked pipelines (`TakePipeline`) and their candidates
(`InsertCandidate`, `SkipCandidate`), reading the pipeline file once per pass, and
may fail at any statement (`PassFails`). `inbox[d]` keeps status, attempts, lease
(`none`, `held`, `expired`) and whether the retry delay is running.

**`Schedules`.** Three ticks make a minute. `tick` is the pass under way with the time
it started at; `checkpoint` is `last_checked_at`, and each build remembers the window
it was started for. `enabled` are the enabled pipelines, `listed` the schedules in their
trigger settings; either may change while a tick is under way, and
`create_scheduled_build` asks again only for the first. `CreateBuild` is `create_scheduled_build`, `FailBuild` a server
error (the build may exist all the same), `RefuseBuild` any other refusal.

**`Artifacts`.** Rows (`art`), stored objects (`file`), the runner's upload loop (`up`)
and the three passes (`sweep`, `ret`, `expiry`) take one statement or one storage call
per step. A retention pass picks *any* eligible builds under any of `Policies`; ages,
counts and sizes only choose among them. `cleaned` and `build.outcome` are history:
`cleaned` are the files retention or expiry deleted, also where the row was then left
behind, so `AvailableHasFile` says nothing of such a row, nor of a file that a late PUT
stores under a failed one.

**`ReportedBuilds`, `Notifications`, `CommitChecks`, `Reports`.** Neither reporter is told
of a transition (published events only wake the scan earlier); each compares a column
of its own with the status. The statuses therefore move on by themselves along the
moves `BuildTable` allows. In `Notifications` a delivery is known by build, channel and
event type, with the number of rows inserted for it (`copies`); `attempt[k, w]` is an
attempt at it started by the scan or by the retry loop.
`due` stands for `next_attempt_at <= now`: `ClaimDelivery` clears it and `BecomeDue` sets
it again when backoff or lease are over. A lease (120 s) does not run out under a send
unless the channel is in `Slow`: an HTTP send gives up well before, an email goes to its
recipients one after another. In `CommitChecks`, `pass` is the reporter's one task with
the rows it selected; `LoadContext` reads the status again, `ReportPlatform` sets a check
and `FinishRow` writes the *selected* status back. `check` is what the source shows under
the check's name. A call sets the check, with or without its answer (`CallSets`), fails or
is refused (`CallFails`; a rejected credential puts the source in error in the same call),
or is answered by GitLab with "Cannot transition status", which the code takes for
success whatever the status is (`CallKept`). `linked` says whether the source is there
and active; it goes (`Unlink`) and comes back (`Relink`), and while it is away rows are
marked reported although nothing was told. `missed` is history: the builds whose last
mark came that way, from a kept status, a refusal or a report given up. `slice` picks at the start which reporters,
builds and statuses a behaviour follows.

**`Promotions`.** `call[c]` is a request in progress; `held` are the promotion locks by
build (the environment is one), `slot` the lock of a shared App Store version. The
store call (`StorePromote`) succeeds, is refused, or succeeds with its answer lost;
`changed` remembers what reached the store. Handlers may be cut short wherever they
await, and a restart drops all of them and runs `fail_interrupted_promotions`. That pass
may fail at any of its rows and is then only logged (`lib.rs:2380`), so `Restart` marks
*some* of the interrupted promotions failed, and the others stay promoting while
requests are served.

**`Rollout`.** `rel` is the row, `play` the release on its track, which `Console` changes
at will. Requests and ticks carry what they *saw*; `StartChange` takes the release's
lock and checks the row again, `StoreAnswers` checks Play again (`PlayAllows`), and
`StoreFails` covers a change whose answer was lost. A fraction is a number of policy
steps.

**`Updates`.** `files` are three of the installed files in the order they are replaced
(the middle one is `oored`); `db` is the release that last migrated the database and
`daemon` the one that runs. A daemon opens a database no newer than itself and
migrates it. `records` are the journals. The command may be killed and the Mac may
restart at every step, which starts the `oored` that is installed; every step of the
update, the rollback and the recovery may fail, and an update may begin although a
recovery failed. Two history variables record what the journal relies on and the code
does not ensure (section 6): `alone`, no update began while another was still to be
recovered, and `untouched`, the database was never migrated while a journal said
`installing`.

## 3. Runs

`table`, `webhooks` and `schedules` also check for deadlock. The others do not: an
instance with nothing queued, every promotion used, or no update left may rest.

| Run | Instance | Shows |
| --- | --- | --- |
| `table` | 3 builds (one legacy, two retrying a step), a second project that may start without a source, limits {0,1}, slots {1,2}, 2 grants | bindings, approvals, retries, limits, outcomes and the barrier of `BuildTable`; `EveryBuildLives`: each build refines `BuildLife` |
| `requests` | 1 build, 2 runners, 2 handlers; timeouts, crashes, restarts, leases, cancellation | `AtMostOneExecution`, `GrantOpensOwnBuild`, `SucceededWasExecuted`, `ImplementsTable` when requests are lost, repeated and late |
| `progress` | 1 runner, fair monitors; timeouts, crashes, partitions, lost runners | no build is held for ever, lost builds stop, only overdue builds time out |
| `holds` | 2 builds (one legacy), 2 repositories; approval, incidents, source changes, superseding | `ImplementsTable` when policy changes under claims and monitors already working |
| `queued_ends` | 2 builds, limit changing between 1 and 2, pause, barrier, retention | each queued build gets its turn, unless pause or barrier stand in its way again and again |
| `webhooks` | 1 delivery in 2 copies, 2 pipelines, 2 workflows, 2 attempts, 1 restart | `ProcessedReachedAll`, `OneBuildPerDelivery`, `SettledStaysSettled`, `ReceivedSettles` |
| `schedules` | 2 schedules of one pipeline, 7 ticks of time, catch-up of 4 | `RunFiresOnce` |
| `promotions` | 2 builds, 2 promotions, 2 callers, a shared slot | `PromotedOnce`, `CallsApart`, `RowsTellTheStore` |
| `rollout` | 1 person, the monitor, 3 steps, approval and threshold, 2 faults | `StopsHold`, `ShareNeverFalls`, `RolloutMovesOn` |
| `artifacts` | 1 build of 2 equal files, 2 policies, 2 downloads | `AvailableHasFile`, `ReleaseRecordsSurvive`, `KeptOutcomesStay`, `SingleUse` |
| `updates` | 2 directories, 3 updates, 6 faults | `NoUpdateIsHalfDone`, `InterruptedIsFinished` |
| `reports` | 1 channel, 2 builds of one commit on 2 platforms, 2 attempts, 2 permits, in four slices | `ToldOneEnd`, `SendsApart`, `DeliveriesSettle`, `NothingLeftUntold`, `ReportsSettle` |

`ImplementsTable` says that every step of `Dispatch` is a transaction of `BuildTable`
or leaves the table alone; so what is proved of `BuildTable` holds of the running
system, stale reads and all. `WebhookInbox` uses the table's actions themselves.
Every module has a type invariant (`InboxTypeOK`, `SchedulesTypeOK`, `ArtifactsTypeOK`,
`PromotionsTypeOK`, `RolloutTypeOK`, `UpdatesTypeOK`, `ReportsTypeOK`); where the cfg does
not list it, it holds in the same instance when added.

**Bounds.** `MaxGrants` (2 or 3) bounds claims: one to lose a build, one to claim it
again, one more for a second build. Two handlers are enough for an orphan to race
a live request, and with the three monitors up to five tasks interleave. Two runners
are enough for a build to move. Two builds are the fewest for limits, superseding and
queue order. Each run's features were chosen so that its hazards interact, because
all of them together exceed what TLC can enumerate. In `webhooks` the second attempt
is the last, which meets both the retry and the exhaustion; one restart leaves a lease
behind. Two schedules are needed because `release_claim` looks at the pipeline's
builds; seven ticks cover a minute boundary on both sides of a retry. Two promotions
and two callers meet on one build or on the slot. Two faults in `rollout` allow a
change in the console and a lost answer in one behaviour; its three steps have a
first, a middle and a last one. Two equal files meet the deduplication; two policies
meet a build expired under the one and examined under the other. Three updates and
six faults let an update fail, its rollback fail, the recovery fail and another update
follow. In `reports` the two reporters write no common column and the builds
move whatever they do, so each is followed alone: notifications of one build through
all its statuses (two attempts, two permits: one per loop; two faults), checks of one
build up to its success while the source goes and comes back, checks of one build that
fails, expires and is deleted, and checks of two builds that are queued and fail, which
meet at the owner of a check. Symmetry is used in safety runs only, for runners, handlers,
callers, promotions, builds of `Promotions`, and downloads.

**Fairness.** `Dispatch!Fairness`: handlers and monitors under way go on (tokio polls
them); the monitors' loops sleep a fixed time and run again; deadlines pass; an agent
keeps sending heartbeats, claims, reports and polls, reads answers that arrive and
joins ended tasks. For an executing job the assumption is on `PollLost \/
LoseController`: either a poll gets through and sees the build gone, or
`CONTROLLER_GRACE` runs out. Nothing is assumed of users, crashes, restarts, the
network, request timeouts or build commands, which may hang for ever.

`InboxSpec`: the worker and the recovery loop keep running and leases and delays pass.
Strong fairness of `ClaimNextWebhook` says that the database is not busy *every* time
a row is to be claimed; the statements of a pass may fail every time.

`RolloutSpec`: calls go on (tokio's mutex is first come, first served, hence strong
fairness where the lock is needed), the monitor ticks, step times pass, and the crash
rate can be read now and again. Faults are bounded by `MaxFaults`: `RolloutMovesOn` is
about what happens once the store calls work.

`Reports!FairSpec`: the scan, the retry loop, every attempt and the reporter go on, and
deadlines pass. Sends and reports may fail every time; faults are bounded by
`MaxFaults`, channels and the source owe nothing.

`Updates!FairSpec`: a command that runs goes on, and while a record is left somebody
runs the next lifecycle command, as the message of a failed rollback asks the operator
to (`main.rs:11690`).

## 4. Proofs

`BuildTableProofs` proves, for every value of the constants that satisfies
`TableAssumption` (finitely many builds, NULLs that are no values, an initial table
whose legacy builds do not share a retry or a delivery), each property of the
`table` run and the `webhooks` run's `OneBuildPerDelivery`: `TableTyped`, `GrantsBound`, `OutcomesFinal`, `BarrierHolds`,
`ApprovalsRespected`, `RetriesExclusive`, `DeliveriesBuildOnce`,
`TableImplementsLife`, `LimitsKept`.

The argument has one centre, lemma `EveryStepMoves`: whatever the transaction, each
row either stays as it is, is *revoked* (its status changes, runner and grant become
NULL), is *marked* (its status changes alone, in one of five ways that need no
revocation), or is *claimed* under the claim's guards, and at most one row is claimed.
The lemma needs `TypeOK` and `GrantBinding`: a statement that leaves `runner_id` alone
is harmless only because the rows it selects have none. `GrantBinding` is inductive
with `TypeOK`, once it includes that grants do not exceed `issued`, which makes a new
grant distinct. `EveryStepApproves` and `EveryStepInserts` do the same for approvals
and for new rows; `OneBuildPerDelivery` is not inductive alone and is strengthened
with `DeliveriesRemembered`: every row that exists *or existed* has its delivery among
the claims. The other theorems are case distinctions over these three lemmas;
`LimitsKept` adds the cardinality of a finite set with one element more.

The other modules are proved the same way, each with one inductive invariant: `Init`
implies it, every action keeps it, it implies the properties. TLC checked each invariant
on the run's instance first. None of the properties is inductive as it stands, because
each says what must not have happened and nothing of the tasks that might still do it;
the invariant adds what those tasks rely on.

| Theorems | Invariant | What it adds, and why it is needed |
| --- | --- | --- |
| `DispatchImplementsTable`, `CommandsStartOnce`, `SuccessWasExecuted`, `GrantsOpenOwnBuilds`, `TimeoutsAreDue`, `DispatchTyped` | `Dispatched` | a handler or monitor writes under conditions it read earlier, so for each step: what it read that cannot change any more, and which guard repeats the rest. An unread answer that lets commands start is the first one for its build, and the last |
| `ProcessedReached`, `SettledForGood`, `RetriesBuildOnce`, `InboxImplementsTable` | `Received` | half way through a pass every linked pipeline is still to come, was put off, or has built all but the candidates at hand |
| `MinutesFireOnce` | `Scheduled` | a checkpoint is never behind a build of its schedule, although failed runs hand their claim back |
| `StopsAlwaysHold`, `SharesNeverFall` | `Rolling` | a widening planned outside the lock is marked `expect`; under the lock the row is still the one that was checked |
| `DownloadsHaveFiles`, `ReleasesSurvive`, `TokensServeOnce`, `OutcomesKept` | `Stored` | a sweep holds only rows it failed before; builds held by a retention pass ended with an outcome its policy does not keep |
| `BuildsPromotedOnce`, `CallsKeepApart`, `RowsTell` | `Promoting` | what `ensure_not_promoted` saw under the build's lock is still true when the result is recorded; every lock has a caller that will release it; a call that will write a row's outcome is the only one at that row, which has none yet |
| `ToldOnce`, `SendsKeptApart`, `NothingUntold` | `Reporting` | only the scan records what was told, so its reading cannot go stale; an attempt under way keeps its delivery from being due; what a check shows lies between the reported status and the build's, in an order in which statuses only move on |
| `UpdatesEndWhole` | `Journaled` | what the journal of the open update stands for at every step: which files may be mixed, and, as long as `alone` and `untouched` hold, whether the release it would put back can open the database |

`DispatchImplementsTable` and `InboxImplementsTable` carry the theorems about the table
over to the running system (`DispatchKeepsTablePromises`, `RetriesBuildOnce`).

**Assumptions.** The constants satisfy the `ASSUME`s of their modules, which TLC
evaluates in every run. Beyond types and finite sets they say: a build that a delivery
creates retries no step (`InboxAssumption`; `trigger_build_from_webhook` sets no
`retry_steps`); `Reports` follows builds that exist; `Slow` are the channels whose
sends may outlast a lease, and `SendsApart` speaks of the others only. No theorem
assumes anything of the behaviour beyond its specification; what a property excepts is
a premise in its statement. `NoUpdateIsHalfDone` excepts histories in which `alone` or
`untouched` was broken; both are reachable in the run, and without the premises TLC finds
it violated (section 6). `NothingLeftUntold` excepts builds in `missed`, builds expired by
retention, and commits another build of which was deleted.

**Only model-checked.** Liveness, which needs fairness and `ENABLED`, beyond this proof
system: `HeldBuildsMoveOn`, `LostBuildsStop`, `QueuedBuildsEnd`, `ReceivedSettles`,
`RolloutMovesOn`, `InterruptedIsFinished`, `DeliveriesSettle`, `ReportsSettle`. Every
other property of a run is stated by a theorem.

## 5. Not modelled

Pipeline and project deletion (several rows at once), runner registration and
deletion, the contents of builds and logs, signing material, signatures and payloads
of webhooks, cron syntax, YAML configuration, the virtual machines and tools of build
steps, HTTP clients of source and store providers, the CLI's interface and the web
client. Of releases: the upload that creates one and the App Store's own phased
release. Of updates: service migration, deferred and supervised updates, directories
without a journal, the frontend's files. Of notifications: the approval, feedback,
runner and release events, which are recorded where they happen, and the rendering of
messages. Of commit checks: texts, size budgets and analysis. Setup is planned
(section 7). `PROJECT.json` lists every component with the reason.

These parts are also why the models cover a small share of the repository's lines:
most of it parses configuration, renders terminal output and web pages, drives
external tools and maps data to HTTP answers, without state transitions of its own.

## 6. Where documentation and code disagree

Each is stated as a property in the module named, to be added as a PROPERTY (INVARIANT
for `DatabaseIsUntouched`, `AtMostOneOpen`, `QueuedWorkHasItsSource`, `RetryIsSafe`, `ToldItsResult` and
`ClaimKeepsOthersOut`) to the cfg of the run named, where TLC finds it violated.

* `Updates!DatabaseIsUntouched` (`updates`). `update_transaction.rs:26` says of the
  installing phase that the database is untouched, and recovery relies on it. A Mac
  that restarts when the new `oored` is in place starts it (`RunAtLoad`), and it
  migrates the database; recovery puts the old files back beside it, which refuse the
  migrated database: the daemon is loaded again but fails at every start. The same
  happens without a restart when the rollback fails before its record is written (a full
  disk): the daemon that is started again for the barrier is the new one, and the journal
  still says `installing`. `NoUpdateIsHalfDone` and `InterruptedIsFinished` are violated
  when the premise `untouched` is taken out of them.
* `Updates!AtMostOneOpen` (`updates`) is what recovery relies on, though no text says so. A
  recovery that fails is only reported and the command goes on; a second update that
  succeeds is rolled back by the first one's record at the next command.
  `NoUpdateIsHalfDone` is violated when the premise `alone` is taken out of it.
* `Dispatch!DocumentedTransitions` (`holds`): a queued build whose source has an open
  credential incident goes to `failed`, which `build-states.mdx:25` and
  `valid_transitions` do not list (`runners.rs:756`).
* `Dispatch!QueuedWorkHasItsSource` (`holds`): a build *assigned* when its project's
  source changes is not canceled (`projects.rs:918`); if its lease then expires it waits
  in the queue with the previous source, where no runner may take it and nothing
  cancels it. `build-lifecycle.mdx:66` says queued work tied to it is canceled.
* `Dispatch!OnlyUndecidedExpire` (`holds`): the expiry monitor cancels a build approved
  between its SELECT and its UPDATE, which is guarded by the status only
  (`background.rs:320`, against the comment at 282).
* `Dispatch!ReleasedWasLost` (`requests`): a claim request that outlived its client names
  the builds that were active when it was sent; handled late, it takes a build from the
  runner that works on it (`runners.rs:944`).
* `WebhookInbox!RetryIsSafe` (`webhooks`): a pipeline without a workflow builds from its
  trigger settings when the file cannot be read and from the file's workflows in the
  retry, so one delivery starts both (`webhooks.rs`, the comment before the trigger in
  `process_webhook_event`).
* `Schedules!FailedRunHandedBack` (`schedules`): `release_claim` looks for a scheduled build
  of the *pipeline*, so another schedule that built in the same tick keeps a failed run
  from being handed back (`pipeline_schedules.rs:322`).
* `Promotions!DeleteWaitsForStore` (`promotions`): a promotion requested after
  `delete_environment` selected the open ones can be in its store call when the
  environment is deleted (`environments.rs:874`).
* `Rollout!PlayIsTheSourceOfTruth` (`rollout`): a share raised in the Play Console after
  Oore's last look is taken back by Oore's next change (`release_store.rs`, the comment
  in `apply_play`): only the status is compared again, not the fraction.
* `Artifacts!ReleaseKeepsArtifacts` (`artifacts`): a release created after retention picked
  its build loses its artifacts, though not its record (`background.rs:76`).
* `Notifications!ToldItsResult` (`reports`): a build that ends and is expired by retention
  before the scan sees it is announced as expired, which `notifications.mdx` describes as
  "expired in queue"; the comment in `notify_due_builds` takes it for granted that the
  result was sent before.
* `Notifications!ClaimKeepsOthersOut` (`reports`, with `Slow = {team}`): an email to many
  recipients, up to 30 s each, outlasts the 120 s lease, and the retry loop starts a
  second send (the comment at `notification_dispatch.rs:608`).
* `CommitChecks!SourceKeepsResult` (`reports`, as a PROPERTY): the result is told, but the
  row is still marked with the status selected before; when retention expires the build
  in between, the next pass overwrites the result on the source as cancelled, against
  the comment in `report_build`.

Seen while modelling, although no text says otherwise: when the answer to an accepted
`running` report is lost, the retry is refused, the agent drops the build, and the build
fails at the runner's next claim. Two equal files in one build make the upload fail:
the second reservation is answered with an empty URL, which the runner takes for a
storage that is not configured. An update that fails between stopping the daemon and
installing removes its record, so nothing restarts the daemon if that did not work at
once. Recovery of a rollback whose old daemon already ran again restores the backup
once more and loses what was recorded since. `scm_report_attempts` is not reset when a
build's status changes between two attempts, so a later status may be given up after
fewer attempts. `report_build` answers `Ok` without telling anything while the source's
integration is in error (`commit_checks.rs:1146`), which a 401 on the report call itself
brings about (`gitlab.rs:1030`): the row is marked reported, and nothing tells it when
the source is active again (`gitlab.rs:222`, 2476). A status GitLab will not move is
likewise marked as told; the comment at `gitlab.rs:1037` takes it that the status already
is the one posted, which the code does not look at. `NothingLeftUntold` excepts these
rows (`missed`). Two builds of one commit created in the same second count as equally
new, and the later report wins.

## 7. Plan

Done: the modules of section 2 with their runs, and theorems for every safety and
action property the runs check.

Next, in this order:

1. Type invariants of `WebhookInbox`, `Artifacts`, `Promotions`, `Rollout` and `Reports` as
   theorems of their own (each follows from the module's inductive invariant, apart from
   the counters).
2. `Setup`: the first-owner state machine and its tokens.
3. Updates with service migration, and supervised updates.
