----------------------------- MODULE BuildTable -----------------------------
(***************************************************************************)
(* The builds table of the daemon and every database transaction that      *)
(* writes it.  SQLite runs one writer at a time, so a transaction is one   *)
(* atomic step; the requests and monitors that issue the transactions, and *)
(* the stale reads between them, are in module Dispatch.  Here a caller is *)
(* free to issue any transaction at any time.                              *)
(*                                                                         *)
(* A build is a number: the order of the numbers is the order              *)
(* (queued_at, id) in which the queue is read.  What a build was asked for *)
(* never changes after its INSERT and is given by constant functions.      *)
(***************************************************************************)
EXTENDS BuildStatus, Integers, FiniteSets

CONSTANTS
    Builds,        \* build ids, in queue order
    Runners,       \* registered runners
    Pipelines, Projects, Repositories,
    PipelineOf,    \* [Builds -> Pipelines]
    ProjectOf,     \* [Builds -> Projects]
    BranchOf,      \* [Builds -> sets of at most one branch]
    RetrySteps,    \* [Builds -> sets of (source build, step) pairs it retries]
    DeliveryOf,    \* [Builds -> sets of at most one webhook claim: a delivery
                   \*  and the pipeline and workflow it triggers]
    CapableOf,     \* [Builds -> runners whose labels cover its runs_on]
    Legacy,        \* builds an older daemon left in 'scheduled'
    Limits,        \* values of concurrency.max_concurrent; 0 is no limit
    SlotCounts,    \* values of max_concurrent_builds
    MaxGrants,     \* bound: signing grants issued, that is, claims
    NoRunner, NoRepository  \* NULL

ASSUME TableAssumption ==
    /\ Builds \subseteq Nat /\ IsFiniteSet(Builds)
    /\ PipelineOf \in [Builds -> Pipelines]
    /\ ProjectOf \in [Builds -> Projects]
    /\ CapableOf \in [Builds -> SUBSET Runners]
    /\ Legacy \subseteq Builds
    /\ \A b \in Legacy : \A c \in Legacy \ {b} : /\ RetrySteps[b] \cap RetrySteps[c] = {}
                                                 /\ DeliveryOf[b] \cap DeliveryOf[c] = {}
    /\ Limits \subseteq Nat /\ SlotCounts \subseteq Nat
    /\ MaxGrants \in Nat
    /\ NoRunner \notin Runners
    /\ NoRepository \notin Repositories

VARIABLES
    status,      \* builds.status; "absent" / "deleted": no row
    holder,      \* builds.runner_id
    grant,       \* builds.signing_token_hash; 0 is NULL
    issued,      \* signing grants generated so far
    approval,    \* builds.approval_state
    repo,        \* config_snapshot.repository_id
    deliveries,  \* webhook_build_claims
    known,       \* integration_repositories
    source,      \* projects.repository_id
    paused,      \* instance_preferences.direct_macos_runner_paused
    blocked,     \* repositories with an open credential incident
    barrier,     \* an unexpired runner_service_transition_lease
    limit,       \* pipelines.concurrency.max_concurrent
    slots        \* runners.max_concurrent_builds

rowVars == <<status, holder, grant>>
policyVars == <<known, source, paused, blocked, barrier, limit, slots>>
tableVars == <<rowVars, issued, approval, repo, deliveries, policyVars>>

TypeOK ==
    /\ status \in [Builds -> RowStates]
    /\ holder \in [Builds -> Runners \cup {NoRunner}]
    /\ grant \in [Builds -> Nat]
    /\ issued \in Nat
    /\ approval \in [Builds -> {"none", "pending", "approved", "rejected"}]
    /\ repo \in [Builds -> Repositories \cup {NoRepository}]
    /\ known \subseteq Repositories
    /\ source \in [Projects -> known \cup {NoRepository}]
    /\ paused \in BOOLEAN /\ barrier \in BOOLEAN
    /\ blocked \subseteq Repositories
    /\ limit \in [Pipelines -> Limits]
    /\ slots \in [Runners -> SlotCounts]

TableInit ==
    /\ status = [b \in Builds |-> IF b \in Legacy THEN "scheduled" ELSE "absent"]
    /\ holder = [b \in Builds |-> NoRunner]
    /\ grant = [b \in Builds |-> 0]
    /\ issued = 0
    /\ approval = [b \in Builds |-> "none"]
    /\ known = Repositories
    /\ source \in [Projects -> Repositories \cup {NoRepository}]
    /\ \A b \in Legacy : source[ProjectOf[b]] # NoRepository
    /\ repo = [b \in Builds |-> IF b \in Legacy THEN source[ProjectOf[b]]
                                                ELSE NoRepository]
    /\ deliveries = UNION {DeliveryOf[b] : b \in Legacy}
    /\ paused = FALSE /\ barrier = FALSE
    /\ blocked = {}
    /\ limit \in [Pipelines -> Limits]
    /\ slots \in [Runners -> SlotCounts]

-----------------------------------------------------------------------------
(* Writes shared by the transactions.                                       *)

(* A slip: the signing grant survives. *)
MutKeepGrant(B, s) ==
    /\ status' = [b \in Builds |-> IF b \in B THEN s ELSE status[b]]
    /\ holder' = [b \in Builds |-> IF b \in B THEN NoRunner ELSE holder[b]]
    /\ UNCHANGED grant

(* UPDATE builds SET status = s, runner_id = NULL, signing_token_hash = NULL *)
EndRows(B, s) ==
    /\ status' = [b \in Builds |-> IF b \in B THEN s ELSE status[b]]
    /\ holder' = [b \in Builds |-> IF b \in B THEN NoRunner ELSE holder[b]]
    /\ grant' = [b \in Builds |-> IF b \in B THEN 0 ELSE grant[b]]

(* UPDATE builds SET status = s, the runner and its grant left as they are *)
MarkRows(B, s) ==
    /\ status' = [b \in Builds |-> IF b \in B THEN s ELSE status[b]]
    /\ UNCHANGED <<holder, grant>>

(* Queued or scheduled builds of the projects P. *)
WaitingIn(P) == {b \in Builds : ProjectOf[b] \in P /\ status[b] \in {"queued", "scheduled"}}

-----------------------------------------------------------------------------
(* Creating a build: execute_build_insert, one transaction.                 *)

(* Rows a new build of the same pipeline, branch and repository replaces.   *)
(* build_number is MAX + 1 in the same statement, so all of them are older. *)
Superseded(b, r) ==
    {o \in Builds \ {b} : /\ PipelineOf[o] = PipelineOf[b]
                          /\ BranchOf[o] \cap BranchOf[b] # {}
                          /\ repo[o] = r
                          /\ status[o] \in Unfinished}

(* NOT EXISTS an unfinished build that retries one of the same steps. *)
MutRetryOnlyHeld(b) ==
    \A o \in Builds : status[o] \in Held => RetrySteps[o] \cap RetrySteps[b] = {}

RetryFree(b) ==
    \A o \in Builds : status[o] \in Unfinished => RetrySteps[o] \cap RetrySteps[b] = {}

(* Mutant: the claim row of a delivery is not looked at. *)
MutDeliveryUnchecked(b) == DeliveryOf[b] \subseteq DeliveryOf[b]

(* The delivery has not claimed this pipeline and workflow yet; a claim     *)
(* outlives its build (webhook_build_claims).                               *)
DeliveryFree(b) == deliveries \cap DeliveryOf[b] = {}

InsertBuild(b, r, hold, cancelPrevious) ==
    /\ status[b] = "absent"
    /\ r \in known /\ source[ProjectOf[b]] = r
    /\ RetryFree(b) /\ DeliveryFree(b)
    /\ LET gone == IF cancelPrevious THEN Superseded(b, r) ELSE {}
       IN  /\ status' = [o \in Builds |-> IF o = b THEN "queued"
                                          ELSE IF o \in gone THEN "canceled"
                                          ELSE status[o]]
           /\ holder' = [o \in Builds |-> IF o \in gone THEN NoRunner ELSE holder[o]]
           /\ grant' = [o \in Builds |-> IF o \in gone THEN 0 ELSE grant[o]]
    /\ approval' = [approval EXCEPT ![b] = IF hold THEN "pending" ELSE "none"]
    /\ repo' = [repo EXCEPT ![b] = r]
    /\ deliveries' = deliveries \cup DeliveryOf[b]
    /\ UNCHANGED <<issued, policyVars>>

-----------------------------------------------------------------------------
(* transition_build_with_results: the UPDATE guarded by the status read.    *)

(* The targets the callers of transition_build ask for. *)
TransitionTargets == BuildStatuses \ {"scheduled", "assigned"}

(* Terminal statuses and 'queued' revoke runner_id and the signing grant.   *)
TransitionBuild(b, from, to) ==
    /\ status[b] = from
    /\ CanTransition(from, to)
    /\ IF to \in Terminal \cup {"queued"} THEN EndRows({b}, to) ELSE MarkRows({b}, to)
    /\ UNCHANGED <<issued, approval, repo, deliveries, policyVars>>

-----------------------------------------------------------------------------
(* Claiming: claim_eligible_direct_runner_build.                            *)

TakingSlots(p) == {b \in Builds : PipelineOf[b] = p /\ status[b] \in SlotTaking}
HeldBy(r) == {b \in Builds : holder[b] = r /\ status[b] \in Held}

MutOneTooMany(b) ==
    LET max == limit[PipelineOf[b]]
    IN  max > 0 => Cardinality(TakingSlots(PipelineOf[b])) <= max

(* pipeline_has_free_slot! *)
PipelineHasFreeSlot(b) ==
    LET max == limit[PipelineOf[b]]
    IN  max > 0 => Cardinality(TakingSlots(PipelineOf[b])) < max

(* held builds < MAX(max_concurrent_builds, 1) *)
RunnerHasFreeSlot(r) ==
    Cardinality(HeldBy(r)) < (IF slots[r] > 1 THEN slots[r] ELSE 1)

(* The WHERE clause shared by NEXT_ELIGIBLE_BUILD_SQL and the claim itself. *)
Eligible(b, r) ==
    /\ status[b] = "queued"
    /\ approval[b] # "pending"
    /\ PipelineHasFreeSlot(b)
    /\ r \in CapableOf[b]
    /\ RunnerHasFreeSlot(r)
    /\ repo[b] \in known
    /\ source[ProjectOf[b]] = repo[b]
    /\ ~paused
    /\ repo[b] \notin blocked

(* The trigger block_runner_claim_during_service_transition. *)
MutBlocksWhileBusy == barrier /\ \E b \in Builds : status[b] \in Held

BlocksClaims == barrier

(* queued -> scheduled -> assigned in one transaction. *)
ClaimBuild(b, r) ==
    /\ issued < MaxGrants
    /\ Eligible(b, r)
    /\ ~BlocksClaims
    /\ holder[b] = NoRunner
    /\ status' = [status EXCEPT ![b] = "assigned"]
    /\ holder' = [holder EXCEPT ![b] = r]
    /\ grant' = [grant EXCEPT ![b] = issued + 1]
    /\ issued' = issued + 1
    /\ UNCHANGED <<approval, repo, deliveries, policyVars>>

-----------------------------------------------------------------------------
(* The transactions that bypass transition_build.                           *)

MutFailUnchecked(b) ==
    /\ status[b] \in BuildStatuses
    /\ MarkRows({b}, "failed")
    /\ UNCHANGED <<issued, approval, repo, deliveries, policyVars>>

(* fail_credential_blocked_builds: the UPDATE for one build. *)
FailCredentialBlocked(b) ==
    /\ status[b] = "queued"
    /\ MarkRows({b}, "failed")
    /\ UNCHANGED <<issued, approval, repo, deliveries, policyVars>>

MutRejectKeepsQueued(b, decision) ==
    /\ status[b] = "queued" /\ approval[b] = "pending"
    /\ approval' = [approval EXCEPT ![b] = decision]
    /\ UNCHANGED <<rowVars, issued, repo, deliveries, policyVars>>

(* record_build_approval *)
RecordApproval(b, decision) ==
    /\ status[b] = "queued" /\ approval[b] = "pending"
    /\ approval' = [approval EXCEPT ![b] = decision]
    /\ MarkRows({b}, IF decision = "approved" THEN "queued" ELSE "canceled")
    /\ UNCHANGED <<issued, repo, deliveries, policyVars>>

(* update_project with a new repository: pending builds of the project end. *)
ChangeSource(p, r) ==
    /\ r \in known /\ source[p] # r
    /\ source' = [source EXCEPT ![p] = r]
    /\ EndRows(WaitingIn({p}), "canceled")
    /\ UNCHANGED <<issued, approval, repo, deliveries,
                   known, paused, blocked, barrier, limit, slots>>

MutKeepLink(R) ==
    /\ R # {} /\ R \subseteq known
    /\ known' = known \ R
    /\ EndRows(WaitingIn({p \in Projects : source[p] \in R}), "canceled")
    /\ UNCHANGED <<source, issued, approval, repo, deliveries,
                   paused, blocked, barrier, limit, slots>>

(* delete_integration_records, and the sync of removed repositories: waiting *)
(* builds of the projects that use them end and the projects lose the link.  *)
RemoveRepositories(R) ==
    LET P == {p \in Projects : source[p] \in R}
    IN  /\ R # {} /\ R \subseteq known
        /\ known' = known \ R
        /\ EndRows(WaitingIn(P), "canceled")
        /\ source' = [p \in Projects |-> IF p \in P THEN NoRepository ELSE source[p]]
        /\ UNCHANGED <<issued, approval, repo, deliveries,
                       paused, blocked, barrier, limit, slots>>

(* acquire_barrier: no claim gets past it; 'scheduled' rows are requeued. *)
AcquireBarrier ==
    /\ ~barrier
    /\ barrier' = TRUE
    /\ MarkRows({b \in Builds : status[b] = "scheduled" /\ holder[b] = NoRunner}, "queued")
    /\ UNCHANGED <<issued, approval, repo, deliveries,
                   known, source, paused, blocked, limit, slots>>

(* release_barrier, or the lease of the barrier running out. *)
LiftBarrier ==
    /\ barrier
    /\ barrier' = FALSE
    /\ UNCHANGED <<rowVars, issued, approval, repo, deliveries,
                   known, source, paused, blocked, limit, slots>>

(* update_preferences: the operational pause. *)
SetPaused ==
    /\ paused' = ~paused
    /\ UNCHANGED <<rowVars, issued, approval, repo, deliveries,
                   known, source, blocked, barrier, limit, slots>>

(* open_incident / resolve_incident for a source's credentials. *)
SetIncident(r) ==
    /\ blocked' = IF r \in blocked THEN blocked \ {r} ELSE blocked \cup {r}
    /\ UNCHANGED <<rowVars, issued, approval, repo, deliveries,
                   known, source, paused, barrier, limit, slots>>

(* update_pipeline: a new max_concurrent. *)
UpdatePipeline(p, n) ==
    /\ limit' = [limit EXCEPT ![p] = n]
    /\ UNCHANGED <<rowVars, issued, approval, repo, deliveries,
                   known, source, paused, blocked, barrier, slots>>

(* update_runner: a new max_concurrent_builds. *)
UpdateRunner(r, n) ==
    /\ slots' = [slots EXCEPT ![r] = n]
    /\ UNCHANGED <<rowVars, issued, approval, repo, deliveries,
                   known, source, paused, blocked, barrier, limit>>

(* reload_pending at daemon start, before anything else runs. *)
ReloadPending ==
    /\ EndRows({b \in Builds : status[b] = "scheduled"}, "queued")
    /\ UNCHANGED <<issued, approval, repo, deliveries, policyVars>>

(* cleanup_build_record: DELETE FROM builds, the full retention cleanup, of *)
(* builds selected earlier among those that had ended.                      *)
DeleteBuild(b) ==
    /\ status[b] \in Terminal
    /\ MarkRows({b}, "deleted")
    /\ UNCHANGED <<issued, approval, repo, deliveries, policyVars>>

-----------------------------------------------------------------------------
PolicyStep ==
    \/ \E p \in Projects, r \in Repositories : ChangeSource(p, r)
    \/ \E R \in SUBSET Repositories : RemoveRepositories(R)
    \/ AcquireBarrier \/ LiftBarrier
    \/ ReloadPending
    \/ SetPaused
    \/ \E r \in Repositories : SetIncident(r)
    \/ \E p \in Pipelines, n \in Limits : UpdatePipeline(p, n)
    \/ \E r \in Runners, n \in SlotCounts : UpdateRunner(r, n)

BuildStep(b) ==
    \/ \E r \in Repositories, hold, prev \in BOOLEAN :
            (prev => RetrySteps[b] = {}) /\ InsertBuild(b, r, hold, prev)
    \/ \E to \in TransitionTargets : TransitionBuild(b, status[b], to)
    \/ \E r \in Runners : ClaimBuild(b, r)
    \/ FailCredentialBlocked(b)
    \/ \E decision \in {"approved", "rejected"} : RecordApproval(b, decision)
    \/ DeleteBuild(b)

TableNext == PolicyStep \/ \E b \in Builds : BuildStep(b)

TableSpec == TableInit /\ [][TableNext]_tableVars

-----------------------------------------------------------------------------
(* Properties.                                                              *)

(* A build is bound to a runner and to a signing grant exactly while it is  *)
(* assigned or running, and no two builds share a grant.  Ten statements    *)
(* write these columns; require_active_job_signing_grant relies on them     *)
(* agreeing ("requeue and terminal transitions revoke runner_id             *)
(* atomically").                                                            *)
GrantBinding ==
    \A b \in Builds :
        /\ holder[b] # NoRunner <=> status[b] \in Held
        /\ grant[b] # 0 <=> status[b] \in Held
        /\ grant[b] <= issued
        /\ \A c \in Builds : grant[b] # 0 /\ grant[b] = grant[c] => b = c

(* A build held for approval is only ever queued or ended, never with a     *)
(* runner, and a rejected build has ended, whatever happened to it between  *)
(* the request and the decision (record_build_approval, the claim).         *)
ApprovalRespected ==
    \A b \in Builds :
        /\ approval[b] = "pending" => status[b] \in {"queued", "deleted"} \cup Terminal
        /\ approval[b] = "rejected" => status[b] \in {"deleted"} \cup Terminal

(* Two unfinished builds never retry the same step of the same source       *)
(* build: the NOT EXISTS of execute_build_insert holds from then on.        *)
RetryExclusive ==
    \A b, c \in Builds :
        b # c /\ status[b] \in Unfinished /\ status[c] \in Unfinished
            => RetrySteps[b] \cap RetrySteps[c] = {}

(* One webhook delivery creates at most one build per pipeline and workflow, *)
(* even after the first one has been deleted (webhook_build_claims).         *)
OneBuildPerDelivery ==
    \A b, c \in Builds :
        b # c /\ status[b] # "absent" /\ status[c] # "absent"
            => DeliveryOf[b] \cap DeliveryOf[c] = {}

(* No step lets a pipeline or a runner grow past the limit in force, though *)
(* a lowered limit may leave more builds than it allows until they end.     *)
LimitsRespected ==
    [][/\ \A p \in Pipelines :
            Cardinality(TakingSlots(p)') > Cardinality(TakingSlots(p)) /\ limit[p] > 0
                => Cardinality(TakingSlots(p)') <= limit[p]
       /\ \A r \in Runners :
            Cardinality(HeldBy(r)') > Cardinality(HeldBy(r))
                => Cardinality(HeldBy(r)') = 1 \/ Cardinality(HeldBy(r)') <= slots[r]
      ]_tableVars

(* An ended build keeps its outcome; retention may expire or delete it, and *)
(* nothing else happens to it (no cancellation, requeue or late report).    *)
EndedStaysEnded ==
    [][\A b \in Builds :
        status[b] \in Terminal =>
            \/ status'[b] = status[b]
            \/ status'[b] = "expired" /\ status[b] # "expired"
            \/ status'[b] = "deleted"]_tableVars

(* While the runner-service barrier stays up no build is handed to a        *)
(* runner, so a drain that saw no active build stays drained.               *)
DrainHolds ==
    [][barrier /\ barrier' =>
        \A b \in Builds : status'[b] \in Held => status[b] \in Held]_tableVars

(* What the life of build b looks like to a client of the API. *)
LifeOf(s) ==
    CASE s = "absent" -> "none"
      [] s \in {"queued", "scheduled"} -> "waiting"
      [] s = "assigned" -> "held"
      [] s = "running" -> "started"
      [] OTHER -> "over"

Life(b) == INSTANCE BuildLife WITH life <- LifeOf(status[b]), owner <- holder[b]

(* Every build lives the life BuildLife promises: it changes hands only     *)
(* through the queue, starts at most once, and only on its holder.          *)
EveryBuildLives ==
    /\ \A b \in Builds : Life(b)!Init
    /\ [][\A b \in Builds : [Life(b)!Next]_(Life(b)!lifeVars)]_tableVars
=============================================================================
