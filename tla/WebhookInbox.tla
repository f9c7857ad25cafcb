---------------------------- MODULE WebhookInbox ----------------------------
(***************************************************************************)
(* Webhook deliveries: the two receivers, the stored inbox, the single     *)
(* worker that turns deliveries into builds, and the recovery loop.        *)
(*                                                                         *)
(* A delivery is acknowledged once it is stored and processed later, under *)
(* a lease, at most MaxAttempts times.  A pass of the worker takes the     *)
(* pipelines linked to the repository one by one; each may build a         *)
(* delivery from its own trigger settings (workflow "") or once per        *)
(* workflow of the pipeline file at the pushed revision.  The file is read *)
(* over the network, once per pass, and may be unreadable in one pass and  *)
(* readable in the next.                                                   *)
(*                                                                         *)
(* Builds are created by the transaction of module BuildTable; a build id  *)
(* stands for one INSERT of a delivery, pipeline and workflow.             *)
(***************************************************************************)
EXTENDS BuildTable, Sequences

CONSTANTS
    Deliveries,    \* (integration, provider_delivery_id)
    Receivers,     \* webhook requests that can be in flight at once
    RepoOf,        \* [Deliveries -> Repositories]: the repository they name
    WorkflowOf,    \* [Pipelines -> workflow or ""]: the pipeline's own workflow
    LinkOf,        \* [Pipelines -> Projects]
    FileOf,        \* [Deliveries -> set of workflows of the file; {} no v2 file]
    Matching,      \* <<delivery, pipeline, workflow>>: the triggers match
    Holds,         \* values of "needs an approval"
    Cancels,       \* values of concurrency.cancel_previous
    MaxAttempts,   \* MAX_WEBHOOK_PROCESSING_ATTEMPTS
    MaxRestarts,   \* bound: daemon restarts
    NoDelivery

ASSUME InboxAssumption ==
    /\ Holds \subseteq BOOLEAN /\ Cancels \subseteq BOOLEAN
    /\ MaxAttempts \in Nat \ {0} /\ MaxRestarts \in Nat
    /\ NoDelivery \notin Deliveries
    /\ RepoOf \in [Deliveries -> Repositories]
    /\ LinkOf \in [Pipelines -> Projects]
    /\ \A b \in Builds : \E d \in Deliveries, p \in Pipelines :
            \E w \in FileOf[d] \cup {WorkflowOf[p], ""} :
                PipelineOf[b] = p /\ ProjectOf[b] = LinkOf[p] /\ DeliveryOf[b] = {<<d, p, w>>}
    /\ \A b \in Builds : RetrySteps[b] = {}    \* a delivery retries no step

VARIABLES
    kind,       \* what a delivery's event is: fixed by its payload
    inbox,      \* integration_webhooks
    arrived,    \* their order of received_at
    wake,       \* the wake-up channel holds its one message
    receiver,   \* what each webhook request is doing
    acked,      \* deliveries answered with 200
    worker,     \* what the worker is doing
    restarts

inboxVars == <<kind, inbox, arrived, wake, receiver, acked, worker, restarts>>
webhookVars == <<tableVars, inboxVars>>

Settled == {"processed", "ignored", "failed"}

InboxRows == [status : {"absent", "received"} \cup Settled,
              attempts : 0..MaxAttempts,
              lease : {"none", "held", "expired"},  \* processing_started_at
              backoff : BOOLEAN]                    \* next_attempt_at is ahead

Claims == UNION {DeliveryOf[b] : b \in Builds}

WorkerStates ==
    [pc : {"waiting", "claiming", "loading", "pipelines", "inserting", "error"},
     d : Deliveries \cup {NoDelivery},
     todo : SUBSET Pipelines,            \* linked pipelines not yet looked at
     file : {"unread", "read", "unreadable"},
     cands : SUBSET Claims,              \* builds to insert for the pipeline at hand
     deferred : BOOLEAN]

Waiting == [pc |-> "waiting", d |-> NoDelivery, todo |-> {}, file |-> "unread",
            cands |-> {}, deferred |-> FALSE]

InboxTypeOK ==
    /\ kind \in [Deliveries -> {"trigger", "ignore", "other"}]
    /\ inbox \in [Deliveries -> InboxRows]
    /\ arrived \in Seq(Deliveries)
    /\ wake \in BOOLEAN
    /\ receiver \in [Receivers -> [pc : {"idle", "check", "store", "wake"},
                                   d : Deliveries \cup {NoDelivery}]]
    /\ acked \subseteq Deliveries
    /\ worker \in WorkerStates
    /\ restarts \in 0..MaxRestarts

NoRequest == [pc |-> "idle", d |-> NoDelivery]

InboxInit ==
    /\ TableInit
    /\ kind \in [Deliveries -> {"trigger", "ignore", "other"}]
    /\ inbox = [d \in Deliveries |-> [status |-> "absent", attempts |-> 0,
                                      lease |-> "none", backoff |-> FALSE]]
    /\ arrived = <<>>
    /\ wake = TRUE      \* the recovery loop signals as soon as it starts
    /\ receiver = [h \in Receivers |-> NoRequest]
    /\ acked = {}
    /\ worker = Waiting
    /\ restarts = 0

-----------------------------------------------------------------------------
(* github_webhook and gitlab_webhook.                                       *)

OnlyReceiver == UNCHANGED <<tableVars, kind, arrived, worker, restarts>>

(* A request that passed size, signature and payload checks; the provider   *)
(* may send a delivery again at any time.                                   *)
Deliver(h, d) ==
    /\ receiver[h] = NoRequest
    /\ receiver' = [receiver EXCEPT ![h] = [pc |-> "check", d |-> d]]
    /\ OnlyReceiver /\ UNCHANGED <<inbox, wake, acked>>

(* The idempotency SELECT; a GitLab event outside the replay window is      *)
(* refused when it is not stored yet.                                       *)
CheckDelivery(h) ==
    LET d == receiver[h].d
    IN  /\ receiver[h].pc = "check"
        /\ \/ /\ inbox[d].status # "absent"
              /\ receiver' = [receiver EXCEPT ![h].pc = "wake"]
           \/ /\ inbox[d].status = "absent"
              /\ receiver' = [receiver EXCEPT ![h].pc = "store"]
           \/ /\ inbox[d].status = "absent"
              /\ receiver' = [receiver EXCEPT ![h] = NoRequest]
        /\ OnlyReceiver /\ UNCHANGED <<inbox, wake, acked>>

(* INSERT; UNIQUE(integration_id, provider_delivery_id) refuses a second    *)
(* row with a 500.                                                          *)
StoreDelivery(h) ==
    LET d == receiver[h].d
    IN  /\ receiver[h].pc = "store"
        /\ IF inbox[d].status = "absent"
           THEN /\ inbox' = [inbox EXCEPT ![d].status = "received"]
                /\ arrived' = Append(arrived, d)
                /\ receiver' = [receiver EXCEPT ![h].pc = "wake"]
           ELSE /\ receiver' = [receiver EXCEPT ![h] = NoRequest]
                /\ UNCHANGED <<inbox, arrived>>
        /\ UNCHANGED <<tableVars, kind, wake, acked, worker, restarts>>

(* signal_webhook_processor: try_send, a full channel is fine; then 200. *)
AckDelivery(h) ==
    /\ receiver[h].pc = "wake"
    /\ wake' = TRUE
    /\ acked' = acked \cup {receiver[h].d}
    /\ receiver' = [receiver EXCEPT ![h] = NoRequest]
    /\ OnlyReceiver /\ UNCHANGED inbox

-----------------------------------------------------------------------------
(* The worker of start_webhook_processor.                                   *)

OnlyWorker == UNCHANGED <<tableVars, kind, arrived, receiver, acked, restarts>>

(* receiver.recv() *)
Wake ==
    /\ worker.pc = "waiting" /\ wake
    /\ wake' = FALSE
    /\ worker' = [Waiting EXCEPT !.pc = "claiming"]
    /\ OnlyWorker /\ UNCHANGED inbox

Claimable(d) ==
    /\ inbox[d].status = "received"
    /\ inbox[d].attempts < MaxAttempts
    /\ ~inbox[d].backoff
    /\ inbox[d].lease # "held"

(* claim_next_webhook: the oldest claimable row, or back to waiting. *)
ClaimNextWebhook ==
    /\ worker.pc = "claiming"
    /\ \/ \E i \in DOMAIN arrived :
            /\ Claimable(arrived[i])
            /\ \A j \in 1..(i - 1) : ~Claimable(arrived[j])
            /\ inbox' = [inbox EXCEPT ![arrived[i]].lease = "held",
                                      ![arrived[i]].attempts = @ + 1]
            /\ worker' = [Waiting EXCEPT !.pc = "loading", !.d = arrived[i]]
       \/ /\ \A i \in DOMAIN arrived : ~Claimable(arrived[i])
          /\ worker' = Waiting
          /\ UNCHANGED inbox
    /\ OnlyWorker /\ UNCHANGED wake

(* The statement claiming a row fails (the database is busy): the worker    *)
(* waits for the next signal.                                               *)
ClaimFails ==
    /\ worker.pc = "claiming"
    /\ worker' = Waiting
    /\ OnlyWorker /\ UNCHANGED <<inbox, wake>>

(* Mutant: the UPDATE is not guarded by the status. *)
MutSettleAnyway(d, s) ==
    inbox' = [inbox EXCEPT ![d] = [@ EXCEPT !.status = s, !.lease = "none", !.backoff = FALSE]]

(* UPDATE ... SET status = s ... WHERE id = ? AND status = 'received' *)
Settle(d, s) ==
    inbox' = [inbox EXCEPT ![d] =
        IF @.status = "received"
        THEN [@ EXCEPT !.status = s, !.lease = "none", !.backoff = FALSE]
        ELSE @]

BackTo(w) == worker' = [Waiting EXCEPT !.pc = w]

(* webhook_trigger_decision: a revision of a repository this integration    *)
(* knows triggers; other revisions are ignored; other events do nothing.    *)
Decision(d) ==
    IF kind[d] = "trigger" /\ RepoOf[d] \notin known THEN "ignore" ELSE kind[d]

(* process_claimed_webhook and the head of trigger_build_from_webhook: load *)
(* the row, decide, and select the enabled pipelines of the linked projects.*)
LoadWebhook ==
    LET d == worker.d
        linked == {p \in Pipelines : source[LinkOf[p]] = RepoOf[d]}
    IN  /\ worker.pc = "loading"
        /\ \/ /\ inbox[d].status # "received" \/ inbox[d].lease = "none"
              /\ BackTo("claiming") /\ UNCHANGED inbox
           \/ /\ inbox[d].status = "received" /\ inbox[d].lease # "none"
              /\ \/ /\ Decision(d) = "ignore"
                    /\ Settle(d, "ignored") /\ BackTo("claiming")
                 \/ /\ Decision(d) = "other"
                    /\ Settle(d, "processed") /\ BackTo("claiming")
                 \/ /\ Decision(d) = "trigger"
                    /\ worker' = [worker EXCEPT !.pc = "pipelines", !.todo = linked]
                    /\ UNCHANGED inbox
        /\ OnlyWorker /\ UNCHANGED wake

(* The builds pipeline p may create for d, given how the file was read: its *)
(* own workflow, every workflow of a file with several, or, without a file, *)
(* the pipeline's trigger settings.                                         *)
Candidates(d, p, file) ==
    LET names == IF WorkflowOf[p] # "" THEN {WorkflowOf[p]}
                 ELSE IF file = "read" /\ Cardinality(FileOf[d]) > 1 THEN FileOf[d]
                 ELSE {""}
    IN  {<<d, p, w>> : w \in names} \cap Matching

(* A pipeline with a workflow is not guessed at: it waits for a retry. *)
MustDefer(p, file) == file = "unreadable" /\ WorkflowOf[p] # ""

(* One pipeline of the loop.  The file is read once per pass and project.   *)
TakePipeline ==
    /\ worker.pc = "pipelines"
    /\ \E p \in worker.todo :
       \E file \in IF worker.file = "unread" THEN {"read", "unreadable"} ELSE {worker.file} :
        LET rest == [worker EXCEPT !.todo = @ \ {p}, !.file = file]
        IN  worker' = IF MustDefer(p, file)
                      THEN [rest EXCEPT !.deferred = TRUE]
                      ELSE [rest EXCEPT !.pc = "inserting", !.cands = Candidates(worker.d, p, file)]
    /\ OnlyWorker /\ UNCHANGED <<inbox, wake>>

(* Build ids not yet used that would stand for candidate c. *)
FreshFor(c) == {b \in Builds : DeliveryOf[b] = {c} /\ status[b] = "absent"}

(* insert_build_with_retry: one candidate is inserted, ... *)
InsertCandidate ==
    /\ worker.pc = "inserting"
    /\ \E c \in worker.cands, b \in Builds, hold \in Holds, prev \in Cancels :
        /\ b \in FreshFor(c)
        /\ InsertBuild(b, RepoOf[worker.d], hold, prev)
        /\ worker' = [worker EXCEPT !.cands = @ \ {c}]
    /\ UNCHANGED <<kind, inbox, arrived, wake, receiver, acked, restarts>>

(* ... or skipped: the delivery has built it already, or the project's      *)
(* source changed.                                                          *)
SkipCandidate ==
    /\ worker.pc = "inserting"
    /\ \E c \in worker.cands :
        /\ \/ c \in deliveries
           \/ source[LinkOf[c[2]]] # RepoOf[worker.d]
        /\ worker' = [worker EXCEPT !.cands = @ \ {c}]
    /\ OnlyWorker /\ UNCHANGED <<inbox, wake>>

PipelineDone ==
    /\ worker.pc = "inserting" /\ worker.cands = {}
    /\ worker' = [worker EXCEPT !.pc = "pipelines"]
    /\ OnlyWorker /\ UNCHANGED <<inbox, wake>>

(* Mutant: a deferred pipeline is forgotten. *)
MutForgetDeferred == worker.todo = {}

(* Every pipeline had its chance and none was deferred. *)
PassComplete == worker.todo = {} /\ ~worker.deferred

(* The end of process_webhook_event. *)
FinishWebhook ==
    /\ worker.pc = "pipelines" /\ PassComplete
    /\ Settle(worker.d, "processed")
    /\ BackTo("claiming")
    /\ OnlyWorker /\ UNCHANGED wake

(* A deferred pipeline, or a statement that failed anywhere in the pass. *)
PassFails ==
    /\ \/ worker.pc = "pipelines" /\ worker.todo = {} /\ worker.deferred
       \/ worker.pc \in {"loading", "pipelines", "inserting"}
    /\ worker' = [Waiting EXCEPT !.pc = "error", !.d = worker.d]
    /\ OnlyWorker /\ UNCHANGED <<inbox, wake>>

(* record_webhook_processing_error: a later retry, or the last one failed;  *)
(* this statement can fail too, and the lease stays.                        *)
RecordError ==
    LET d == worker.d
    IN  /\ worker.pc = "error"
        /\ \/ /\ inbox[d].status = "received" /\ inbox[d].attempts < MaxAttempts
              /\ inbox' = [inbox EXCEPT ![d].lease = "none", ![d].backoff = TRUE]
           \/ /\ inbox[d].attempts >= MaxAttempts
              /\ Settle(d, "failed")
           \/ UNCHANGED inbox
        /\ BackTo("claiming")
        /\ OnlyWorker /\ UNCHANGED wake

-----------------------------------------------------------------------------
(* The recovery loop, time and restarts.                                    *)

(* Mutant: leases that ran out on the last attempt are left alone. *)
MutFailNothing == {}

(* fail_exhausted_webhook_leases *)
Exhausted == {d \in Deliveries : /\ inbox[d].status = "received"
                                 /\ inbox[d].attempts >= MaxAttempts
                                 /\ inbox[d].lease = "expired"}

(* Every WEBHOOK_RECOVERY_INTERVAL_SECS: fail exhausted rows, then signal. *)
Recover ==
    /\ inbox' = [d \in Deliveries |->
            IF d \in Exhausted THEN [inbox[d] EXCEPT !.status = "failed", !.lease = "none",
                                                     !.backoff = FALSE]
                               ELSE inbox[d]]
    /\ wake' = TRUE
    /\ UNCHANGED <<tableVars, kind, arrived, receiver, acked, worker, restarts>>

(* WEBHOOK_PROCESSING_LEASE_SECS, or the retry delay, have passed. *)
TimePasses(d) ==
    /\ \/ inbox[d].lease = "held" /\ inbox' = [inbox EXCEPT ![d].lease = "expired"]
       \/ inbox[d].backoff /\ inbox' = [inbox EXCEPT ![d].backoff = FALSE]
    /\ UNCHANGED <<tableVars, kind, arrived, wake, receiver, acked, worker, restarts>>

(* The daemon dies and starts again; the database stays. *)
Restart ==
    /\ restarts < MaxRestarts
    /\ restarts' = restarts + 1
    /\ receiver' = [h \in Receivers |-> NoRequest]
    /\ worker' = Waiting
    /\ wake' = TRUE
    /\ UNCHANGED <<tableVars, kind, inbox, arrived, acked>>

(* The sync of an integration removes a repository. *)
RepositoryGone(r) == RemoveRepositories({r}) /\ UNCHANGED inboxVars

WorkerStep ==
    \/ Wake \/ ClaimNextWebhook \/ ClaimFails \/ LoadWebhook \/ TakePipeline
    \/ InsertCandidate \/ SkipCandidate \/ PipelineDone
    \/ FinishWebhook \/ PassFails \/ RecordError

ReceiverStep(h) ==
    \/ \E d \in Deliveries : Deliver(h, d)
    \/ CheckDelivery(h) \/ StoreDelivery(h) \/ AckDelivery(h)

InboxNext ==
    \/ WorkerStep
    \/ \E h \in Receivers : ReceiverStep(h)
    \/ Recover
    \/ \E d \in Deliveries : TimePasses(d)
    \/ Restart
    \/ \E r \in Repositories : RepositoryGone(r)

(* The worker and the recovery loop keep running, time passes, and the      *)
(* database is not busy every time a row is to be claimed; nothing is       *)
(* assumed of the provider, the network or the statements of a pass.        *)
InboxSpec ==
    /\ InboxInit /\ [][InboxNext]_webhookVars
    /\ WF_webhookVars(WorkerStep) /\ SF_webhookVars(ClaimNextWebhook)
    /\ WF_webhookVars(Recover)
    /\ \A d \in Deliveries : WF_webhookVars(TimePasses(d))

-----------------------------------------------------------------------------
(* Properties.                                                              *)

(* A delivery answered with 200 is in the inbox, whatever two concurrent    *)
(* copies of it did; and once settled it keeps its outcome, although a      *)
(* worker whose lease ran out may still be busy with it                     *)
(* (fail_exhausted_webhook_leases against process_webhook_event).           *)
SettledStaysSettled ==
    [][/\ acked' \subseteq {d \in Deliveries : inbox'[d].status # "absent"}
       /\ \A d \in Deliveries : inbox[d].status \in Settled
                                    => inbox'[d].status = inbox[d].status]_webhookVars

(* A processed delivery reached every pipeline: each pipeline whose own     *)
(* workflow matches has built it, and each other one has built its trigger  *)
(* settings or the workflows of the file, however often the pass failed, a  *)
(* file could not be read or the daemon restarted (deferred in              *)
(* trigger_build_from_webhook).                                             *)
ProcessedReachedAll ==
    \A d \in Deliveries :
        inbox[d].status = "processed" /\ kind[d] = "trigger" /\ RepoOf[d] \in known =>
            \A p \in Pipelines :
                source[LinkOf[p]] = RepoOf[d] =>
                    \/ Candidates(d, p, "read") \subseteq deliveries
                    \/ WorkflowOf[p] = "" /\ Candidates(d, p, "unreadable") \subseteq deliveries

(* Every stored delivery is settled in the end: leases left by a crash run  *)
(* out, and the attempts are used up at the latest.                         *)
ReceivedSettles ==
    \A d \in Deliveries : inbox[d].status = "received" ~> inbox[d].status \in Settled

(* "Retrying is safe because each pipeline builds a delivery at most once": *)
(* a pipeline does not build a delivery from its trigger settings and again *)
(* from the workflows of its file.                                          *)
RetryIsSafe ==
    \A d \in Deliveries, p \in Pipelines :
        <<d, p, "">> \in deliveries => \A w \in FileOf[d] : <<d, p, w>> \notin deliveries
=============================================================================
