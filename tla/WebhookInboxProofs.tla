------------------------- MODULE WebhookInboxProofs -------------------------
(***************************************************************************)
(* Theorems about the webhook inbox, for every set of deliveries, requests,*)
(* pipelines and workflows and every number of attempts and restarts.      *)
(*                                                                         *)
(* ProcessedReachedAll speaks of settled rows only; what makes it hold is  *)
(* what the worker knows half way through a pass (PassOK): every linked    *)
(* pipeline is still to be looked at, was deferred, or has built all its   *)
(* candidates but the ones at hand.  The links may go away while a pass    *)
(* runs and never come back under this specification, and the claims of a  *)
(* delivery are never taken back: a pass interrupted anywhere loses        *)
(* nothing.                                                                *)
(***************************************************************************)
EXTENDS WebhookInbox, BuildTableProofs

Requests == [pc : {"idle", "check", "store", "wake"}, d : Deliveries \cup {NoDelivery}]

Workers == [pc : {"waiting", "claiming", "loading", "pipelines", "inserting", "error"},
            d : Deliveries \cup {NoDelivery},
            todo : SUBSET Pipelines,
            file : {"unread", "read", "unreadable"},
            cands : SUBSET Matching,
            deferred : BOOLEAN]

ReceiverTyped == receiver \in [Receivers -> Requests] /\ arrived \in Seq(Deliveries)

(* The parts of the state the argument reads. *)
InboxShape == inbox \in [Deliveries -> InboxRows] /\ ReceiverTyped /\ worker \in Workers

Busy == {"loading", "pipelines", "inserting", "error"}

(* A request beyond its idempotency check has stored the delivery it is     *)
(* about to acknowledge, or found it stored.                                *)
StoredOK ==
    /\ \A h \in Receivers :
        /\ receiver[h].pc # "idle" => receiver[h].d \in Deliveries
        /\ receiver[h].pc = "wake" => inbox[receiver[h].d].status # "absent"
    /\ \A d \in acked : d \in Deliveries /\ inbox[d].status # "absent"

Linked(d, p) == source[LinkOf[p]] = RepoOf[d] /\ RepoOf[d] \in known

(* The claims S cover what pipeline p builds for delivery d. *)
BuiltIn(d, p, S) ==
    \/ Candidates(d, p, "read") \subseteq S
    \/ WorkflowOf[p] = "" /\ Candidates(d, p, "unreadable") \subseteq S

(* What a pass has done so far. *)
PassOK ==
    /\ worker.pc \in Busy => worker.d \in Deliveries
    /\ worker.pc # "inserting" => worker.cands = {}
    /\ worker.pc \in {"pipelines", "inserting"} =>
        \A p \in Pipelines :
            Linked(worker.d, p) =>
                \/ p \in worker.todo \/ worker.deferred
                \/ BuiltIn(worker.d, p, deliveries \cup worker.cands)

Received == TypeOK /\ InboxShape /\ StoredOK /\ PassOK /\ ProcessedReachedAll

-----------------------------------------------------------------------------
(* The builds table under the inbox. *)

(* Claims are kept and links only go away. *)
TableGoesOn ==
    /\ deliveries \subseteq deliveries'
    /\ \A d \in Deliveries, p \in Pipelines : Linked(d, p)' => Linked(d, p)

(* A build the worker inserts is an INSERT of the table, and adds the claim *)
(* of its candidate.                                                        *)
LEMMA InsertIsTable ==
    ASSUME TypeOK, InboxShape, PassOK, InsertCandidate
    PROVE  /\ TableNext
           /\ UNCHANGED <<known, source>>
           /\ \E c \in worker.cands :
                /\ deliveries' = deliveries \cup {c}
                /\ worker' = [worker EXCEPT !.cands = @ \ {c}]
<1>1. PICK c \in worker.cands, b \in Builds, hold \in Holds, prev \in Cancels :
        /\ b \in FreshFor(c)
        /\ InsertBuild(b, RepoOf[worker.d], hold, prev)
        /\ worker' = [worker EXCEPT !.cands = @ \ {c}]
  BY DEF InsertCandidate
<1>2. DeliveryOf[b] = {c}
  BY <1>1 DEF FreshFor
<1>3. /\ RepoOf[worker.d] \in Repositories
      /\ b \in Builds /\ hold \in BOOLEAN /\ prev \in BOOLEAN
  BY InboxAssumption, <1>1 DEF InsertBuild, TypeOK
<1>4. TableNext
  <2>1. \A r \in Repositories, h \in BOOLEAN, q \in BOOLEAN :
            InsertBuild(b, r, h, q) => BuildStep(b)
    BY InboxAssumption DEF BuildStep
  <2> QED  BY <1>1, <1>3, <2>1 DEF TableNext
<1>5. deliveries' = deliveries \cup {c} /\ UNCHANGED <<known, source>>
  BY <1>1, <1>2 DEF InsertBuild, policyVars
<1> QED  BY <1>1, <1>4, <1>5

(* Every step of the inbox is a transaction of the table or leaves it alone.*)
LEMMA TableSteps ==
    ASSUME TypeOK, InboxShape, PassOK, [InboxNext]_webhookVars
    PROVE  [TableNext]_tableVars /\ TableGoesOn
<1>1. CASE InsertCandidate
  <2>1. TableNext /\ deliveries \subseteq deliveries' /\ UNCHANGED <<known, source>>
    BY <1>1, InsertIsTable
  <2> QED  BY <2>1 DEF TableGoesOn, Linked
<1>2. CASE \E r \in Repositories : RepositoryGone(r)
  <2>1. PICK r \in Repositories : RemoveRepositories({r})
    BY <1>2 DEF RepositoryGone
  <2>2. TableNext
    BY <2>1 DEF TableNext, PolicyStep
  <2>3. deliveries' = deliveries /\ known' = known \ {r}
    BY <2>1 DEF RemoveRepositories
  <2>4. ASSUME NEW p \in Projects, source'[p] # NoRepository PROVE source'[p] = source[p]
    BY <2>1, <2>4 DEF RemoveRepositories
  <2>5. NoRepository \notin Repositories
    BY TableAssumption
  <2>6. RepoOf \in [Deliveries -> Repositories] /\ LinkOf \in [Pipelines -> Projects]
    BY InboxAssumption
  <2> QED  BY <2>2, <2>3, <2>4, <2>5, <2>6 DEF TableGoesOn, Linked
<1>3. CASE UNCHANGED tableVars
  BY <1>3 DEF tableVars, policyVars, TableGoesOn, Linked
<1>4. InsertCandidate \/ (\E r \in Repositories : RepositoryGone(r)) \/ UNCHANGED tableVars
  BY DEF InboxNext, WorkerStep, ReceiverStep, Wake, ClaimNextWebhook, ClaimFails, LoadWebhook,
         TakePipeline, SkipCandidate, PipelineDone, FinishWebhook, PassFails, RecordError,
         OnlyWorker, OnlyReceiver, Deliver, CheckDelivery, StoreDelivery, AckDelivery, Recover,
         TimePasses, Restart, webhookVars
<1> QED  BY <1>1, <1>2, <1>3, <1>4

-----------------------------------------------------------------------------
(* The rows of the inbox. *)

(* A row is stored once and settled once, as processed only when nothing is *)
(* left to build.                                                           *)
RowGoesOn(d) ==
    \/ inbox'[d].status = inbox[d].status
    \/ inbox[d].status = "absent" /\ inbox'[d].status = "received"
    \/ /\ inbox[d].status = "received" /\ inbox'[d].status \in Settled
       /\ inbox'[d].status = "processed" =>
            \/ kind[d] # "trigger"
            \/ \A p \in Pipelines : Linked(d, p) => BuiltIn(d, p, deliveries)

RowsGoOn == inbox' \in [Deliveries -> InboxRows] /\ \A d \in Deliveries : RowGoesOn(d)

(* A settled row is a row with the status s. *)
LEMMA RowSettled ==
    ASSUME NEW r \in InboxRows, NEW s \in Settled
    PROVE  /\ [r EXCEPT !.status = s, !.lease = "none", !.backoff = FALSE] \in InboxRows
           /\ [r EXCEPT !.status = s, !.lease = "none", !.backoff = FALSE].status = s
<1>1. ASSUME NEW b \in BOOLEAN
      PROVE  /\ [r EXCEPT !.status = s, !.lease = "none", !.backoff = b] \in InboxRows
             /\ [r EXCEPT !.status = s, !.lease = "none", !.backoff = b].status = s
  BY DEF InboxRows
<1> QED  BY <1>1

(* One row is written. *)
LEMMA OneRow ==
    ASSUME inbox \in [Deliveries -> InboxRows], NEW d \in Deliveries, NEW r \in InboxRows,
           inbox' = [inbox EXCEPT ![d] = r]
    PROVE  /\ inbox' \in [Deliveries -> InboxRows]
           /\ inbox'[d] = r
           /\ \A e \in Deliveries \ {d} : inbox'[e] = inbox[e]
OBVIOUS

(* Settling moves a received row only. *)
LEMMA SettleRow ==
    ASSUME inbox \in [Deliveries -> InboxRows], NEW d \in Deliveries, NEW s \in Settled,
           Settle(d, s),
           s = "processed" =>
                \/ kind[d] # "trigger"
                \/ \A p \in Pipelines : Linked(d, p) => BuiltIn(d, p, deliveries)
    PROVE  RowsGoOn
<1> DEFINE r == IF inbox[d].status = "received"
                THEN [inbox[d] EXCEPT !.status = s, !.lease = "none", !.backoff = FALSE]
                ELSE inbox[d]
<1>1. inbox' = [inbox EXCEPT ![d] = r]
  BY DEF Settle
<1>2. inbox[d] \in InboxRows
  OBVIOUS
<1>3. /\ r \in InboxRows
      /\ r.status = IF inbox[d].status = "received" THEN s ELSE inbox[d].status
  <2>1. CASE inbox[d].status = "received"
    <3> DEFINE q == [inbox[d] EXCEPT !.status = s, !.lease = "none", !.backoff = FALSE]
    <3>1. q \in InboxRows /\ q.status = s
      BY <1>2, RowSettled
    <3>2. r = q
      BY <2>1
    <3> HIDE DEF q
    <3> QED  BY <2>1, <3>1, <3>2
  <2>2. CASE inbox[d].status # "received"
    BY <1>2, <2>2
  <2> QED  BY <2>1, <2>2
<1> HIDE DEF r
<1>4. /\ inbox' \in [Deliveries -> InboxRows] /\ inbox'[d] = r
      /\ \A e \in Deliveries \ {d} : inbox'[e] = inbox[e]
  BY <1>1, <1>3, OneRow
<1>5. ASSUME NEW e \in Deliveries PROVE RowGoesOn(e)
  BY <1>3, <1>4 DEF RowGoesOn
<1> QED  BY <1>4, <1>5 DEF RowsGoOn

(* Storing a row moves it from absent to received. *)
LEMMA StoredRow ==
    ASSUME inbox \in [Deliveries -> InboxRows], NEW d \in Deliveries, NEW r \in InboxRows,
           inbox' = [inbox EXCEPT ![d] = r],
           inbox[d].status = "absent", r.status = "received"
    PROVE  RowsGoOn
<1>1. /\ inbox' \in [Deliveries -> InboxRows] /\ inbox'[d] = r
      /\ \A e \in Deliveries \ {d} : inbox'[e] = inbox[e]
  BY OneRow
<1> QED  BY <1>1 DEF RowsGoOn, RowGoesOn

(* Writing other columns of a row keeps its status. *)
LEMMA ColumnsOnly ==
    ASSUME inbox \in [Deliveries -> InboxRows], NEW d \in Deliveries, NEW r \in InboxRows,
           inbox' = [inbox EXCEPT ![d] = r], r.status = inbox[d].status
    PROVE  RowsGoOn
<1>1. /\ inbox' \in [Deliveries -> InboxRows] /\ inbox'[d] = r
      /\ \A e \in Deliveries \ {d} : inbox'[e] = inbox[e]
  BY OneRow
<1> QED  BY <1>1 DEF RowsGoOn, RowGoesOn

(* A row whose lease, attempts or backoff change keeps its status. *)
LEMMA RowKept ==
    ASSUME NEW r \in InboxRows
    PROVE  /\ r.attempts < MaxAttempts =>
                /\ [r EXCEPT !.lease = "held", !.attempts = @ + 1] \in InboxRows
                /\ [r EXCEPT !.lease = "held", !.attempts = @ + 1].status = r.status
           /\ [r EXCEPT !.lease = "none", !.backoff = TRUE] \in InboxRows
           /\ [r EXCEPT !.lease = "none", !.backoff = TRUE].status = r.status
           /\ [r EXCEPT !.lease = "expired"] \in InboxRows
           /\ [r EXCEPT !.lease = "expired"].status = r.status
           /\ [r EXCEPT !.backoff = FALSE] \in InboxRows
           /\ [r EXCEPT !.backoff = FALSE].status = r.status
           /\ [r EXCEPT !.status = "received"] \in InboxRows
           /\ [r EXCEPT !.status = "received"].status = "received"
<1>0. MaxAttempts \in Nat
  BY InboxAssumption
<1>1. ASSUME NEW b \in BOOLEAN
      PROVE  /\ [r EXCEPT !.lease = "none", !.backoff = b] \in InboxRows
             /\ [r EXCEPT !.lease = "none", !.backoff = b].status = r.status
             /\ [r EXCEPT !.backoff = b] \in InboxRows
             /\ [r EXCEPT !.backoff = b].status = r.status
  BY DEF InboxRows
<1>2. [r EXCEPT !.lease = "none", !.backoff = TRUE] \in InboxRows
  BY <1>1
<1>3. [r EXCEPT !.lease = "none", !.backoff = TRUE].status = r.status
  BY <1>1
<1>4. [r EXCEPT !.backoff = FALSE] \in InboxRows
  BY <1>1
<1>5. [r EXCEPT !.backoff = FALSE].status = r.status
  BY <1>1
<1>6. r.attempts < MaxAttempts =>
                /\ [r EXCEPT !.lease = "held", !.attempts = @ + 1] \in InboxRows
                /\ [r EXCEPT !.lease = "held", !.attempts = @ + 1].status = r.status
  <2>1. SUFFICES ASSUME r.attempts < MaxAttempts
        PROVE  /\ [r EXCEPT !.lease = "held", !.attempts = @ + 1] \in InboxRows
               /\ [r EXCEPT !.lease = "held", !.attempts = @ + 1].status = r.status
    OBVIOUS
  <2>2. r.attempts \in 0..MaxAttempts /\ r.attempts + 1 \in 0..MaxAttempts
    BY <1>0, <2>1 DEF InboxRows
  <2>3. ASSUME NEW n \in 0..MaxAttempts
        PROVE  /\ [r EXCEPT !.lease = "held", !.attempts = n] \in InboxRows
               /\ [r EXCEPT !.lease = "held", !.attempts = n].status = r.status
    BY DEF InboxRows
  <2> QED  BY <2>2, <2>3
<1>7. /\ [r EXCEPT !.lease = "expired"] \in InboxRows
      /\ [r EXCEPT !.lease = "expired"].status = r.status
      /\ [r EXCEPT !.status = "received"] \in InboxRows
      /\ [r EXCEPT !.status = "received"].status = "received"
  BY DEF InboxRows
<1> QED  BY <1>2, <1>3, <1>4, <1>5, <1>6, <1>7

(* No step takes a row out of the inbox or settles it a second time, and    *)
(* none calls it processed while a linked pipeline has something to build.  *)
LEMMA RowSteps ==
    ASSUME InboxShape, StoredOK, PassOK, [InboxNext]_webhookVars
    PROVE  RowsGoOn /\ kind' = kind
<1>0. inbox \in [Deliveries -> InboxRows]
  BY DEF InboxShape
<1>k. kind' = kind
  BY DEF InboxNext, WorkerStep, ReceiverStep, Wake, ClaimNextWebhook, ClaimFails, LoadWebhook,
         TakePipeline, InsertCandidate, SkipCandidate, PipelineDone, FinishWebhook, PassFails,
         RecordError, OnlyWorker, OnlyReceiver, Deliver, CheckDelivery, StoreDelivery,
         AckDelivery, Recover, TimePasses, Restart, RepositoryGone, webhookVars, inboxVars
<1> SUFFICES RowsGoOn
  BY <1>k
<1>u. ASSUME UNCHANGED inbox PROVE RowsGoOn
  BY <1>0, <1>u DEF RowsGoOn, RowGoesOn
<1>1. CASE \E h \in Receivers : StoreDelivery(h)
  <2>1. PICK h \in Receivers : StoreDelivery(h)
    BY <1>1
  <2> DEFINE d == receiver[h].d
  <2>2. CASE inbox[d].status = "absent"
    <3>1. d \in Deliveries
      BY <2>1 DEF StoreDelivery, StoredOK
    <3>2. inbox' = [inbox EXCEPT ![d] = [inbox[d] EXCEPT !.status = "received"]]
      BY <2>1, <2>2 DEF StoreDelivery
    <3>3. inbox[d] \in InboxRows
      BY <1>0, <3>1
    <3> HIDE DEF d
    <3> DEFINE r == [inbox[d] EXCEPT !.status = "received"]
    <3>4. r \in InboxRows /\ r.status = "received"
      BY <3>3, RowKept
    <3> HIDE DEF r
    <3> QED  BY <1>0, <2>2, <3>1, <3>2, <3>4, StoredRow DEF r
  <2>3. CASE inbox[d].status # "absent"
    BY <1>u, <2>1, <2>3 DEF StoreDelivery
  <2> QED  BY <2>2, <2>3
<1>2. CASE ClaimNextWebhook
  <2>1. CASE UNCHANGED inbox
    BY <1>u, <2>1
  <2>2. CASE ~UNCHANGED inbox
    <3>1. PICK i \in DOMAIN arrived :
            /\ Claimable(arrived[i])
            /\ inbox' = [inbox EXCEPT ![arrived[i]].lease = "held",
                                      ![arrived[i]].attempts = @ + 1]
      BY <1>2, <2>2 DEF ClaimNextWebhook
    <3>2. arrived[i] \in Deliveries
      BY <3>1 DEF InboxShape, ReceiverTyped
    <3> DEFINE d == arrived[i]
               r == [inbox[d] EXCEPT !.lease = "held", !.attempts = @ + 1]
    <3>3. inbox[d] \in InboxRows /\ inbox[d].attempts < MaxAttempts
      BY <1>0, <3>1, <3>2 DEF Claimable
    <3>4. r \in InboxRows /\ r.status = inbox[d].status
      BY <3>3, RowKept
    <3>5. inbox' = [inbox EXCEPT ![d] = r]
      BY <1>0, <3>1, <3>2
    <3> HIDE DEF r, d
    <3> QED  BY <1>0, <3>2, <3>4, <3>5, ColumnsOnly DEF d
  <2> QED  BY <2>1, <2>2
<1>3. CASE LoadWebhook
  <2>1. worker.d \in Deliveries
    BY <1>3 DEF LoadWebhook, PassOK, Busy
  <2>2. CASE Settle(worker.d, "ignored")
    BY <1>0, <2>1, <2>2, SettleRow DEF Settled
  <2>3. CASE Decision(worker.d) = "other" /\ Settle(worker.d, "processed")
    <3>1. kind[worker.d] # "trigger"
      BY <2>3 DEF Decision
    <3> QED  BY <1>0, <2>1, <2>3, <3>1, SettleRow DEF Settled
  <2>4. CASE UNCHANGED inbox
    BY <1>u, <2>4
  <2> QED  BY <1>3, <2>2, <2>3, <2>4 DEF LoadWebhook
<1>4. CASE FinishWebhook
  <2>1. worker.d \in Deliveries /\ worker.cands = {} /\ worker.todo = {} /\ ~worker.deferred
    BY <1>4 DEF FinishWebhook, PassComplete, PassOK, Busy
  <2>2. \A p \in Pipelines :
            Linked(worker.d, p) => BuiltIn(worker.d, p, deliveries \cup worker.cands)
    BY <1>4, <2>1 DEF FinishWebhook, PassOK
  <2>3. deliveries \cup worker.cands = deliveries
    BY <2>1
  <2>4. \A p \in Pipelines : Linked(worker.d, p) => BuiltIn(worker.d, p, deliveries)
    BY <2>2, <2>3
  <2>5. Settle(worker.d, "processed")
    BY <1>4 DEF FinishWebhook
  <2> QED  BY <1>0, <2>1, <2>4, <2>5, SettleRow DEF Settled
<1>5. CASE RecordError
  <2> DEFINE d == worker.d
  <2>1. d \in Deliveries
    BY <1>5 DEF RecordError, PassOK, Busy
  <2>2. CASE inbox' = [inbox EXCEPT ![d].lease = "none", ![d].backoff = TRUE]
    <3> DEFINE r == [inbox[d] EXCEPT !.lease = "none", !.backoff = TRUE]
    <3>1. r \in InboxRows /\ r.status = inbox[d].status
      BY <1>0, <2>1, RowKept
    <3>2. inbox' = [inbox EXCEPT ![d] = r]
      BY <1>0, <2>1, <2>2
    <3> HIDE DEF r, d
    <3> QED  BY <1>0, <2>1, <3>1, <3>2, ColumnsOnly
  <2>3. CASE Settle(d, "failed")
    BY <1>0, <2>1, <2>3, SettleRow DEF Settled
  <2>4. CASE UNCHANGED inbox
    BY <1>u, <2>4
  <2> QED  BY <1>5, <2>2, <2>3, <2>4 DEF RecordError
<1>6. CASE Recover
  <2>1. ASSUME NEW d \in Deliveries
        PROVE  inbox'[d] \in InboxRows /\ RowGoesOn(d)
    <3>1. inbox[d] \in InboxRows
      BY <1>0
    <3> DEFINE r == [inbox[d] EXCEPT !.status = "failed", !.lease = "none", !.backoff = FALSE]
    <3>2. r \in InboxRows /\ r.status = "failed"
      BY <3>1, RowSettled DEF Settled
    <3>3. inbox'[d] = IF d \in Exhausted THEN r ELSE inbox[d]
      BY <1>6 DEF Recover
    <3> HIDE DEF r
    <3>4. d \in Exhausted => inbox[d].status = "received"
      BY DEF Exhausted
    <3> QED  BY <3>1, <3>2, <3>3, <3>4 DEF RowGoesOn, Settled
  <2>2. inbox' = [d \in Deliveries |-> inbox'[d]]
    BY <1>6 DEF Recover
  <2> QED  BY <2>1, <2>2 DEF RowsGoOn
<1>7. CASE \E d \in Deliveries : TimePasses(d)
  <2>1. PICK d \in Deliveries : TimePasses(d)
    BY <1>7
  <2>2. inbox[d] \in InboxRows
    BY <1>0, <2>1
  <2>3. CASE inbox' = [inbox EXCEPT ![d].lease = "expired"]
    <3> DEFINE r == [inbox[d] EXCEPT !.lease = "expired"]
    <3>1. r \in InboxRows /\ r.status = inbox[d].status
      BY <2>2, RowKept
    <3>2. inbox' = [inbox EXCEPT ![d] = r]
      BY <2>3
    <3> HIDE DEF r
    <3> QED  BY <1>0, <2>1, <3>1, <3>2, ColumnsOnly
  <2>4. CASE inbox' = [inbox EXCEPT ![d].backoff = FALSE]
    <3> DEFINE r == [inbox[d] EXCEPT !.backoff = FALSE]
    <3>1. r \in InboxRows /\ r.status = inbox[d].status
      BY <2>2, RowKept
    <3>2. inbox' = [inbox EXCEPT ![d] = r]
      BY <2>4
    <3> HIDE DEF r
    <3> QED  BY <1>0, <2>1, <3>1, <3>2, ColumnsOnly
  <2> QED  BY <2>1, <2>3, <2>4 DEF TimePasses
<1>8. CASE UNCHANGED inbox
  BY <1>8, <1>u
<1> QED
  BY <1>1, <1>2, <1>3, <1>4, <1>5, <1>6, <1>7, <1>8
  DEF InboxNext, WorkerStep, ReceiverStep, Wake, ClaimFails, TakePipeline, InsertCandidate,
      SkipCandidate, PipelineDone, PassFails, Deliver, CheckDelivery, AckDelivery, Restart,
      RepositoryGone, webhookVars, inboxVars

-----------------------------------------------------------------------------
(* The requests. *)

(* A stored row stays stored. *)
LEMMA StoredStays ==
    ASSUME RowsGoOn
    PROVE  \A d \in Deliveries : inbox[d].status # "absent" => inbox'[d].status # "absent"
BY DEF RowsGoOn, RowGoesOn, Settled

(* A request moves while the others stay where they are. *)
LEMMA OneRequest ==
    ASSUME ReceiverTyped, StoredOK, RowsGoOn, NEW h \in Receivers,
           NEW m \in Requests,
           receiver' = [receiver EXCEPT ![h] = m], arrived' \in Seq(Deliveries),
           m.pc # "idle" => m.d \in Deliveries,
           m.pc = "wake" => inbox'[m.d].status # "absent",
           \A d \in acked' : d \in Deliveries /\ inbox'[d].status # "absent"
    PROVE  ReceiverTyped' /\ StoredOK'
<1>1. receiver'[h] = m /\ \A g \in Receivers \ {h} : receiver'[g] = receiver[g]
  BY DEF ReceiverTyped
<1>2. ASSUME NEW g \in Receivers
      PROVE  /\ receiver'[g].pc # "idle" => receiver'[g].d \in Deliveries
             /\ receiver'[g].pc = "wake" => inbox'[receiver'[g].d].status # "absent"
  BY <1>1, StoredStays DEF StoredOK
<1>3. ReceiverTyped'
  BY DEF ReceiverTyped
<1> QED  BY <1>2, <1>3 DEF StoredOK

(* Every delivery answered with 200 is stored: the request found the row or *)
(* inserted it, and rows are not taken out.                                 *)
LEMMA ReceiverSteps ==
    ASSUME InboxShape, StoredOK, RowsGoOn, [InboxNext]_webhookVars
    PROVE  ReceiverTyped' /\ StoredOK'
<1>0. ReceiverTyped
  BY DEF InboxShape
<1>a. \A d \in acked : d \in Deliveries /\ inbox'[d].status # "absent"
  BY StoredStays DEF StoredOK
<1> USE DEF Requests
<1>n. NoRequest \in Requests /\ NoRequest.pc = "idle"
  BY DEF NoRequest
<1>u. ASSUME UNCHANGED <<receiver, arrived, acked>> PROVE ReceiverTyped' /\ StoredOK'
  BY <1>0, <1>u, <1>a, StoredStays DEF ReceiverTyped, StoredOK
<1>1. ASSUME NEW h \in Receivers, NEW d \in Deliveries, Deliver(h, d)
      PROVE  ReceiverTyped' /\ StoredOK'
  <2> DEFINE m == [pc |-> "check", d |-> d]
  <2>1. m \in Requests /\ m.pc = "check" /\ m.d = d
    OBVIOUS
  <2>2. receiver' = [receiver EXCEPT ![h] = m] /\ UNCHANGED <<arrived, acked>>
    BY <1>1 DEF Deliver, OnlyReceiver
  <2>3. arrived' \in Seq(Deliveries)
    BY <1>0, <2>2 DEF ReceiverTyped
  <2>4. \A e \in acked' : e \in Deliveries /\ inbox'[e].status # "absent"
    BY <1>a, <2>2
  <2> HIDE DEF m
  <2> QED  BY <1>0, <2>1, <2>2, <2>3, <2>4, OneRequest
<1>2. ASSUME NEW h \in Receivers, CheckDelivery(h)
      PROVE  ReceiverTyped' /\ StoredOK'
  <2>1. receiver[h] \in Requests /\ receiver[h].pc = "check" /\ receiver[h].d \in Deliveries
    BY <1>0, <1>2 DEF CheckDelivery, ReceiverTyped, StoredOK
  <2>2. UNCHANGED <<arrived, acked, inbox>>
    BY <1>2 DEF CheckDelivery, OnlyReceiver
  <2>3. PICK m \in Requests :
            /\ receiver' = [receiver EXCEPT ![h] = m]
            /\ \/ m.pc \in {"wake", "store"} /\ m.d = receiver[h].d
               \/ m.pc = "idle"
            /\ m.pc = "wake" => inbox[receiver[h].d].status # "absent"
    <3> DEFINE mw == [receiver[h] EXCEPT !.pc = "wake"]
               ms == [receiver[h] EXCEPT !.pc = "store"]
    <3>1. /\ mw \in Requests /\ mw.pc = "wake" /\ mw.d = receiver[h].d
          /\ ms \in Requests /\ ms.pc = "store" /\ ms.d = receiver[h].d
      BY <2>1
    <3>2. \/ receiver' = [receiver EXCEPT ![h] = mw] /\ inbox[receiver[h].d].status # "absent"
          \/ receiver' = [receiver EXCEPT ![h] = ms]
          \/ receiver' = [receiver EXCEPT ![h] = NoRequest]
      BY <1>2 DEF CheckDelivery
    <3> HIDE DEF mw, ms
    <3> QED  BY <1>n, <3>1, <3>2
  <2>4. /\ m.pc # "idle" => m.d \in Deliveries
        /\ m.pc = "wake" => inbox'[m.d].status # "absent"
    BY <2>1, <2>2, <2>3
  <2>5. arrived' \in Seq(Deliveries) /\ \A e \in acked' : e \in Deliveries /\ inbox'[e].status # "absent"
    BY <1>0, <1>a, <2>2 DEF ReceiverTyped
  <2> QED  BY <1>0, <2>3, <2>4, <2>5, OneRequest
<1>3. ASSUME NEW h \in Receivers, StoreDelivery(h)
      PROVE  ReceiverTyped' /\ StoredOK'
  <2> DEFINE d == receiver[h].d
  <2>1. receiver[h] \in Requests /\ receiver[h].pc = "store" /\ d \in Deliveries
    BY <1>0, <1>3 DEF StoreDelivery, ReceiverTyped, StoredOK
  <2>2. \A e \in acked' : e \in Deliveries /\ inbox'[e].status # "absent"
    BY <1>3, <1>a DEF StoreDelivery
  <2>3. CASE inbox[d].status = "absent"
    <3> DEFINE m == [receiver[h] EXCEPT !.pc = "wake"]
    <3>1. m \in Requests /\ m.pc = "wake" /\ m.d = d
      BY <2>1
    <3>2. receiver' = [receiver EXCEPT ![h] = m] /\ arrived' = Append(arrived, d)
          /\ inbox' = [inbox EXCEPT ![d].status = "received"]
      BY <1>3, <2>3 DEF StoreDelivery
    <3>3. inbox'[d].status = "received"
      BY <2>1, <3>2 DEF InboxShape, InboxRows
    <3>4. arrived' \in Seq(Deliveries)
      BY <1>0, <2>1, <3>2 DEF ReceiverTyped
    <3> HIDE DEF m, d
    <3> QED  BY <1>0, <2>1, <2>2, <3>1, <3>2, <3>3, <3>4, OneRequest
  <2>4. CASE inbox[d].status # "absent"
    <3>1. receiver' = [receiver EXCEPT ![h] = NoRequest] /\ UNCHANGED arrived
      BY <1>3, <2>4 DEF StoreDelivery
    <3>2. arrived' \in Seq(Deliveries)
      BY <1>0, <3>1 DEF ReceiverTyped
    <3> QED  BY <1>0, <1>n, <2>2, <3>1, <3>2, OneRequest
  <2> QED  BY <2>3, <2>4
<1>4. ASSUME NEW h \in Receivers, AckDelivery(h)
      PROVE  ReceiverTyped' /\ StoredOK'
  <2>1. /\ receiver' = [receiver EXCEPT ![h] = NoRequest] /\ UNCHANGED <<arrived, inbox>>
        /\ acked' = acked \cup {receiver[h].d}
        /\ receiver[h].pc = "wake"
    BY <1>4 DEF AckDelivery, OnlyReceiver
  <2>2. receiver[h].d \in Deliveries /\ inbox'[receiver[h].d].status # "absent"
    BY <2>1 DEF StoredOK
  <2>3. \A e \in acked' : e \in Deliveries /\ inbox'[e].status # "absent"
    BY <1>a, <2>1, <2>2
  <2>4. arrived' \in Seq(Deliveries)
    BY <1>0, <2>1 DEF ReceiverTyped
  <2> QED  BY <1>0, <1>n, <2>1, <2>3, <2>4, OneRequest
<1>5. CASE Restart
  <2>1. \A h \in Receivers : receiver'[h] = NoRequest
    BY <1>5 DEF Restart
  <2>2. ReceiverTyped'
    BY <1>0, <1>5, <1>n DEF Restart, ReceiverTyped
  <2>3. \A d \in acked' : d \in Deliveries /\ inbox'[d].status # "absent"
    BY <1>a, <1>5 DEF Restart
  <2> QED  BY <1>n, <2>1, <2>2, <2>3 DEF StoredOK
<1>6. (\E h \in Receivers : ReceiverStep(h)) \/ Restart \/ UNCHANGED <<receiver, arrived, acked>>
  BY DEF InboxNext, WorkerStep, Wake, ClaimNextWebhook, ClaimFails, LoadWebhook, TakePipeline,
         InsertCandidate, SkipCandidate, PipelineDone, FinishWebhook, PassFails, RecordError,
         OnlyWorker, Recover, TimePasses, RepositoryGone, webhookVars, inboxVars
<1> QED  BY <1>u, <1>1, <1>2, <1>3, <1>4, <1>5, <1>6 DEF ReceiverStep

-----------------------------------------------------------------------------
(* The worker. *)

(* More claims cover what fewer did. *)
LEMMA BuiltGrows ==
    ASSUME NEW d, NEW p, NEW S, NEW T, S \subseteq T, BuiltIn(d, p, S)
    PROVE  BuiltIn(d, p, T)
BY DEF BuiltIn

(* A candidate names its delivery and its pipeline. *)
LEMMA CandidateShape ==
    ASSUME NEW d, NEW p, NEW file
    PROVE  /\ Candidates(d, p, file) \subseteq Matching
           /\ \A c \in Candidates(d, p, file) : c[1] = d /\ c[2] = p
<1>1. ASSUME NEW c \in Candidates(d, p, file) PROVE c[1] = d /\ c[2] = p
  <2>1. PICK w : c = <<d, p, w>>
    BY DEF Candidates
  <2> QED  BY <2>1
<1> QED  BY <1>1 DEF Candidates

(* The worker at rest. *)
LEMMA WaitingShape ==
    Waiting \in Workers /\ Waiting.pc = "waiting" /\ Waiting.cands = {}
<1> DEFINE r(b) == [pc |-> "waiting", d |-> NoDelivery, todo |-> {}, file |-> "unread",
                    cands |-> {}, deferred |-> b]
<1>1. ASSUME NEW b \in BOOLEAN
      PROVE  r(b) \in Workers /\ r(b).pc = "waiting" /\ r(b).cands = {}
  BY DEF Workers
<1>2. Waiting = r(FALSE) /\ FALSE \in BOOLEAN
  BY Zenon DEF Waiting
<1> HIDE DEF r
<1> QED  BY <1>1, <1>2, Zenon

(* A worker that is not in the middle of a pass owes nothing. *)
LEMMA Resting ==
    ASSUME NEW w \in {"waiting", "claiming", "loading", "error"},
           NEW d \in Deliveries \cup {NoDelivery},
           w \in {"loading", "error"} => d \in Deliveries,
           worker' = [Waiting EXCEPT !.pc = w, !.d = d]
    PROVE  worker' \in Workers /\ PassOK'
<1>1. worker' \in Workers /\ worker'.pc = w /\ worker'.d = d /\ worker'.cands = {}
  BY WaitingShape DEF Workers
<1> QED  BY <1>1 DEF PassOK, Busy

(* The steps that go back to the top of the loop. *)
LEMMA BackToTop ==
    ASSUME NEW w \in {"waiting", "claiming"},
           worker' = [Waiting EXCEPT !.pc = w] \/ worker' = Waiting
    PROVE  worker' \in Workers /\ PassOK'
<1>1. worker' \in Workers /\ worker'.pc \in {"waiting", "claiming"} /\ worker'.cands = {}
  BY WaitingShape DEF Workers
<1> QED  BY <1>1 DEF PassOK, Busy

(* A link the worker sees after a step was there before it. *)
LEMMA LinksKept ==
    ASSUME TableGoesOn, worker'.d = worker.d, worker.d \in Deliveries, NEW p \in Pipelines,
           Linked(worker.d, p)'
    PROVE  Linked(worker.d, p)
<1>1. \A d \in Deliveries : d = worker'.d => (Linked(d, p)' => Linked(d, p))
  BY DEF TableGoesOn
<1>2. \A d \in Deliveries : d = worker'.d => Linked(d, p)'
  BY DEF Linked
<1> QED  BY <1>1, <1>2

(* The start of a pass: all linked pipelines are to be looked at. *)
LEMMA LoadStep ==
    ASSUME InboxShape, PassOK, TableGoesOn, LoadWebhook
    PROVE  worker' \in Workers /\ PassOK'
<1> DEFINE linked == {p \in Pipelines : source[LinkOf[p]] = RepoOf[worker.d]}
<1>1. CASE BackTo("claiming")
  BY <1>1, BackToTop DEF BackTo
<1>2. CASE worker' = [worker EXCEPT !.pc = "pipelines", !.todo = linked]
  <2>1. /\ worker' \in Workers /\ worker'.pc = "pipelines" /\ worker'.d = worker.d
        /\ worker'.todo = linked /\ worker'.cands = {} /\ worker.d \in Deliveries
    <3>1. linked \in SUBSET Pipelines /\ worker \in Workers /\ worker.cands = {}
          /\ worker.d \in Deliveries
      BY DEF InboxShape, LoadWebhook, PassOK, Busy
    <3> HIDE DEF linked
    <3> QED  BY <1>2, <3>1 DEF Workers
  <2>2. ASSUME NEW p \in Pipelines, Linked(worker.d, p)' PROVE p \in worker'.todo
    <3>1. Linked(worker.d, p)
      BY <2>1, <2>2, LinksKept
    <3> QED  BY <2>1, <3>1 DEF Linked
  <2> QED  BY <2>1, <2>2 DEF PassOK, Busy
<1> QED  BY <1>1, <1>2 DEF LoadWebhook

(* A pipeline is deferred, or its candidates are the ones at hand. *)
LEMMA TakeStep ==
    ASSUME InboxShape, PassOK, TableGoesOn, TakePipeline
    PROVE  worker' \in Workers /\ PassOK'
<1>0. /\ worker \in Workers /\ worker.pc = "pipelines" /\ worker.d \in Deliveries
      /\ worker.cands = {} /\ deliveries' = deliveries
  BY DEF InboxShape, TakePipeline, PassOK, Busy, OnlyWorker, tableVars
<1> DEFINE Taken(p, file) ==
            IF MustDefer(p, file)
            THEN [[worker EXCEPT !.todo = @ \ {p}, !.file = file] EXCEPT !.deferred = TRUE]
            ELSE [[worker EXCEPT !.todo = @ \ {p}, !.file = file]
                      EXCEPT !.pc = "inserting", !.cands = Candidates(worker.d, p, file)]
<1>1. PICK p \in worker.todo,
           file \in IF worker.file = "unread" THEN {"read", "unreadable"} ELSE {worker.file} :
        worker' = Taken(p, file)
  BY DEF TakePipeline
<1>2. file \in {"read", "unreadable"}
  <2>1. worker.file \in {"unread", "read", "unreadable"}
    BY <1>0 DEF Workers
  <2> QED  BY <1>1, <2>1
<1>3. p \in Pipelines
  BY <1>0, <1>1 DEF Workers
<1>4. CASE MustDefer(p, file)
  <2> DEFINE n(b) == [[worker EXCEPT !.todo = @ \ {p}, !.file = file] EXCEPT !.deferred = b]
  <2>1. worker' = n(TRUE) /\ TRUE \in BOOLEAN
    BY <1>1, <1>4
  <2>2. ASSUME NEW b \in BOOLEAN
        PROVE  /\ n(b) \in Workers /\ n(b).pc = "pipelines" /\ n(b).d = worker.d
               /\ n(b).cands = {} /\ n(b).deferred = b
    BY <1>0, <1>2 DEF Workers
  <2> HIDE DEF n
  <2>3. /\ worker' \in Workers /\ worker'.pc = "pipelines" /\ worker'.d = worker.d
        /\ worker'.cands = {} /\ worker'.deferred
    BY <2>1, <2>2, Zenon
  <2> QED  BY <1>0, <2>3 DEF PassOK, Busy
<1>5. CASE ~MustDefer(p, file)
  <2> DEFINE C == Candidates(worker.d, p, file)
  <2>1. C \in SUBSET Matching
    BY CandidateShape
  <2>2. worker' = [[worker EXCEPT !.todo = @ \ {p}, !.file = file]
                        EXCEPT !.pc = "inserting", !.cands = C]
    BY <1>1, <1>5
  <2>3. BuiltIn(worker.d, p, C)
    BY <1>2, <1>5 DEF BuiltIn, MustDefer
  <2> HIDE DEF C
  <2>4. /\ worker' \in Workers /\ worker'.pc = "inserting" /\ worker'.d = worker.d
        /\ worker'.cands = C /\ worker'.todo = worker.todo \ {p}
        /\ worker'.deferred = worker.deferred
    <3> DEFINE m == [worker EXCEPT !.todo = @ \ {p}, !.file = file]
    <3>1. /\ m \in Workers /\ m.d = worker.d /\ m.todo = worker.todo \ {p}
          /\ m.deferred = worker.deferred
      BY <1>0, <1>2 DEF Workers
    <3>2. worker' = [m EXCEPT !.pc = "inserting", !.cands = C]
      BY <2>2
    <3> HIDE DEF m
    <3> QED  BY <2>1, <3>1, <3>2 DEF Workers
  <2>5. ASSUME NEW q \in Pipelines, Linked(worker.d, q)'
        PROVE  q \in worker'.todo \/ worker'.deferred
                    \/ BuiltIn(worker'.d, q, deliveries' \cup worker'.cands)
    <3>1. CASE q = p
      BY <1>0, <2>3, <2>4, <3>1, BuiltGrows
    <3>2. CASE q # p
      <4>1. Linked(worker.d, q)
        BY <1>0, <2>4, <2>5, LinksKept
      <4>2. q \in worker.todo \/ worker.deferred \/ BuiltIn(worker.d, q, deliveries \cup worker.cands)
        BY <1>0, <4>1 DEF PassOK
      <4>3. BuiltIn(worker.d, q, deliveries \cup worker.cands)
                => BuiltIn(worker.d, q, deliveries' \cup C)
        BY <1>0, BuiltGrows
      <4> QED  BY <2>4, <3>2, <4>2, <4>3
    <3> QED  BY <3>1, <3>2
  <2>6. worker'.d \in Deliveries
    BY <1>0, <2>4
  <2> QED  BY <2>4, <2>5, <2>6 DEF PassOK
<1> QED  BY <1>4, <1>5

(* A candidate leaves the hand when its claim is recorded, or when its      *)
(* pipeline is no longer linked to the repository.                          *)
LEMMA CandidateDealtWith ==
    ASSUME InboxShape, PassOK, TableGoesOn, worker.pc = "inserting", NEW c \in worker.cands,
           worker' = [worker EXCEPT !.cands = @ \ {c}],
           \/ c \in deliveries'
           \/ c[2] \in Pipelines => ~Linked(worker.d, c[2])
    PROVE  worker' \in Workers /\ PassOK'
<1>0. worker \in Workers /\ worker.d \in Deliveries
  BY DEF InboxShape, PassOK, Busy
<1>1. /\ worker' \in Workers /\ worker'.pc = "inserting" /\ worker'.d = worker.d
      /\ worker'.cands = worker.cands \ {c} /\ worker'.todo = worker.todo
      /\ worker'.deferred = worker.deferred
  BY <1>0 DEF Workers
<1>2. ASSUME NEW q \in Pipelines, Linked(worker.d, q)'
      PROVE  q \in worker'.todo \/ worker'.deferred
                \/ BuiltIn(worker'.d, q, deliveries' \cup worker'.cands)
  <2>1. Linked(worker.d, q)
    BY <1>0, <1>1, <1>2, LinksKept
  <2>2. q \in worker.todo \/ worker.deferred \/ BuiltIn(worker.d, q, deliveries \cup worker.cands)
    BY <2>1 DEF PassOK
  <2>3. ASSUME BuiltIn(worker.d, q, deliveries \cup worker.cands)
        PROVE  BuiltIn(worker.d, q, deliveries' \cup (worker.cands \ {c}))
    <3>1. CASE c \in deliveries'
      <4>1. deliveries \cup worker.cands \subseteq deliveries' \cup (worker.cands \ {c})
        BY <3>1 DEF TableGoesOn
      <4> QED  BY <2>3, <4>1, BuiltGrows
    <3>2. CASE c \notin deliveries'
      <4>1. c[2] # q
        BY <2>1, <3>2
      <4>2. \A file : c \notin Candidates(worker.d, q, file)
        BY <4>1, CandidateShape
      <4>3. \A file : Candidates(worker.d, q, file) \subseteq deliveries \cup worker.cands
                => Candidates(worker.d, q, file) \subseteq deliveries' \cup (worker.cands \ {c})
        BY <4>2 DEF TableGoesOn
      <4> QED  BY <2>3, <4>3 DEF BuiltIn
    <3> QED  BY <3>1, <3>2
  <2> QED  BY <1>1, <2>2, <2>3
<1>3. worker'.d \in Deliveries
  BY <1>0, <1>1
<1> QED  BY <1>1, <1>2, <1>3 DEF PassOK

(* Whatever the worker does, a pass still owes only what it will look at    *)
(* again or has at hand.                                                    *)
LEMMA WorkerSteps ==
    ASSUME TypeOK, InboxShape, PassOK, TableGoesOn, [InboxNext]_webhookVars
    PROVE  worker' \in Workers /\ PassOK'
<1>0. worker \in Workers
  BY DEF InboxShape
<1>1. CASE UNCHANGED worker
  <2>1. ASSUME worker.pc \in {"pipelines", "inserting"},
               NEW p \in Pipelines, Linked(worker.d, p)'
        PROVE  p \in worker'.todo \/ worker'.deferred
                  \/ BuiltIn(worker'.d, p, deliveries' \cup worker'.cands)
    <3>1. worker.d \in Deliveries
      BY <2>1 DEF PassOK, Busy
    <3>2. Linked(worker.d, p)
      BY <1>1, <2>1, <3>1, LinksKept
    <3>3. p \in worker.todo \/ worker.deferred
              \/ BuiltIn(worker.d, p, deliveries \cup worker.cands)
      BY <2>1, <3>2 DEF PassOK
    <3>4. deliveries \cup worker.cands \subseteq deliveries' \cup worker.cands
      BY DEF TableGoesOn
    <3> QED  BY <1>1, <3>3, <3>4, BuiltGrows
  <2> QED  BY <1>0, <1>1, <2>1 DEF PassOK
<1>2. CASE Wake \/ ClaimFails \/ FinishWebhook \/ RecordError \/ Restart
  <2>1. worker' = Waiting \/ \E w \in {"waiting", "claiming"} : worker' = [Waiting EXCEPT !.pc = w]
    BY <1>2 DEF Wake, ClaimFails, FinishWebhook, RecordError, Restart, BackTo
  <2> QED  BY <2>1, BackToTop
<1>3. CASE ClaimNextWebhook
  <2>1. CASE worker' = Waiting
    BY <2>1, BackToTop
  <2>2. CASE worker' # Waiting
    <3>1. PICK i \in DOMAIN arrived :
            worker' = [Waiting EXCEPT !.pc = "loading", !.d = arrived[i]]
      BY <1>3, <2>2 DEF ClaimNextWebhook
    <3>2. arrived[i] \in Deliveries
      BY <3>1 DEF InboxShape, ReceiverTyped
    <3> QED  BY <3>1, <3>2, Resting
  <2> QED  BY <2>1, <2>2
<1>4. CASE LoadWebhook
  BY <1>4, LoadStep
<1>5. CASE TakePipeline
  BY <1>5, TakeStep
<1>6. CASE InsertCandidate
  <2>1. PICK c \in worker.cands : /\ deliveries' = deliveries \cup {c}
                                  /\ worker' = [worker EXCEPT !.cands = @ \ {c}]
    BY <1>6, InsertIsTable
  <2>2. worker.pc = "inserting" /\ c \in deliveries'
    BY <1>6, <2>1 DEF InsertCandidate
  <2> QED  BY <2>1, <2>2, CandidateDealtWith
<1>7. CASE SkipCandidate
  <2>1. PICK c \in worker.cands : /\ c \in deliveries \/ source[LinkOf[c[2]]] # RepoOf[worker.d]
                                  /\ worker' = [worker EXCEPT !.cands = @ \ {c}]
    BY <1>7 DEF SkipCandidate
  <2>2. worker.pc = "inserting"
    BY <1>7 DEF SkipCandidate
  <2>3. c \in deliveries' \/ (c[2] \in Pipelines => ~Linked(worker.d, c[2]))
    BY <2>1 DEF TableGoesOn, Linked
  <2> QED  BY <2>1, <2>2, <2>3, CandidateDealtWith
<1>8. CASE PipelineDone
  <2>1. worker.pc = "inserting" /\ worker.cands = {} /\ worker' = [worker EXCEPT !.pc = "pipelines"]
    BY <1>8 DEF PipelineDone
  <2>2. /\ worker' \in Workers /\ worker'.pc = "pipelines" /\ worker'.d = worker.d
        /\ worker'.todo = worker.todo /\ worker'.cands = {}
        /\ worker'.deferred = worker.deferred /\ worker.d \in Deliveries
    BY <1>0, <2>1 DEF Workers, PassOK, Busy
  <2>3. ASSUME NEW p \in Pipelines, Linked(worker.d, p)'
        PROVE  p \in worker'.todo \/ worker'.deferred
                  \/ BuiltIn(worker'.d, p, deliveries' \cup worker'.cands)
    <3>1. Linked(worker.d, p)
      BY <2>2, <2>3, LinksKept
    <3>2. p \in worker.todo \/ worker.deferred
              \/ BuiltIn(worker.d, p, deliveries \cup worker.cands)
      BY <2>1, <3>1 DEF PassOK
    <3>3. deliveries \cup worker.cands \subseteq deliveries' \cup {}
      BY <2>1 DEF TableGoesOn
    <3> QED  BY <2>2, <3>2, <3>3, BuiltGrows
  <2> QED  BY <2>2, <2>3 DEF PassOK
<1>9. CASE PassFails
  <2>1. worker.d \in Deliveries /\ worker' = [Waiting EXCEPT !.pc = "error", !.d = worker.d]
    BY <1>9 DEF PassFails, PassOK, Busy
  <2> QED  BY <2>1, Resting
<1> QED
  BY <1>1, <1>2, <1>3, <1>4, <1>5, <1>6, <1>7, <1>8, <1>9
  DEF InboxNext, WorkerStep, ReceiverStep, Deliver, CheckDelivery, StoreDelivery, AckDelivery,
      OnlyReceiver, Recover, TimePasses, RepositoryGone, webhookVars, inboxVars

-----------------------------------------------------------------------------
(* The theorems. *)

(* An empty inbox, and a worker at rest. *)
LEMMA InitReceived == InboxInit => Received
<1> SUFFICES ASSUME InboxInit PROVE Received
  OBVIOUS
<1>0. TableInit
  BY DEF InboxInit
<1>1. TypeOK
  BY <1>0, InitTyped
<1>3. inbox \in [Deliveries -> InboxRows] /\ \A d \in Deliveries : inbox[d].status = "absent"
  <2>1. MaxAttempts \in Nat
    BY InboxAssumption
  <2>2. ASSUME NEW b \in BOOLEAN
        PROVE  LET r == [status |-> "absent", attempts |-> 0, lease |-> "none", backoff |-> b]
               IN  r \in InboxRows /\ r.status = "absent"
    BY <2>1 DEF InboxRows
  <2> DEFINE r == [status |-> "absent", attempts |-> 0, lease |-> "none", backoff |-> FALSE]
  <2>3. r \in InboxRows /\ r.status = "absent"
    BY <2>2, Zenon
  <2>4. inbox = [d \in Deliveries |-> r]
    BY DEF InboxInit
  <2> HIDE DEF r
  <2> QED  BY <2>3, <2>4
<1>4. ReceiverTyped /\ \A h \in Receivers : receiver[h].pc = "idle"
  BY DEF InboxInit, ReceiverTyped, Requests, NoRequest
<1>5. worker \in Workers /\ worker.pc = "waiting" /\ worker.cands = {}
  BY WaitingShape DEF InboxInit
<1>6. acked = {}
  BY DEF InboxInit
<1> QED
  BY <1>1, <1>3, <1>4, <1>5, <1>6
  DEF Received, InboxShape, StoredOK, PassOK, Busy, ProcessedReachedAll

(* Every step keeps the invariant. *)
LEMMA ReceivedStep ==
    ASSUME Received, [InboxNext]_webhookVars
    PROVE  Received' /\ [TableNext]_tableVars /\ RowsGoOn
<1>0. TypeOK /\ InboxShape /\ StoredOK /\ PassOK /\ ProcessedReachedAll
  BY DEF Received
<1>1. [TableNext]_tableVars /\ TableGoesOn
  BY <1>0, TableSteps
<1>2. RowsGoOn /\ kind' = kind
  BY <1>0, RowSteps
<1>3. ReceiverTyped' /\ StoredOK'
  BY <1>0, <1>2, ReceiverSteps
<1>4. worker' \in Workers /\ PassOK'
  BY <1>0, <1>1, WorkerSteps
<1>5. TypeOK'
  BY <1>0, <1>1, TypeStep
<1>6. ProcessedReachedAll'
  <2> SUFFICES ASSUME NEW d \in Deliveries, inbox'[d].status = "processed", kind[d] = "trigger",
                      NEW p \in Pipelines, Linked(d, p)'
               PROVE  BuiltIn(d, p, deliveries')
    BY <1>2 DEF ProcessedReachedAll, BuiltIn, Linked
  <2>1. Linked(d, p) /\ deliveries \subseteq deliveries'
    BY <1>1 DEF TableGoesOn
  <2>2. CASE inbox[d].status = "processed"
    <3>1. BuiltIn(d, p, deliveries)
      BY <1>0, <2>1, <2>2 DEF ProcessedReachedAll, BuiltIn, Linked
    <3> QED  BY <2>1, <3>1, BuiltGrows
  <2>3. CASE inbox[d].status # "processed"
    <3>1. BuiltIn(d, p, deliveries)
      BY <1>2, <2>1, <2>3 DEF RowsGoOn, RowGoesOn
    <3> QED  BY <2>1, <3>1, BuiltGrows
  <2> QED  BY <2>2, <2>3
<1>7. InboxShape'
  BY <1>2, <1>3, <1>4 DEF InboxShape, RowsGoOn
<1> QED  BY <1>1, <1>2, <1>3, <1>4, <1>5, <1>6, <1>7 DEF Received

(* The inductive invariant holds throughout. *)
THEOREM ReceivedAlways == InboxSpec => []Received
<1>1. Received /\ [InboxNext]_webhookVars => Received'
  BY ReceivedStep
<1> QED  BY <1>1, InitReceived, PTL DEF InboxSpec

(* A processed delivery has reached every pipeline linked to its repository,*)
(* whatever failed in between (trigger_build_from_webhook, its deferred     *)
(* pipelines, and the leases of claim_next_webhook).                        *)
THEOREM ProcessedReached == InboxSpec => []ProcessedReachedAll
<1>1. Received => ProcessedReachedAll
  BY DEF Received
<1> QED  BY <1>1, ReceivedAlways, PTL

(* An acknowledged delivery is stored, and a settled one keeps its outcome  *)
(* although a worker whose lease ran out is still busy with it.             *)
THEOREM SettledForGood == InboxSpec => SettledStaysSettled
<1>1. Received /\ [InboxNext]_webhookVars =>
        [/\ acked' \subseteq {d \in Deliveries : inbox'[d].status # "absent"}
         /\ \A d \in Deliveries : inbox[d].status \in Settled
                                    => inbox'[d].status = inbox[d].status]_webhookVars
  <2> SUFFICES ASSUME Received, [InboxNext]_webhookVars
               PROVE  /\ acked' \subseteq {d \in Deliveries : inbox'[d].status # "absent"}
                      /\ \A d \in Deliveries : inbox[d].status \in Settled
                                    => inbox'[d].status = inbox[d].status
    OBVIOUS
  <2>1. StoredOK' /\ RowsGoOn
    BY ReceivedStep DEF Received
  <2> QED  BY <2>1 DEF StoredOK, RowsGoOn, RowGoesOn, Settled
<1> QED  BY <1>1, ReceivedAlways, PTL DEF InboxSpec, SettledStaysSettled

(* Seen from the builds table the inbox is one of its callers: every step   *)
(* is a transaction of the table or leaves it alone, so the table's own     *)
(* theorems hold of the builds that deliveries create.                      *)
THEOREM InboxImplementsTable == InboxSpec => TableSpec
<1>1. Received /\ [InboxNext]_webhookVars => [TableNext]_tableVars
  BY ReceivedStep
<1>2. InboxInit => TableInit
  BY DEF InboxInit
<1> QED  BY <1>1, <1>2, ReceivedAlways, PTL DEF InboxSpec, TableSpec

(* Two copies of a delivery, a retry or a restart in the middle of a pass   *)
(* never build a delivery twice for a pipeline and workflow                 *)
(* (webhook_build_claims).                                                  *)
THEOREM RetriesBuildOnce == InboxSpec => []OneBuildPerDelivery
BY InboxImplementsTable, DeliveriesBuildOnce, PTL
=============================================================================
