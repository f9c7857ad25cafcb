--------------------------- MODULE Notifications ----------------------------
(***************************************************************************)
(* Build notifications: the scan that finds ended builds and records one   *)
(* delivery per channel, and the attempts to send them.  An attempt is     *)
(* started by the scan that recorded the delivery or by the retry loop,    *)
(* which also picks up what a restart left behind; the two know nothing of *)
(* each other.  Claiming a delivery pushes its next attempt DELIVERY_LEASE *)
(* ahead, further than a send takes.                                       *)
(***************************************************************************)
EXTENDS ReportedBuilds

CONSTANTS
    Channels,      \* notification channels
    Wants,         \* [Channels -> set of event types]: the event filters
    Slow,          \* channels whose sends may outlast the lease: email to
                   \* many recipients, 30 seconds each
    Permits,       \* MAX_CONCURRENT_SENDS
    MaxAttempts    \* MAX_DELIVERY_ATTEMPTS

ASSUME NotificationsAssumption ==
    /\ Slow \subseteq Channels
    /\ Permits \in Nat \ {0} /\ MaxAttempts \in Nat \ {0}

VARIABLES
    channels,   \* rows of notification_channels
    enabled,    \* those that are enabled
    notified,   \* builds.notified_status; "none" is NULL
    outbox,     \* notification_deliveries, by build, channel and event type
    scan,       \* what the scan is doing
    attempt     \* attempts under way, by delivery and by who started them

channelVars == <<channels, enabled>>
notifyVars == <<channelVars, notified, outbox, scan, attempt>>

Keys == Builds \X Channels \X (Terminal \cap Statuses)
BuildOf(k) == k[1]
ChannelOf(k) == k[2]

Starters == {"scan", "retry"}
NoRow == [state |-> "absent", tries |-> 0, due |-> FALSE, copies |-> 0]
NoAttempt == [pc |-> "idle", nth |-> 0]
IdleScan == [on |-> FALSE, rows |-> {}, fresh |-> {}]

NotifyTypeOK ==
    /\ channels \subseteq Channels /\ enabled \subseteq channels
    /\ notified \in [Builds -> BuildStatuses \cup {"none"}]
    /\ outbox \in [Keys -> [state : {"absent", "pending", "delivered", "failed"},
                            tries : Nat, due : BOOLEAN, copies : Nat]]
    /\ scan.fresh \subseteq Keys
    /\ attempt \in [Keys \X Starters ->
                      [pc : {"idle", "claim", "channel", "send", "ok", "error", "off"},
                       nth : Nat]]
    /\ \A k \in Keys : outbox[k].due => outbox[k].state = "pending"

NotifyInit ==
    /\ enabled = channels
    /\ notified = [b \in Builds |-> "none"]
    /\ outbox = [k \in Keys |-> NoRow]
    /\ scan = IdleScan
    /\ attempt = [a \in Keys \X Starters |-> NoAttempt]

-----------------------------------------------------------------------------
(* The scan.                                                                *)

(* A slip: every new terminal status is news. *)
MutAlwaysNews(b) == TRUE

(* "Retention expires finished builds; their result was already sent." *)
IsNews(b) == notified[b] \notin Terminal

(* notify_due_builds: ended builds whose status is not the notified one. *)
SelectEnded ==
    LET ended == {b \in Builds : status[b] \in Terminal /\ notified[b] # status[b]}
    IN  /\ ~scan.on /\ ended # {}
        /\ scan' = [IdleScan EXCEPT !.on = TRUE,
                        !.rows = {[b |-> b, s |-> status[b], news |-> IsNews(b)] : b \in ended}]
        /\ UNCHANGED <<buildVars, channelVars, notified, outbox, attempt>>

(* A row of the scan: mark the build if its status is still the one read,   *)
(* and in the same transaction record a delivery for every channel that     *)
(* matches (enqueue_on).  Nothing in the table keeps a second row for the   *)
(* same event out, so the INSERTs of an event are counted; rows of one      *)
(* event share the rest of their record.                                    *)
NotifyBuild ==
    \E row \in scan.rows :
        LET marked == status[row.b] = row.s
            K == {k \in Keys : /\ marked /\ row.news /\ k[1] = row.b /\ k[3] = row.s
                               /\ ChannelOf(k) \in enabled /\ row.s \in Wants[ChannelOf(k)]}
        IN  /\ notified' = IF marked THEN [notified EXCEPT ![row.b] = row.s] ELSE notified
            /\ outbox' = [k \in Keys |-> IF k \in K
                            THEN [state |-> "pending", tries |-> 0, due |-> TRUE,
                                  copies |-> outbox[k].copies + 1]
                            ELSE outbox[k]]
            /\ scan' = [scan EXCEPT !.rows = @ \ {row}, !.fresh = @ \cup K]
            /\ UNCHANGED <<buildVars, channelVars, attempt>>

(* The scan is through and spawns deliver for what it recorded. *)
SpawnDeliver ==
    /\ scan.on /\ scan.rows = {}
    /\ attempt' = [a \in Keys \X Starters |->
                    IF a[1] \in scan.fresh /\ a[2] = "scan"
                    THEN [NoAttempt EXCEPT !.pc = "claim"] ELSE attempt[a]]
    /\ scan' = IdleScan
    /\ UNCHANGED <<buildVars, channelVars, notified, outbox>>

(* A statement of the scan fails: the rows left wait for the next scan, the *)
(* deliveries recorded so far for the retry loop.                           *)
ScanFails ==
    /\ scan.on /\ scan.rows # {} /\ Fault
    /\ scan' = IdleScan
    /\ UNCHANGED <<status, result, channelVars, notified, outbox, attempt>>

-----------------------------------------------------------------------------
(* The attempts.                                                            *)

(* A slip: only deliveries that were attempted before. *)
MutOnlyRetried ==
    {k \in Keys : outbox[k].state = "pending" /\ outbox[k].due /\ outbox[k].tries > 0}

(* due_deliveries *)
DueDeliveries == {k \in Keys : outbox[k].state = "pending" /\ outbox[k].due}

(* The retry loop, when its previous batch is through. *)
RetryScan ==
    LET due == DueDeliveries
    IN  /\ due # {} /\ \A k \in Keys : attempt[k, "retry"] = NoAttempt
        /\ attempt' = [a \in Keys \X Starters |->
                        IF a[1] \in due /\ a[2] = "retry"
                        THEN [NoAttempt EXCEPT !.pc = "claim"] ELSE attempt[a]]
        /\ UNCHANGED <<buildVars, channelVars, notified, outbox, scan>>

InFlight(a) == attempt[a].pc \notin {"idle", "claim"}

(* A slip: the claim counts the attempt and leaves the row due. *)
MutClaimWithoutLease(k) == [outbox[k] EXCEPT !.tries = @ + 1]

(* SET attempt_count = attempt_count + 1, next_attempt_at = now + lease *)
Leased(k) == [outbox[k] EXCEPT !.tries = @ + 1, !.due = FALSE]

(* attempt_delivery: a permit, then the claim, which finds the delivery due *)
(* or leaves it alone.                                                      *)
ClaimDelivery(a) ==
    LET k == a[1] IN
    /\ attempt[a].pc = "claim"
    /\ Cardinality({c \in Keys \X Starters : InFlight(c)}) < Permits
    /\ IF outbox[k].state = "pending" /\ outbox[k].due
       THEN /\ outbox' = [outbox EXCEPT ![k] = Leased(k)]
            /\ attempt' = [attempt EXCEPT ![a] = [pc |-> "channel", nth |-> outbox[k].tries + 1]]
       ELSE /\ attempt' = [attempt EXCEPT ![a] = NoAttempt]
            /\ UNCHANGED outbox
    /\ UNCHANGED <<buildVars, channelVars, notified, scan>>

(* SELECT of the channel; a disabled or deleted one ends the delivery. *)
LoadChannel(a) ==
    /\ attempt[a].pc = "channel"
    /\ attempt' = [attempt EXCEPT ![a].pc = IF ChannelOf(a[1]) \in enabled THEN "send" ELSE "off"]
    /\ UNCHANGED <<buildVars, channelVars, notified, outbox, scan>>

(* send: accepted, or refused, timed out or without an answer. *)
Send(a) ==
    /\ attempt[a].pc = "send"
    /\ \E answer \in {"ok", "error"} : attempt' = [attempt EXCEPT ![a].pc = answer]
    /\ UNCHANGED <<buildVars, channelVars, notified, outbox, scan>>

(* retry: only a failed send, and not after the last attempt *)
Retries(a) == attempt[a].pc = "error" /\ attempt[a].nth < MaxAttempts

(* The result is written, whatever the row says by now; a row deleted with  *)
(* its channel or build is not found.                                       *)
RecordResult(a) ==
    LET k == a[1] IN
    /\ attempt[a].pc \in {"ok", "error", "off"}
    /\ outbox' = IF outbox[k].state = "absent" THEN outbox
                 ELSE [outbox EXCEPT ![k].state = IF attempt[a].pc = "ok" THEN "delivered"
                                                  ELSE IF Retries(a) THEN "pending" ELSE "failed",
                                     ![k].due = FALSE]
    /\ attempt' = [attempt EXCEPT ![a] = NoAttempt]
    /\ UNCHANGED <<buildVars, channelVars, notified, scan>>

(* The claim, the SELECT or the UPDATE fails and the attempt is dropped. *)
AttemptFails(a) ==
    /\ attempt[a].pc \notin {"idle", "send"} /\ Fault
    /\ attempt' = [attempt EXCEPT ![a] = NoAttempt]
    /\ UNCHANGED <<status, result, channelVars, notified, outbox, scan>>

(* next_attempt_at is reached: the backoff is over, or the lease of an      *)
(* attempt that was dropped, or that takes longer than the lease.           *)
BecomeDue(k) ==
    /\ outbox[k].state = "pending" /\ ~outbox[k].due
    /\ ChannelOf(k) \in Slow \/ \A t \in Starters : ~InFlight(<<k, t>>)
    /\ outbox' = [outbox EXCEPT ![k].due = TRUE]
    /\ UNCHANGED <<buildVars, channelVars, notified, scan, attempt>>

-----------------------------------------------------------------------------
(* update_notification_channel and delete_notification_channel, whose       *)
(* deliveries go with it.                                                   *)
ToggleChannel(c) ==
    /\ c \in channels
    /\ enabled' = IF c \in enabled THEN enabled \ {c} ELSE enabled \cup {c}
    /\ UNCHANGED <<buildVars, channels, notified, outbox, scan, attempt>>

DeleteChannel(c) ==
    /\ c \in channels
    /\ channels' = channels \ {c} /\ enabled' = enabled \ {c}
    /\ outbox' = [k \in Keys |-> IF ChannelOf(k) = c THEN NoRow ELSE outbox[k]]
    /\ UNCHANGED <<buildVars, notified, scan, attempt>>

(* A build's row is deleted, and its deliveries with it (ON DELETE CASCADE). *)
DropDeliveries(b) ==
    /\ notified' = [notified EXCEPT ![b] = "none"]
    /\ outbox' = [k \in Keys |-> IF BuildOf(k) = b THEN NoRow ELSE outbox[k]]

(* The daemon's restart: scan and attempts are gone. *)
DropNotifyTasks ==
    /\ scan' = IdleScan
    /\ attempt' = [a \in Keys \X Starters |-> NoAttempt]
    /\ UNCHANGED <<channelVars, notified, outbox>>

AttemptStep(a) == ClaimDelivery(a) \/ LoadChannel(a) \/ Send(a) \/ RecordResult(a)

NotifyStep ==
    \/ SelectEnded \/ NotifyBuild \/ SpawnDeliver \/ ScanFails \/ RetryScan
    \/ \E a \in Keys \X Starters : AttemptStep(a) \/ AttemptFails(a)
    \/ \E k \in Keys : BecomeDue(k)
    \/ \E c \in Channels : ToggleChannel(c) \/ DeleteChannel(c)

-----------------------------------------------------------------------------
(* Properties.                                                              *)

(* A channel hears of one end of a build, and of that once: there is one    *)
(* row at most for a build and a channel, although the status may change    *)
(* again (expired by retention), the scan may fail after any of its         *)
(* transactions and the daemon may restart (notify_due_builds).             *)
ToldOneEnd ==
    /\ \A k \in Keys : outbox[k].copies <= 1
    /\ \A k, l \in Keys :
        /\ outbox[k].state # "absent" /\ outbox[l].state # "absent"
        /\ k[1] = l[1] /\ k[2] = l[2]
        => k = l

(* Two attempts at a delivery are never under way at once, whoever started  *)
(* them, as long as a send fits in the lease: the claim of attempt_delivery *)
(* keeps the retry loop out.                                                *)
SendsApart ==
    \A k \in Keys : ChannelOf(k) \notin Slow =>
        ~(InFlight(<<k, "scan">>) /\ InFlight(<<k, "retry">>))

(* A delivery does not stay pending: it is delivered, or failed after its   *)
(* last attempt or because its channel is off, or its channel or build is   *)
(* deleted, however often sends fail and the daemon restarts.               *)
DeliveriesSettle ==
    \A k \in Keys : outbox[k].state = "pending" ~> outbox[k].state # "pending"

(* "a crash mid-send is retried and a concurrent retry scan skips this      *)
(* delivery" (attempt_delivery): for every channel.                         *)
ClaimKeepsOthersOut ==
    \A k \in Keys : ~(InFlight(<<k, "scan">>) /\ InFlight(<<k, "retry">>))

(* "Build expired in queue: a queued build expires" (notifications.mdx),    *)
(* "their result was already sent" (notify_due_builds): no channel hears    *)
(* that a build expired when it had another result.                         *)
ToldItsResult ==
    \A k \in Keys : outbox[k].state # "absent" => k[3] = result[k[1]]
=============================================================================
