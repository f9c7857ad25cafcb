------------------------------ MODULE Reports -------------------------------
(***************************************************************************)
(* Both reporters over one builds table.  They share nothing but the rows  *)
(* they read: each has its own columns, and a deleted build takes its      *)
(* deliveries along and leaves its checks without an owner.  Because the   *)
(* statuses move freely, what one reporter does is the same with and       *)
(* without the other; a behaviour may therefore follow some of them only.  *)
(***************************************************************************)
EXTENDS Notifications, CommitChecks

CONSTANT Slices    \* [reporters, builds, statuses, faults, unlink]: what is
                   \* followed together, and how far

ASSUME SlicesAssumption == \A s \in Slices : s.builds \subseteq Builds

VARIABLE slice

reportVars == <<buildVars, notifyVars, checkVars, slice>>

ReportsTypeOK == BuildsTypeOK /\ NotifyTypeOK /\ ChecksTypeOK

Init ==
    /\ slice \in Slices
    /\ channels = Channels /\ linked = TRUE
    /\ BuildsInit /\ NotifyInit /\ ChecksInit

(* A transaction of the builds table; a deleted row takes its columns along. *)
BuildStep(b) ==
    \E s \in slice.statuses :
        /\ MoveBuild(b, s)
        /\ IF s = "deleted" THEN DropDeliveries(b) /\ DropReports(b)
                            ELSE UNCHANGED <<notified, outbox, columnVars, owner, missed>>
        /\ UNCHANGED <<faults, channelVars, scan, attempt, linked, check, pass, slice>>

Restart ==
    /\ Fault /\ faults' <= slice.faults
    /\ DropNotifyTasks /\ DropPass
    /\ UNCHANGED <<status, result, slice>>

Notify(A) ==
    /\ "notifications" \in slice.reporters
    /\ A /\ faults' <= slice.faults
    /\ UNCHANGED <<checkVars, slice>>

Check(A) ==
    /\ "checks" \in slice.reporters
    /\ A /\ faults' <= slice.faults /\ (linked' = linked \/ slice.unlink)
    /\ UNCHANGED <<notifyVars, slice>>

Next ==
    \/ \E b \in slice.builds : BuildStep(b)
    \/ Notify(NotifyStep)
    \/ Check(CheckStep)
    \/ Restart

(* The scan, the retry loop, the attempts and the reporter go on, and       *)
(* deadlines pass.  Nothing is assumed of builds, administrators, channels  *)
(* and the source.                                                          *)
Fairness ==
    /\ WF_reportVars(Notify(SelectEnded \/ NotifyBuild \/ SpawnDeliver))
    /\ WF_reportVars(Notify(RetryScan))
    /\ \A a \in Keys \X Starters : WF_reportVars(Notify(AttemptStep(a)))
    /\ \A k \in Keys : WF_reportVars(Notify(BecomeDue(k)))
    /\ WF_reportVars(Check(ReporterStep))
    /\ \A b \in Builds : WF_reportVars(Check(BackoffEnds(b)))

FairSpec == Init /\ [][Next]_reportVars /\ Fairness

(* No build stays due for a report, however often the source fails: its     *)
(* status is told, found to need no telling, or given up after              *)
(* MAX_REPORT_ATTEMPTS (report_due_builds).                                 *)
ReportsSettle ==
    \A b \in Builds :
        "checks" \in slice.reporters /\ There(b) /\ reported[b] # status[b] ~>
            reported[b] = status[b] \/ ~There(b)
=============================================================================
