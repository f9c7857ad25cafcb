---------------------------- MODULE BuildStatus ----------------------------
(***************************************************************************)
(* The build status contract shared by the daemon, the runner and the API: *)
(* oore_contract::BuildStatus.  A row of the builds table carries one of   *)
(* these values.  Two further values stand for a row that does not exist:  *)
(* "absent" before the INSERT, "deleted" after the DELETE (build ids are   *)
(* fresh UUIDs, so a deleted id never comes back).                         *)
(***************************************************************************)

BuildStatuses == {"queued", "scheduled", "assigned", "running",
                  "succeeded", "failed", "canceled", "timed_out", "expired"}

(* BuildStatus::is_terminal *)
Terminal == {"succeeded", "failed", "canceled", "timed_out", "expired"}

(* Slips in the table below: a running build may be requeued, or may be     *)
(* reported running once more.                                              *)
MutRequeueRunning(s) ==
    CASE s = "queued"    -> {"scheduled", "canceled", "expired"}
      [] s = "scheduled" -> {"assigned", "queued", "canceled", "expired"}
      [] s = "assigned"  -> {"running", "queued", "canceled", "timed_out"}
      [] s = "running"   -> {"queued", "succeeded", "failed", "canceled", "timed_out"}
      [] s \in Terminal \ {"expired"} -> {"expired"}
      [] OTHER -> {}

(* BuildStatus::valid_transitions *)
ValidTransitions(s) ==
    CASE s = "queued"    -> {"scheduled", "canceled", "expired"}
      [] s = "scheduled" -> {"assigned", "queued", "canceled", "expired"}
      [] s = "assigned"  -> {"running", "queued", "canceled", "timed_out"}
      [] s = "running"   -> {"succeeded", "failed", "canceled", "timed_out"}
      [] s \in Terminal \ {"expired"} -> {"expired"}
      [] OTHER -> {}

(* BuildStatus::can_transition_to *)
CanTransition(s, t) == t \in ValidTransitions(s)

(* Statuses that occupy one of the pipeline's max_concurrent slots, and     *)
(* those in which a runner holds the build.                                 *)
SlotTaking == {"scheduled", "assigned", "running"}
Held == {"assigned", "running"}

(* The values of a builds row, including the row that does not exist. *)
RowStates == BuildStatuses \cup {"absent", "deleted"}

(* A row whose build has not ended. *)
Unfinished == BuildStatuses \ Terminal
=============================================================================
