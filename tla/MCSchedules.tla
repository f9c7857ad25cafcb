---------------------------- MODULE MCSchedules -----------------------------
(* Two schedules of one pipeline: every minute, and in the second minute.   *)
EXTENDS Schedules
mcPipeOf == [s \in Schedules |-> "pipe"]
mcDueMinutes == [s \in Schedules |-> IF s = "often" THEN 1..3 ELSE {2}]
=============================================================================
