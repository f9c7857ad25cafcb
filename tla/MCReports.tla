----------------------------- MODULE MCReports ------------------------------
(* One channel that wants every event, two builds of one commit on two      *)
(* platforms.  Each slice follows one reporter: the notifications of one    *)
(* build through all its statuses; the checks of one build whose source     *)
(* goes and comes back, of one build that is expired and deleted, and of    *)
(* two builds that share them.                                              *)
EXTENDS Reports

CONSTANT team

mcWants == [c \in Channels |-> Terminal]
mcCreatedAt == [b \in Builds |-> b]

mcAlone == [reporters |-> {"notifications"}, builds |-> {1}, faults |-> 2, unlink |-> FALSE,
            statuses |-> (Statuses \ {"failed"}) \cup {"deleted"}]
mcChecks == [mcAlone EXCEPT !.reporters = {"checks"}, !.faults = 1]
mcSlices == {mcAlone,
             [mcChecks EXCEPT !.unlink = TRUE,
                              !.statuses = {"queued", "assigned", "running", "succeeded"}],
             [mcChecks EXCEPT !.statuses = {"queued", "failed", "expired", "deleted"}],
             [mcChecks EXCEPT !.faults = 0, !.builds = {1, 2}, !.statuses = {"queued", "failed"}]}
=============================================================================
