---------------------------- MODULE CommitChecks ----------------------------
(***************************************************************************)
(* The reporter of commit checks: one task that finds builds whose status  *)
(* differs from the reported one, reads each build once more, and sets one *)
(* check per platform on the source (a GitHub check run, a GitLab commit   *)
(* status).  The builds here are builds of one pipeline and one commit, so *)
(* they share the checks; the newest build owns them.                      *)
(***************************************************************************)
EXTENDS ReportedBuilds

CONSTANTS
    CreatedAt,    \* [Builds -> Nat]: builds.created_at
    Platforms,    \* the platforms 1..Platforms of the builds, in order
    MaxReports    \* MAX_REPORT_ATTEMPTS

ASSUME ChecksAssumption ==
    /\ CreatedAt \in [Builds -> Nat]
    /\ Platforms \in Nat \ {0} /\ MaxReports \in Nat \ {0}

VARIABLES
    linked,     \* the project has an active source
    reported,   \* builds.scm_reported_status; "none" is NULL
    failures,   \* builds.scm_report_attempts
    backoff,    \* builds with scm_report_after ahead
    owner,      \* scm_check_runs.build_id by platform; 0: no row, or NULL
    check,      \* external: the check the source shows, by platform
    missed,     \* history: builds marked reported although the source was not
                \* told: given up, refused, source inactive, status kept
    pass        \* what the reporter is doing

columnVars == <<reported, failures, backoff>>
checkVars == <<linked, columnVars, owner, check, missed, pass>>

NoBuild == [b |-> 0, s |-> "none", was |-> "none", n |-> 0]
IdlePass == [pc |-> "idle", rows |-> {}, row |-> NoBuild, seen |-> "none",
             at |-> 1, res |-> "none"]

ChecksTypeOK ==
    /\ linked \in BOOLEAN
    /\ reported \in [Builds -> BuildStatuses \cup {"none"}]
    /\ failures \in [Builds -> 0..(MaxReports - 1)]
    /\ backoff \subseteq Builds /\ missed \subseteq Builds
    /\ owner \in [1..Platforms -> Builds \cup {0}]
    /\ \A p \in 1..Platforms : check[p].b \in Builds \cup {0}
    /\ pass.pc \in {"idle", "next", "report", "record", "finish"}
    /\ pass.at \in 1..(Platforms + 1)

ChecksInit ==
    /\ reported = [b \in Builds |-> "none"]
    /\ failures = [b \in Builds |-> 0]
    /\ backoff = {} /\ missed = {}
    /\ owner = [p \in 1..Platforms |-> 0]
    /\ check = [p \in 1..Platforms |-> [b |-> 0, phase |-> "none"]]
    /\ pass = IdlePass

(* Queued, scheduled and assigned all read as queued on the source. *)
Phase(s) == IF s \in {"queued", "scheduled", "assigned"} THEN "queued" ELSE s

(* What the source shows for a status (github_check_run; gitlab_state also  *)
(* shows timed-out builds as failed).  Size budgets are left out.           *)
Shown(s) == IF s \in {"canceled", "expired"} THEN "cancelled" ELSE Phase(s)

-----------------------------------------------------------------------------
(* report_due_builds: the builds that are due, oldest first. *)
SelectDue ==
    LET due == {b \in Builds : There(b) /\ reported[b] # status[b] /\ b \notin backoff}
    IN  /\ pass.pc = "idle" /\ due # {}
        /\ pass' = [IdlePass EXCEPT !.pc = "next", !.rows =
                       {[b |-> b, s |-> status[b], was |-> reported[b], n |-> failures[b]]
                            : b \in due}]
        /\ UNCHANGED <<buildVars, linked, columnVars, owner, check, missed>>

(* report_build up to the calls: the build is read again and reported as it *)
(* is now.  Nothing is to be told when it is gone, reads the same on the    *)
(* source, or was expired by retention after its result ("quiet").  Without *)
(* an active source nothing can be told, and the row ends as if it had been *)
(* ("untold").  Or a statement fails.                                       *)
LoadContext(row) ==
    LET s == status[row.b]
        told == Phase(row.was)
        quiet == \/ ~There(row.b)
                 \/ row.was # "none" /\ told = Phase(s)
                 \/ s = "expired" /\ told \in Terminal
    IN  /\ pass.pc = "next" /\ row \in pass.rows
        /\ \A r \in pass.rows : CreatedAt[row.b] <= CreatedAt[r.b]
        /\ \E res \in {IF quiet THEN "quiet" ELSE IF linked THEN "told" ELSE "untold", "error"} :
              pass' = [pass EXCEPT !.rows = @ \ {row}, !.row = row, !.at = 1, !.res = res,
                                   !.pc = IF res = "told" THEN "report" ELSE "finish",
                                   !.seen = IF res = "told" THEN s ELSE "none"]
        /\ UNCHANGED <<buildVars, linked, columnVars, owner, check, missed>>

(* check_owner: another build owns the check and is newer. *)
NewerOwns(b, p) == /\ owner[p] \notin {0, b}
                   /\ CreatedAt[owner[p]] > CreatedAt[b]

(* upsert_check_run, set_commit_status: the call sets the check; its answer *)
(* may be lost, or the owner's record fail.  GitLab's success also marks    *)
(* the source active.                                                       *)
CallSets ==
    /\ check' = [check EXCEPT ![pass.at] = [b |-> pass.row.b, phase |-> Shown(pass.seen)]]
    /\ linked' \in {linked, TRUE}
    /\ \/ pass' = [pass EXCEPT !.pc = "record"]
       \/ pass' = [pass EXCEPT !.pc = "finish", !.res = "error"]

(* The call fails, and a rejected GitLab credential puts the source in      *)
(* error; or it is refused for good.                                        *)
CallFails ==
    /\ UNCHANGED check
    /\ \/ /\ pass' = [pass EXCEPT !.pc = "finish", !.res = "error"]
          /\ linked' \in {linked, FALSE}
       \/ /\ pass' = [pass EXCEPT !.pc = "finish", !.res = "refused"]
          /\ UNCHANGED linked

(* GitLab answers "Cannot transition status" and keeps the status it has,   *)
(* which need not be the one posted; the report goes on as if it were.      *)
CallKept ==
    LET posted == [b |-> pass.row.b, phase |-> Shown(pass.seen)]
        res == IF check[pass.at] = posted THEN pass.res ELSE "kept"
    IN  /\ pass' = [pass EXCEPT !.pc = "record", !.res = res]
        /\ UNCHANGED <<check, linked>>

(* One platform: left to a newer build, or set on the source. *)
ReportPlatform ==
    /\ pass.pc = "report" /\ pass.at <= Platforms
    /\ IF NewerOwns(pass.row.b, pass.at)
       THEN pass' = [pass EXCEPT !.at = @ + 1] /\ UNCHANGED <<check, linked>>
       ELSE CallSets \/ CallFails \/ CallKept
    /\ UNCHANGED <<buildVars, columnVars, owner, missed>>

(* record_check_owner.  A build deleted meanwhile violates the reference    *)
(* and the statement fails.                                                 *)
RecordOwner ==
    LET b == pass.row.b IN
    /\ pass.pc = "record"
    /\ IF There(b)
       THEN /\ owner' = [owner EXCEPT ![pass.at] = b]
            /\ pass' = [pass EXCEPT !.pc = "report", !.at = @ + 1]
       ELSE /\ UNCHANGED owner
            /\ pass' = [pass EXCEPT !.pc = "finish", !.res = "error"]
    /\ UNCHANGED <<buildVars, linked, columnVars, check, missed>>

AllReported ==
    /\ pass.pc = "report" /\ pass.at > Platforms
    /\ pass' = [pass EXCEPT !.pc = "finish"]
    /\ UNCHANGED <<buildVars, linked, columnVars, owner, check, missed>>

(* Slips: the build is marked with the status it has by now; a failure      *)
(* is not counted.                                                          *)
MutMarkCurrent(row) == IF There(row.b) THEN status[row.b] ELSE row.s
MutNotCounted(row) == row.n

(* scm_reported_status is the status that was selected, which may be older  *)
(* than the one that was told.                                              *)
MarkedStatus(row) == row.s
FailuresAfter(row) == row.n + 1

Exhausted(n) == n >= MaxReports

(* The end of a row: reported or given up, or put off. *)
FinishRow ==
    LET row == pass.row
        b == row.b
        giveUp == pass.res # "error" \/ Exhausted(FailuresAfter(row))
    IN  /\ pass.pc = "finish"
        /\ IF ~There(b) THEN UNCHANGED columnVars
           ELSE IF giveUp
           THEN /\ reported' = [reported EXCEPT ![b] = MarkedStatus(row)]
                /\ failures' = [failures EXCEPT ![b] = 0]
                /\ backoff' = backoff \ {b}
           ELSE /\ failures' = [failures EXCEPT ![b] = FailuresAfter(row)]
                /\ backoff' = backoff \cup {b}
                /\ UNCHANGED reported
        /\ missed' = IF ~There(b) THEN missed
                     ELSE IF pass.res = "told" THEN missed \ {b}
                     ELSE IF pass.res # "quiet" /\ giveUp THEN missed \cup {b}
                     ELSE missed
        /\ pass' = [IdlePass EXCEPT !.rows = pass.rows,
                                    !.pc = IF pass.rows = {} THEN "idle" ELSE "next"]
        /\ UNCHANGED <<buildVars, linked, owner, check>>

(* The UPDATE at the end of a row fails, and with it the whole pass. *)
PassFails ==
    /\ pass.pc = "finish" /\ Fault
    /\ pass' = IdlePass
    /\ UNCHANGED <<status, result, linked, columnVars, owner, check, missed>>

(* scm_report_after is reached. *)
BackoffEnds(b) ==
    /\ b \in backoff /\ backoff' = backoff \ {b}
    /\ UNCHANGED <<buildVars, linked, reported, failures, owner, check, missed, pass>>

(* The source is removed from the project, or its integration goes into     *)
(* error; it is linked again, or active again after a credential was        *)
(* replaced or another call with it succeeded.                              *)
Unlink ==
    /\ linked /\ linked' = FALSE
    /\ UNCHANGED <<buildVars, columnVars, owner, check, missed, pass>>

Relink ==
    /\ ~linked /\ linked' = TRUE
    /\ UNCHANGED <<buildVars, columnVars, owner, check, missed, pass>>

(* A build's row is deleted, and its checks lose their owner (ON DELETE SET *)
(* NULL).                                                                   *)
DropReports(b) ==
    /\ reported' = [reported EXCEPT ![b] = "none"]
    /\ failures' = [failures EXCEPT ![b] = 0]
    /\ backoff' = backoff \ {b} /\ missed' = missed \ {b}
    /\ owner' = [p \in 1..Platforms |-> IF owner[p] = b THEN 0 ELSE owner[p]]

(* The daemon's restart. *)
DropPass == pass' = IdlePass /\ UNCHANGED <<linked, columnVars, owner, check, missed>>

ReporterStep ==
    \/ SelectDue \/ (\E row \in pass.rows : LoadContext(row))
    \/ ReportPlatform \/ RecordOwner \/ AllReported \/ FinishRow

CheckStep ==
    \/ ReporterStep \/ PassFails \/ Unlink \/ Relink
    \/ \E b \in Builds : BackoffEnds(b)

-----------------------------------------------------------------------------
(* Properties.                                                              *)

(* Once the newest build's status is marked reported, every check shows     *)
(* that build with that status, unless it was marked without being told:    *)
(* given up after MAX_REPORT_ATTEMPTS, refused, met by an inactive source,  *)
(* or kept by GitLab as it was.  Nothing else comes between the columns and *)
(* the source, whether it is active now or not and whatever becomes of the  *)
(* reports of other builds: the status is read twice, the older reading is  *)
(* written back, answers get lost, and an older build must not set the      *)
(* check of a newer one (report_due_builds, check_owner).  A build that     *)
(* retention expired keeps its old result.                                  *)
NothingLeftUntold ==
    \A b \in Builds \ missed :
        /\ There(b) /\ status[b] # "expired" /\ reported[b] = status[b]
        /\ \A c \in Builds \ {b} : /\ status[c] # "deleted"
                                   /\ There(c) => CreatedAt[c] < CreatedAt[b]
        => \A p \in 1..Platforms : check[p] = [b |-> b, phase |-> Shown(status[b])]

(* "Retention expires finished builds.  The source keeps their result."     *)
SourceKeepsResult ==
    [][\A p \in 1..Platforms, b \in Builds :
        check[p].b = b /\ check'[p].b = b /\ check[p].phase \in Terminal
            => check'[p] = check[p]]_check
=============================================================================
