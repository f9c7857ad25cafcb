--------------------------- MODULE ReportedBuilds ---------------------------
(***************************************************************************)
(* The builds table as the two reporters see it: a column of statuses that *)
(* moves on by itself.  The notification dispatcher and the commit check   *)
(* reporter are told of no transition; each polls the table and compares   *)
(* the status with what it last made known.  The moves are those of module *)
(* BuildTable, whichever of its transactions makes them.                   *)
(***************************************************************************)
EXTENDS BuildStatus, Integers, FiniteSets

CONSTANTS
    Builds,      \* builds of one pipeline and commit
    Statuses,    \* the statuses the instance goes through
    MaxFaults    \* bound: failed statements and daemon restarts

ASSUME BuildsAssumption ==
    /\ Builds \subseteq Nat \ {0} /\ IsFiniteSet(Builds)
    /\ Statuses \subseteq BuildStatuses
    /\ MaxFaults \in Nat

VARIABLES
    status,   \* builds.status
    result,   \* history: the status each build ended with, "none" before
    faults

buildVars == <<status, result, faults>>

BuildsTypeOK ==
    /\ status \in [Builds -> RowStates]
    /\ result \in [Builds -> Terminal \cup {"none"}]
    /\ faults \in 0..MaxFaults

BuildsInit ==
    /\ status = [b \in Builds |-> "absent"]
    /\ result = [b \in Builds |-> "none"]
    /\ faults = 0

(* Statuses a row can have next: the contract's transitions, the claim that *)
(* passes 'scheduled' in one transaction, a queued build failed for its     *)
(* source's credentials, and retention's DELETE.                            *)
Moves(s) ==
    (CASE s = "absent"   -> {"queued"}
       [] s = "queued"   -> ValidTransitions(s) \cup {"assigned", "failed"}
       [] s \in Terminal -> ValidTransitions(s) \cup {"deleted"}
       [] OTHER          -> ValidTransitions(s)) \cap (Statuses \cup {"deleted"})

MoveBuild(b, s) ==
    /\ s \in Moves(status[b])
    /\ status' = [status EXCEPT ![b] = s]
    /\ result' = [result EXCEPT ![b] = IF s = "deleted" THEN "none"
                                         ELSE IF s \in Terminal /\ @ = "none" THEN s ELSE @]

There(b) == status[b] \in BuildStatuses

(* A statement fails (the database is busy), or the daemon dies. *)
Fault == faults < MaxFaults /\ faults' = faults + 1
=============================================================================
