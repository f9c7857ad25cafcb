-------------------------- MODULE BuildTableProofs --------------------------
(***************************************************************************)
(* Theorems about the builds table, for every number of builds, runners,   *)
(* pipelines, projects and repositories.                                   *)
(*                                                                         *)
(* The argument goes through one lemma, EveryStepMoves: whatever           *)
(* transaction runs, each row stays, is revoked, is marked or is claimed   *)
(* (the four moves below).  The invariants follow from the moves.          *)
(***************************************************************************)
EXTENDS BuildTable, FiniteSetTheorems, TLAPS

Stays(b) == status'[b] = status[b] /\ holder'[b] = holder[b] /\ grant'[b] = grant[b]

(* The build ends or goes back to the queue; its runner and grant are gone. *)
Revoked(b) ==
    /\ \/ status[b] \in Unfinished /\ status'[b] \in Terminal
       \/ status[b] \in {"scheduled", "assigned"} /\ status'[b] = "queued"
       \/ status[b] \in Terminal \ {"expired"} /\ status'[b] = "expired"
    /\ holder'[b] = NoRunner /\ grant'[b] = 0

(* Only the status changes. *)
Marked(b) ==
    /\ \/ status[b] = "absent" /\ status'[b] = "queued"
       \/ status[b] = "queued" /\ status'[b] \in {"failed", "canceled"}
       \/ status[b] = "scheduled" /\ status'[b] = "queued"
       \/ status[b] = "assigned" /\ status'[b] = "running"
       \/ status[b] \in Terminal /\ status'[b] = "deleted"
    /\ holder'[b] = holder[b] /\ grant'[b] = grant[b]

Claimed(b) ==
    /\ status[b] = "queued" /\ status'[b] = "assigned"
    /\ holder'[b] \in Runners
    /\ grant'[b] = issued + 1 /\ issued' = issued + 1
    /\ \A c \in Builds \ {b} : Stays(c)
    /\ approval[b] # "pending" /\ ~barrier
    /\ PipelineHasFreeSlot(b) /\ RunnerHasFreeSlot(holder'[b])

Moves(b) == Stays(b) \/ Revoked(b) \/ Marked(b) \/ Claimed(b)

USE DEF BuildStatuses, Terminal, Held, RowStates, Unfinished

-----------------------------------------------------------------------------
(* What the two shared writes do to a row. *)
LEMMA EndRowsMoves ==
    ASSUME TypeOK, NEW B, NEW s, EndRows(B, s)
    PROVE  \A b \in Builds :
            /\ b \in B => status'[b] = s /\ holder'[b] = NoRunner /\ grant'[b] = 0
            /\ b \notin B => Stays(b)
BY DEF EndRows, Stays, TypeOK

(* A status written alone moves the rows named and leaves their bindings. *)
LEMMA MarkRowsMoves ==
    ASSUME TypeOK, NEW B, NEW s, MarkRows(B, s)
    PROVE  \A b \in Builds :
            /\ holder'[b] = holder[b] /\ grant'[b] = grant[b]
            /\ b \in B => status'[b] = s
            /\ b \notin B => status'[b] = status[b]
BY DEF MarkRows, TypeOK

(* Every transaction of the table only makes the four moves; grants only    *)
(* grow in number.                                                          *)
LEMMA EveryStepMoves ==
    ASSUME TypeOK, [TableNext]_tableVars
    PROVE  /\ \A b \in Builds : Moves(b)
           /\ issued' = issued \/ \E b \in Builds : Claimed(b)
<1> USE DEF Moves
<1>1. CASE UNCHANGED tableVars
  BY <1>1 DEF tableVars, rowVars, Stays
<1>2. ASSUME NEW p \in Projects, NEW r \in Repositories, ChangeSource(p, r)
      PROVE  (\A b \in Builds : Moves(b)) /\ issued' = issued
  <2>1. EndRows(WaitingIn({p}), "canceled") /\ issued' = issued
    BY <1>2 DEF ChangeSource
  <2>2. \A b \in Builds : b \in WaitingIn({p}) => status[b] \in {"queued", "scheduled"}
    BY DEF WaitingIn
  <2> HIDE DEF WaitingIn
  <2> QED  BY <2>1, <2>2, EndRowsMoves DEF Revoked
<1>3. ASSUME NEW R \in SUBSET Repositories, RemoveRepositories(R)
      PROVE  (\A b \in Builds : Moves(b)) /\ issued' = issued
  <2> DEFINE P == {p \in Projects : source[p] \in R}
  <2>1. EndRows(WaitingIn(P), "canceled") /\ issued' = issued
    BY <1>3 DEF RemoveRepositories
  <2>2. \A b \in Builds : b \in WaitingIn(P) => status[b] \in {"queued", "scheduled"}
    BY DEF WaitingIn
  <2> HIDE DEF P
  <2> QED  BY <2>1, <2>2, EndRowsMoves DEF Revoked
<1>4. CASE AcquireBarrier
  <2> DEFINE B == {b \in Builds : status[b] = "scheduled" /\ holder[b] = NoRunner}
  <2>1. MarkRows(B, "queued") /\ issued' = issued
    BY <1>4 DEF AcquireBarrier
  <2>2. \A b \in Builds : b \in B => status[b] = "scheduled"
    OBVIOUS
  <2> HIDE DEF B
  <2> QED  BY <2>1, <2>2, MarkRowsMoves DEF Marked, Stays
<1>5. CASE LiftBarrier
  BY <1>5 DEF LiftBarrier, rowVars, Stays
<1>6. CASE ReloadPending
  <2> DEFINE B == {b \in Builds : status[b] = "scheduled"}
  <2>1. EndRows(B, "queued") /\ issued' = issued
    BY <1>6 DEF ReloadPending
  <2>2. \A b \in Builds : b \in B => status[b] = "scheduled"
    OBVIOUS
  <2> HIDE DEF B
  <2> QED  BY <2>1, <2>2, EndRowsMoves DEF Revoked
<1>7. CASE SetPaused
  BY <1>7 DEF SetPaused, rowVars, Stays
<1>8. ASSUME NEW r \in Repositories, SetIncident(r)
      PROVE  (\A b \in Builds : Moves(b)) /\ issued' = issued
  BY <1>8 DEF SetIncident, rowVars, Stays
<1>9. ASSUME NEW p \in Pipelines, NEW n \in Limits, UpdatePipeline(p, n)
      PROVE  (\A b \in Builds : Moves(b)) /\ issued' = issued
  BY <1>9 DEF UpdatePipeline, rowVars, Stays
<1>10. ASSUME NEW r \in Runners, NEW n \in SlotCounts, UpdateRunner(r, n)
       PROVE  (\A b \in Builds : Moves(b)) /\ issued' = issued
  BY <1>10 DEF UpdateRunner, rowVars, Stays
<1>11. ASSUME NEW b \in Builds, NEW r \in Repositories, NEW hold \in BOOLEAN,
              NEW prev \in BOOLEAN, InsertBuild(b, r, hold, prev)
       PROVE  (\A c \in Builds : Moves(c)) /\ issued' = issued
  <2> DEFINE gone == IF prev THEN Superseded(b, r) ELSE {}
  <2>1. \A c \in gone : c # b /\ status[c] \in Unfinished
    BY DEF Superseded
  <2>2. /\ status[b] = "absent" /\ issued' = issued
        /\ status' = [o \in Builds |-> IF o = b THEN "queued"
                                       ELSE IF o \in gone THEN "canceled" ELSE status[o]]
        /\ holder' = [o \in Builds |-> IF o \in gone THEN NoRunner ELSE holder[o]]
        /\ grant' = [o \in Builds |-> IF o \in gone THEN 0 ELSE grant[o]]
    BY <1>11 DEF InsertBuild
  <2> HIDE DEF gone
  <2>3. ASSUME NEW c \in Builds PROVE Moves(c)
    <3>1. CASE c = b
      BY <2>1, <2>2, <3>1 DEF Marked
    <3>2. CASE c \in gone
      BY <2>1, <2>2, <3>2 DEF Revoked
    <3>3. CASE c # b /\ c \notin gone
      BY <2>2, <3>3 DEF Stays
    <3> QED  BY <3>1, <3>2, <3>3
  <2> QED  BY <2>2, <2>3
<1>12. ASSUME NEW b \in Builds, NEW to \in TransitionTargets,
              TransitionBuild(b, status[b], to)
       PROVE  (\A c \in Builds : Moves(c)) /\ issued' = issued
  <2>1. status[b] \in RowStates /\ to \in BuildStatuses \ {"scheduled", "assigned"}
    BY DEF TypeOK, TransitionTargets
  <2>2. CanTransition(status[b], to) /\ issued' = issued
    BY <1>12 DEF TransitionBuild
  <2>3. CASE to \in Terminal \cup {"queued"}
    <3>1. EndRows({b}, to)
      BY <1>12, <2>3 DEF TransitionBuild
    <3>2. \/ status[b] \in Unfinished /\ to \in Terminal
          \/ status[b] \in {"scheduled", "assigned"} /\ to = "queued"
          \/ status[b] \in Terminal \ {"expired"} /\ to = "expired"
      BY <2>1, <2>2, <2>3 DEF CanTransition, ValidTransitions
    <3> QED  BY <2>2, <3>1, <3>2, EndRowsMoves DEF Revoked
  <2>4. CASE to \notin Terminal \cup {"queued"}
    <3>1. MarkRows({b}, to)
      BY <1>12, <2>4 DEF TransitionBuild
    <3>2. status[b] = "assigned" /\ to = "running"
      BY <2>1, <2>2, <2>4 DEF CanTransition, ValidTransitions
    <3> QED  BY <2>2, <3>1, <3>2, MarkRowsMoves DEF Marked, Stays
  <2> QED  BY <2>3, <2>4
<1>13. ASSUME NEW b \in Builds, NEW r \in Runners, ClaimBuild(b, r)
       PROVE  (\A c \in Builds : Moves(c)) /\ \E c \in Builds : Claimed(c)
  <2>1. Claimed(b)
    BY <1>13 DEF ClaimBuild, Claimed, Eligible, BlocksClaims, Stays, TypeOK
  <2> QED  BY <2>1 DEF Claimed
<1>14. ASSUME NEW b \in Builds, FailCredentialBlocked(b)
       PROVE  (\A c \in Builds : Moves(c)) /\ issued' = issued
  BY <1>14, MarkRowsMoves DEF FailCredentialBlocked, Marked, Stays
<1>15. ASSUME NEW b \in Builds, NEW decision \in {"approved", "rejected"},
              RecordApproval(b, decision)
       PROVE  (\A c \in Builds : Moves(c)) /\ issued' = issued
  BY <1>15, MarkRowsMoves DEF RecordApproval, Marked, Stays
<1>16. ASSUME NEW b \in Builds, DeleteBuild(b)
       PROVE  (\A c \in Builds : Moves(c)) /\ issued' = issued
  BY <1>16, MarkRowsMoves DEF DeleteBuild, Marked, Stays
<1>17. QED
  <2>1. CASE PolicyStep
    BY <2>1, <1>2, <1>3, <1>4, <1>5, <1>6, <1>7, <1>8, <1>9, <1>10 DEF PolicyStep, LiftBarrier, AcquireBarrier, ReloadPending, SetPaused
  <2>2. ASSUME NEW b \in Builds, BuildStep(b)
        PROVE  /\ \A c \in Builds : Moves(c)
               /\ issued' = issued \/ \E c \in Builds : Claimed(c)
    BY <2>2, <1>11, <1>12, <1>13, <1>14, <1>15, <1>16 DEF BuildStep
  <2> QED  BY <1>1, <2>1, <2>2 DEF TableNext, tableVars

-----------------------------------------------------------------------------
(* Type correctness. *)

(* The initial table is well typed. *)
LEMMA InitTyped == TableInit => TypeOK
<1> SUFFICES ASSUME TableInit PROVE TypeOK
  OBVIOUS
<1>1. paused \in BOOLEAN /\ barrier \in BOOLEAN
  BY DEF TableInit
<1>2. repo \in [Builds -> Repositories \cup {NoRepository}]
  BY TableAssumption DEF TableInit
<1>3. source \in [Projects -> known \cup {NoRepository}]
  BY DEF TableInit
<1> QED  BY <1>1, <1>2, <1>3 DEF TableInit, TypeOK

(* The columns of a row keep their types under the four moves. *)
LEMMA EndRowsTyped ==
    ASSUME TypeOK, NEW B, NEW s \in RowStates, EndRows(B, s)
    PROVE  /\ status' \in [Builds -> RowStates]
           /\ holder' \in [Builds -> Runners \cup {NoRunner}]
           /\ grant' \in [Builds -> Nat]
BY DEF EndRows, TypeOK

(* ... and under a status written alone. *)
LEMMA MarkRowsTyped ==
    ASSUME TypeOK, NEW B, NEW s \in RowStates, MarkRows(B, s)
    PROVE  /\ status' \in [Builds -> RowStates]
           /\ holder' \in [Builds -> Runners \cup {NoRunner}]
           /\ grant' \in [Builds -> Nat]
BY DEF MarkRows, TypeOK

(* Every transaction keeps the table well typed. *)
LEMMA TypeStep == TypeOK /\ [TableNext]_tableVars => TypeOK'
<1> SUFFICES ASSUME TypeOK, [TableNext]_tableVars PROVE TypeOK'
  OBVIOUS
<1>1. CASE UNCHANGED tableVars
  BY <1>1 DEF tableVars, rowVars, policyVars, TypeOK
<1>2. ASSUME NEW p \in Projects, NEW r \in Repositories, ChangeSource(p, r) PROVE TypeOK'
  <2>1. EndRows(WaitingIn({p}), "canceled")
    BY <1>2 DEF ChangeSource
  <2> QED  BY <1>2, <2>1, EndRowsTyped DEF ChangeSource, TypeOK
<1>3. ASSUME NEW R \in SUBSET Repositories, RemoveRepositories(R) PROVE TypeOK'
  <2> DEFINE P == {p \in Projects : source[p] \in R}
  <2>1. EndRows(WaitingIn(P), "canceled")
    BY <1>3 DEF RemoveRepositories
  <2>2. source' \in [Projects -> known' \cup {NoRepository}]
    BY <1>3 DEF RemoveRepositories, TypeOK
  <2> QED  BY <1>3, <2>1, <2>2, EndRowsTyped DEF RemoveRepositories, TypeOK
<1>4. CASE AcquireBarrier
  BY <1>4, MarkRowsTyped DEF AcquireBarrier, TypeOK
<1>5. CASE LiftBarrier
  BY <1>5 DEF LiftBarrier, rowVars, TypeOK
<1>6. CASE ReloadPending
  BY <1>6, EndRowsTyped DEF ReloadPending, policyVars, TypeOK
<1>7. CASE SetPaused
  BY <1>7 DEF SetPaused, rowVars, TypeOK
<1>8. ASSUME NEW r \in Repositories, SetIncident(r) PROVE TypeOK'
  BY <1>8 DEF SetIncident, rowVars, TypeOK
<1>9. ASSUME NEW p \in Pipelines, NEW n \in Limits, UpdatePipeline(p, n) PROVE TypeOK'
  BY <1>9 DEF UpdatePipeline, rowVars, TypeOK
<1>10. ASSUME NEW r \in Runners, NEW n \in SlotCounts, UpdateRunner(r, n) PROVE TypeOK'
  BY <1>10 DEF UpdateRunner, rowVars, TypeOK
<1>11. ASSUME NEW b \in Builds, NEW r \in Repositories, NEW hold \in BOOLEAN,
              NEW prev \in BOOLEAN, InsertBuild(b, r, hold, prev)
       PROVE  TypeOK'
  <2> DEFINE gone == IF prev THEN Superseded(b, r) ELSE {}
  <2>1. /\ status' = [o \in Builds |-> IF o = b THEN "queued"
                                       ELSE IF o \in gone THEN "canceled" ELSE status[o]]
        /\ holder' = [o \in Builds |-> IF o \in gone THEN NoRunner ELSE holder[o]]
        /\ grant' = [o \in Builds |-> IF o \in gone THEN 0 ELSE grant[o]]
        /\ approval' = [approval EXCEPT ![b] = IF hold THEN "pending" ELSE "none"]
        /\ repo' = [repo EXCEPT ![b] = r]
        /\ UNCHANGED <<issued, policyVars>>
    BY <1>11 DEF InsertBuild
  <2> HIDE DEF gone
  <2> QED  BY <2>1 DEF policyVars, TypeOK
<1>12. ASSUME NEW b \in Builds, NEW to \in TransitionTargets,
              TransitionBuild(b, status[b], to)
       PROVE  TypeOK'
  BY <1>12, EndRowsTyped, MarkRowsTyped
     DEF TransitionBuild, TransitionTargets, policyVars, TypeOK
<1>13. ASSUME NEW b \in Builds, NEW r \in Runners, ClaimBuild(b, r) PROVE TypeOK'
  BY <1>13 DEF ClaimBuild, policyVars, TypeOK
<1>14. ASSUME NEW b \in Builds, FailCredentialBlocked(b) PROVE TypeOK'
  BY <1>14, MarkRowsTyped DEF FailCredentialBlocked, policyVars, TypeOK
<1>15. ASSUME NEW b \in Builds, NEW decision \in {"approved", "rejected"},
              RecordApproval(b, decision)
       PROVE  TypeOK'
  <2>1. approval' = [approval EXCEPT ![b] = decision]
    BY <1>15 DEF RecordApproval
  <2>2. MarkRows({b}, IF decision = "approved" THEN "queued" ELSE "canceled")
    BY <1>15 DEF RecordApproval
  <2>3. (IF decision = "approved" THEN "queued" ELSE "canceled") \in RowStates
    OBVIOUS
  <2> QED  BY <1>15, <2>1, <2>2, <2>3, MarkRowsTyped DEF RecordApproval, policyVars, TypeOK
<1>16. ASSUME NEW b \in Builds, DeleteBuild(b) PROVE TypeOK'
  BY <1>16, MarkRowsTyped DEF DeleteBuild, policyVars, TypeOK
<1>17. QED
  <2>1. CASE PolicyStep
    BY <2>1, <1>2, <1>3, <1>4, <1>5, <1>6, <1>7, <1>8, <1>9, <1>10 DEF PolicyStep
  <2>2. ASSUME NEW b \in Builds, BuildStep(b) PROVE TypeOK'
    BY <2>2, <1>11, <1>12, <1>13, <1>14, <1>15, <1>16 DEF BuildStep
  <2> QED  BY <1>1, <2>1, <2>2 DEF TableNext

(* Every reachable state of the builds table has its type: in particular a  *)
(* project is never linked to a repository that has been removed.           *)
THEOREM TableTyped == TableSpec => []TypeOK
BY InitTyped, TypeStep, PTL DEF TableSpec

-----------------------------------------------------------------------------
(* Runner and grant follow the status. *)

(* No build is bound in the initial table. *)
LEMMA InitBinding == TableInit => GrantBinding
BY TableAssumption DEF TableInit, GrantBinding

(* Each of the four moves keeps runner, grant and status in agreement; a    *)
(* claim does because its grant is new.                                     *)
LEMMA BindingStep ==
    TypeOK /\ GrantBinding /\ [TableNext]_tableVars => GrantBinding'
<1> SUFFICES ASSUME TypeOK, GrantBinding, [TableNext]_tableVars PROVE GrantBinding'
  OBVIOUS
<1>1. \A b \in Builds : Moves(b)
  BY EveryStepMoves
<1>2. ASSUME NEW b \in Builds
      PROVE  /\ holder'[b] # NoRunner <=> status'[b] \in Held
             /\ grant'[b] # 0 <=> status'[b] \in Held
  <2>1. CASE Claimed(b)
    BY <2>1, TableAssumption DEF Claimed, TypeOK
  <2>2. CASE Stays(b) \/ Revoked(b) \/ Marked(b)
    BY <2>2 DEF Stays, Revoked, Marked, GrantBinding
  <2> QED  BY <1>1, <2>1, <2>2 DEF Moves
<1>3. CASE issued' = issued
  <2>1. \A b \in Builds : ~Claimed(b)
    BY <1>3 DEF Claimed, TypeOK
  <2>2. \A b \in Builds : grant'[b] = grant[b] \/ grant'[b] = 0
    BY <1>1, <2>1 DEF Moves, Stays, Revoked, Marked
  <2> QED  BY <1>2, <1>3, <2>2 DEF GrantBinding, TypeOK
<1>4. CASE \E b \in Builds : Claimed(b)
  <2>1. PICK b \in Builds : Claimed(b)
    BY <1>4
  <2>2. /\ grant'[b] = issued + 1 /\ issued' = issued + 1
        /\ \A c \in Builds \ {b} : grant'[c] = grant[c]
    BY <2>1 DEF Claimed, Stays
  <2>3. \A c \in Builds \ {b} : grant'[c] # grant'[b] /\ grant'[c] <= issued'
    BY <2>2 DEF GrantBinding, TypeOK
  <2> QED  BY <1>2, <2>2, <2>3 DEF GrantBinding, TypeOK
<1> QED  BY <1>3, <1>4, EveryStepMoves

(* A build has a runner and a signing grant exactly while it is assigned or *)
(* running, and no grant opens two builds, however many builds and runners  *)
(* there are.                                                               *)
THEOREM GrantsBound == TableSpec => []GrantBinding
BY InitTyped, TypeStep, InitBinding, BindingStep, PTL DEF TableSpec

(* Once a build has ended, no transaction gives it another outcome.         *)
THEOREM OutcomesFinal == TableSpec => EndedStaysEnded
<1>1. TypeOK /\ [TableNext]_tableVars =>
        [\A b \in Builds : status[b] \in Terminal =>
            \/ status'[b] = status[b]
            \/ status'[b] = "expired" /\ status[b] # "expired"
            \/ status'[b] = "deleted"]_tableVars
  BY EveryStepMoves DEF Moves, Stays, Revoked, Marked, Claimed
<1> QED  BY <1>1, TableTyped, PTL DEF TableSpec, EndedStaysEnded

(* A drained instance stays drained while the barrier is up.                *)
THEOREM BarrierHolds == TableSpec => DrainHolds
<1>1. TypeOK /\ [TableNext]_tableVars =>
        [barrier /\ barrier' =>
            \A b \in Builds : status'[b] \in Held => status[b] \in Held]_tableVars
  BY EveryStepMoves DEF Moves, Stays, Revoked, Marked, Claimed
<1> QED  BY <1>1, TableTyped, PTL DEF TableSpec, DrainHolds

-----------------------------------------------------------------------------
(* Approvals. *)

(* Who may change approval_state, and what happens to the row meanwhile. *)
ApprovalMoves(b) ==
    \/ approval'[b] = approval[b]
    \/ status'[b] = "queued" /\ approval'[b] # "rejected"
    \/ status'[b] = "canceled" /\ approval'[b] = "rejected"

(* How one transaction can change a build's approval: not at all, by its    *)
(* INSERT, or by the decision, which ends the build when it is a rejection. *)
LEMMA EveryStepApproves ==
    ASSUME TypeOK, [TableNext]_tableVars
    PROVE  \A b \in Builds : ApprovalMoves(b)
<1>1. ASSUME NEW b \in Builds, NEW r \in Repositories, NEW hold \in BOOLEAN,
             NEW prev \in BOOLEAN, InsertBuild(b, r, hold, prev)
      PROVE  \A c \in Builds : ApprovalMoves(c)
  <2>1. /\ approval' = [approval EXCEPT ![b] = IF hold THEN "pending" ELSE "none"]
        /\ status'[b] = "queued"
    BY <1>1 DEF InsertBuild
  <2> QED  BY <2>1 DEF ApprovalMoves, TypeOK
<1>2. ASSUME NEW b \in Builds, NEW decision \in {"approved", "rejected"},
             RecordApproval(b, decision)
      PROVE  \A c \in Builds : ApprovalMoves(c)
  BY <1>2 DEF RecordApproval, MarkRows, ApprovalMoves, TypeOK
<1>3. CASE UNCHANGED approval
  BY <1>3 DEF ApprovalMoves
<1>4. CASE PolicyStep
  BY <1>3, <1>4 DEF PolicyStep, ChangeSource, RemoveRepositories, AcquireBarrier, LiftBarrier,
        ReloadPending, SetPaused, SetIncident, UpdatePipeline, UpdateRunner
<1>5. ASSUME NEW b \in Builds, BuildStep(b) PROVE \A c \in Builds : ApprovalMoves(c)
  BY <1>1, <1>2, <1>3, <1>5 DEF BuildStep, TransitionBuild, ClaimBuild,
        FailCredentialBlocked, DeleteBuild
<1> QED  BY <1>3, <1>4, <1>5 DEF TableNext, tableVars

(* The claim's test of approval keeps a build held for approval unclaimed. *)
LEMMA ApprovalStep ==
    TypeOK /\ ApprovalRespected /\ [TableNext]_tableVars => ApprovalRespected'
<1> SUFFICES ASSUME TypeOK, ApprovalRespected, [TableNext]_tableVars, NEW b \in Builds
             PROVE  /\ approval'[b] = "pending" =>
                          status'[b] \in {"queued", "deleted"} \cup Terminal
                    /\ approval'[b] = "rejected" => status'[b] \in {"deleted"} \cup Terminal
  BY DEF ApprovalRespected
<1>1. Moves(b) /\ ApprovalMoves(b)
  BY EveryStepMoves, EveryStepApproves
<1>2. CASE approval'[b] = approval[b]
  BY <1>1, <1>2 DEF Moves, Stays, Revoked, Marked, Claimed, ApprovalRespected
<1>3. CASE approval'[b] # approval[b]
  BY <1>1, <1>3 DEF ApprovalMoves
<1> QED  BY <1>2, <1>3

(* A build held for approval never reaches a runner before the decision,    *)
(* and a rejected one has ended, for every mix of builds and callers.       *)
THEOREM ApprovalsRespected == TableSpec => []ApprovalRespected
<1>1. TableInit => ApprovalRespected
  BY DEF TableInit, ApprovalRespected
<1> QED  BY <1>1, InitTyped, TypeStep, ApprovalStep, PTL DEF TableSpec

-----------------------------------------------------------------------------
(* Creation: retries and deliveries. *)

(* A build without a row appears only by an INSERT, which passed the guards *)
(* of execute_build_insert, and no other row appears with it.               *)
Inserted(b) ==
    /\ RetryFree(b) /\ DeliveryFree(b)
    /\ \A c \in Builds \ {b} : /\ status[c] = "absent" => status'[c] = "absent"
                               /\ status'[c] \in Unfinished => status[c] \in Unfinished
    /\ deliveries' = deliveries \cup DeliveryOf[b]

NoneInserted ==
    /\ \A b \in Builds : /\ status[b] = "absent" => status'[b] = "absent"
                         /\ status'[b] \in Unfinished => status[b] \in Unfinished
    /\ deliveries' = deliveries

(* A build that appears in a transaction was inserted by it, under the      *)
(* guards of execute_build_insert.                                          *)
LEMMA EveryStepInserts ==
    ASSUME TypeOK, [TableNext]_tableVars
    PROVE  (\E b \in Builds : Inserted(b)) \/ NoneInserted
<1> USE DEF NoneInserted
<1> DEFINE NoInsert == \A b \in Builds : status[b] = "absent" => status'[b] = "absent"
<1>1. ASSUME NEW b \in Builds, NEW r \in Repositories, NEW hold \in BOOLEAN,
             NEW prev \in BOOLEAN, InsertBuild(b, r, hold, prev)
      PROVE  Inserted(b)
  <2> DEFINE gone == IF prev THEN Superseded(b, r) ELSE {}
  <2>1. \A c \in gone : status[c] \in Unfinished
    BY DEF Superseded
  <2>2. /\ RetryFree(b) /\ DeliveryFree(b)
        /\ status' = [o \in Builds |-> IF o = b THEN "queued"
                                       ELSE IF o \in gone THEN "canceled" ELSE status[o]]
        /\ deliveries' = deliveries \cup DeliveryOf[b]
    BY <1>1 DEF InsertBuild
  <2> HIDE DEF gone
  <2> QED  BY <2>1, <2>2 DEF Inserted, TypeOK
<1>2. CASE UNCHANGED tableVars
  BY <1>2 DEF tableVars, rowVars
<1>3. CASE PolicyStep
  <2>1. deliveries' = deliveries
    BY <1>3 DEF PolicyStep, ChangeSource, RemoveRepositories, AcquireBarrier, LiftBarrier,
        ReloadPending, SetPaused, SetIncident, UpdatePipeline, UpdateRunner
  <2>2. NoInsert
    BY <1>3 DEF PolicyStep, ChangeSource, RemoveRepositories, AcquireBarrier, LiftBarrier,
        ReloadPending, SetPaused, SetIncident, UpdatePipeline, UpdateRunner, EndRows, MarkRows,
        WaitingIn, rowVars
  <2> QED  BY <2>1, <2>2, EveryStepMoves DEF Moves, Stays, Revoked, Marked, Claimed
<1>4. ASSUME NEW b \in Builds, BuildStep(b),
             ~ \E r \in Repositories, hold, prev \in BOOLEAN : InsertBuild(b, r, hold, prev)
      PROVE  deliveries' = deliveries /\ NoInsert
  <2>1. ASSUME NEW to \in TransitionTargets, TransitionBuild(b, status[b], to)
        PROVE  deliveries' = deliveries /\ NoInsert
    <3>1. status[b] # "absent"
      BY <2>1 DEF TransitionBuild, CanTransition, ValidTransitions
    <3> QED  BY <2>1, <3>1 DEF TransitionBuild, EndRows, MarkRows
  <2>2. ASSUME NEW r \in Runners, ClaimBuild(b, r) PROVE deliveries' = deliveries /\ NoInsert
    BY <2>2 DEF ClaimBuild, Eligible, TypeOK
  <2>3. CASE FailCredentialBlocked(b)
    BY <2>3 DEF FailCredentialBlocked, MarkRows
  <2>4. ASSUME NEW decision \in {"approved", "rejected"}, RecordApproval(b, decision)
        PROVE  deliveries' = deliveries /\ NoInsert
    BY <2>4 DEF RecordApproval, MarkRows
  <2>5. CASE DeleteBuild(b)
    BY <2>5 DEF DeleteBuild, MarkRows
  <2> QED  BY <1>4, <2>1, <2>2, <2>3, <2>4, <2>5 DEF BuildStep
<1>5. ASSUME NEW b \in Builds, BuildStep(b), NoInsert, deliveries' = deliveries
      PROVE  \A c \in Builds : status'[c] \in Unfinished => status[c] \in Unfinished
  BY <1>5, EveryStepMoves DEF Moves, Stays, Revoked, Marked, Claimed
<1> QED  BY <1>1, <1>2, <1>3, <1>4, <1>5 DEF TableNext, BuildStep

(* The guard of the INSERT keeps the retries of unfinished builds disjoint. *)
LEMMA RetryStep == TypeOK /\ RetryExclusive /\ [TableNext]_tableVars => RetryExclusive'
<1> SUFFICES ASSUME TypeOK, RetryExclusive, [TableNext]_tableVars PROVE RetryExclusive'
  OBVIOUS
<1>1. ASSUME NEW b \in Builds, Inserted(b) PROVE RetryExclusive'
  <2>1. \A o \in Builds : status[o] \in Unfinished => RetrySteps[o] \cap RetrySteps[b] = {}
    BY <1>1 DEF Inserted, RetryFree
  <2>2. \A o \in Builds \ {b} : status'[o] \in Unfinished => status[o] \in Unfinished
    BY <1>1 DEF Inserted
  <2> SUFFICES ASSUME NEW c \in Builds, NEW d \in Builds, c # d,
                      status'[c] \in Unfinished, status'[d] \in Unfinished
               PROVE  RetrySteps[c] \cap RetrySteps[d] = {}
    BY DEF RetryExclusive
  <2>3. CASE c = b
    BY <2>1, <2>2, <2>3
  <2>4. CASE d = b
    BY <2>1, <2>2, <2>4
  <2>5. CASE c # b /\ d # b
    BY <2>2, <2>5 DEF RetryExclusive
  <2> QED  BY <2>3, <2>4, <2>5
<1>2. CASE NoneInserted
  BY <1>2 DEF NoneInserted, RetryExclusive
<1>3. (\E b \in Builds : Inserted(b)) \/ NoneInserted
  BY EveryStepInserts
<1> QED  BY <1>1, <1>2, <1>3

(* Two unfinished builds never retry the same step, whatever the callers do.*)
THEOREM RetriesExclusive == TableSpec => []RetryExclusive
<1>1. TableInit => RetryExclusive
  <2> SUFFICES ASSUME TableInit PROVE RetryExclusive
    OBVIOUS
  <2>1. \A b \in Builds : status[b] \in Unfinished => b \in Legacy
    BY DEF TableInit
  <2>2. \A b \in Legacy : \A c \in Legacy \ {b} : RetrySteps[b] \cap RetrySteps[c] = {}
    BY TableAssumption
  <2> QED  BY <2>1, <2>2 DEF RetryExclusive
<1> QED  BY <1>1, InitTyped, TypeStep, RetryStep, PTL DEF TableSpec

(* webhook_build_claims remembers every delivery that created a build; this *)
(* is what makes OneBuildPerDelivery inductive once rows are deleted.       *)
DeliveriesRemembered ==
    \A b \in Builds : status[b] # "absent" => DeliveryOf[b] \subseteq deliveries

(* Every build that exists or existed has its delivery remembered, so the   *)
(* INSERT of a second one is refused.                                       *)
LEMMA DeliveryStep ==
    TypeOK /\ DeliveriesRemembered /\ OneBuildPerDelivery /\ [TableNext]_tableVars
        => DeliveriesRemembered' /\ OneBuildPerDelivery'
<1> SUFFICES ASSUME TypeOK, DeliveriesRemembered, OneBuildPerDelivery, [TableNext]_tableVars
             PROVE  DeliveriesRemembered' /\ OneBuildPerDelivery'
  OBVIOUS
<1>1. ASSUME NEW b \in Builds, Inserted(b)
      PROVE  DeliveriesRemembered' /\ OneBuildPerDelivery'
  <2>1. deliveries \cap DeliveryOf[b] = {} /\ deliveries' = deliveries \cup DeliveryOf[b]
    BY <1>1 DEF Inserted, DeliveryFree
  <2>2. \A o \in Builds \ {b} : status'[o] # "absent" => status[o] # "absent"
    BY <1>1 DEF Inserted
  <2>3. \A o \in Builds : status'[o] # "absent" => DeliveryOf[o] \subseteq deliveries'
    BY <2>1, <2>2 DEF DeliveriesRemembered
  <2>4. ASSUME NEW c \in Builds, NEW d \in Builds, c # d,
               status'[c] # "absent", status'[d] # "absent"
        PROVE  DeliveryOf[c] \cap DeliveryOf[d] = {}
    <3>1. \A o \in Builds \ {b} : status'[o] # "absent" => DeliveryOf[o] \subseteq deliveries
      BY <2>2 DEF DeliveriesRemembered
    <3>2. CASE c = b
      BY <2>1, <2>4, <3>1, <3>2
    <3>3. CASE d = b
      BY <2>1, <2>4, <3>1, <3>3
    <3>4. CASE c # b /\ d # b
      BY <2>2, <2>4, <3>4 DEF OneBuildPerDelivery
    <3> QED  BY <3>2, <3>3, <3>4
  <2> QED  BY <2>3, <2>4 DEF DeliveriesRemembered, OneBuildPerDelivery
<1>2. CASE NoneInserted
  BY <1>2 DEF NoneInserted, DeliveriesRemembered, OneBuildPerDelivery
<1>3. (\E b \in Builds : Inserted(b)) \/ NoneInserted
  BY EveryStepInserts
<1> QED  BY <1>1, <1>2, <1>3

(* One webhook delivery creates at most one build per pipeline and workflow,*)
(* even after retention deleted the first one.                              *)
THEOREM DeliveriesBuildOnce == TableSpec => []OneBuildPerDelivery
<1>1. TableInit => DeliveriesRemembered /\ OneBuildPerDelivery
  <2> SUFFICES ASSUME TableInit PROVE DeliveriesRemembered /\ OneBuildPerDelivery
    OBVIOUS
  <2>1. \A b \in Builds : status[b] # "absent" => b \in Legacy
    BY DEF TableInit
  <2>2. \A b \in Legacy : DeliveryOf[b] \subseteq deliveries
    BY DEF TableInit
  <2>3. \A b \in Legacy : \A c \in Legacy \ {b} : DeliveryOf[b] \cap DeliveryOf[c] = {}
    BY TableAssumption
  <2> QED  BY <2>1, <2>2, <2>3 DEF DeliveriesRemembered, OneBuildPerDelivery
<1> QED  BY <1>1, InitTyped, TypeStep, DeliveryStep, PTL DEF TableSpec

-----------------------------------------------------------------------------
(* The table implements BuildLife, build by build. *)

(* The four moves, seen through LifeOf, are the steps of BuildLife. *)
LEMMA LifeStep ==
    ASSUME TypeOK, GrantBinding, [TableNext]_tableVars, NEW b \in Builds
    PROVE  [Life(b)!Next]_(Life(b)!lifeVars)
<1> USE DEF LifeOf
<1>0. Moves(b) /\ status[b] \in RowStates /\ (holder[b] # NoRunner <=> status[b] \in Held)
  BY EveryStepMoves DEF TypeOK, GrantBinding
<1>1. CASE Stays(b)
  BY <1>1 DEF Stays, Life!lifeVars
<1>2. CASE Revoked(b)
  BY <1>0, <1>2 DEF Revoked, Life!lifeVars, Life!Next, Life!GiveBack, Life!End
<1>3. CASE Marked(b)
  BY <1>0, <1>3 DEF Marked, Life!lifeVars, Life!Next, Life!Enqueue, Life!Start, Life!End
<1>4. CASE Claimed(b)
  BY <1>4 DEF Claimed, Life!Next, Life!Take
<1> QED  BY <1>0, <1>1, <1>2, <1>3, <1>4 DEF Moves

(* Every build lives the life BuildLife promises, for every value of the    *)
(* constants: the table refines the abstract specification.                 *)
THEOREM TableImplementsLife == TableSpec => EveryBuildLives
<1>1. TableInit => \A b \in Builds : Life(b)!Init
  BY DEF TableInit, LifeOf, Life!Init
<1>2. TypeOK /\ GrantBinding /\ [TableNext]_tableVars =>
        [\A b \in Builds : [Life(b)!Next]_(Life(b)!lifeVars)]_tableVars
  BY LifeStep
<1> QED  BY <1>1, <1>2, TableTyped, GrantsBound, PTL DEF TableSpec, EveryBuildLives

-----------------------------------------------------------------------------
(* Limits. *)

(* The sets the limits count are finite. *)
LEMMA SlotSetsFinite ==
    /\ \A p : IsFiniteSet(TakingSlots(p)) /\ IsFiniteSet(TakingSlots(p)')
    /\ \A r : IsFiniteSet(HeldBy(r)) /\ IsFiniteSet(HeldBy(r)')
<1>1. IsFiniteSet(Builds)
  BY TableAssumption
<1> QED  BY <1>1, FS_Subset DEF TakingSlots, HeldBy

(* A step that claims nothing gives no pipeline and no runner more builds.  *)
LEMMA NoClaimNoGrowth ==
    ASSUME TypeOK, GrantBinding, [TableNext]_tableVars, issued' = issued
    PROVE  /\ \A p \in Pipelines : TakingSlots(p)' \subseteq TakingSlots(p)
           /\ \A r \in Runners : HeldBy(r)' \subseteq HeldBy(r)
<1>1. \A b \in Builds : Stays(b) \/ Revoked(b) \/ Marked(b)
  BY EveryStepMoves DEF Moves, Claimed, TypeOK
<1>2. \A b \in Builds : /\ status'[b] \in SlotTaking => status[b] \in SlotTaking
                        /\ status'[b] \in Held => status[b] \in Held /\ holder'[b] = holder[b]
  BY <1>1 DEF Stays, Revoked, Marked, SlotTaking
<1> QED  BY <1>2 DEF TakingSlots, HeldBy

(* A claim adds one build to its pipeline and its runner, within the limits. *)
LEMMA ClaimGrowth ==
    ASSUME TypeOK, GrantBinding, NEW b \in Builds, Claimed(b)
    PROVE  /\ \A p \in Pipelines : TakingSlots(p)' =
                IF p = PipelineOf[b] THEN TakingSlots(p) \cup {b} ELSE TakingSlots(p)
           /\ \A r \in Runners : HeldBy(r)' =
                IF r = holder'[b] THEN HeldBy(r) \cup {b} ELSE HeldBy(r)
           /\ \A p \in Pipelines : b \notin TakingSlots(p)
           /\ \A r \in Runners : b \notin HeldBy(r)
<1>1. /\ status[b] = "queued" /\ status'[b] = "assigned"
      /\ \A c \in Builds \ {b} : status'[c] = status[c] /\ holder'[c] = holder[c]
  BY DEF Claimed, Stays
<1>2. ASSUME NEW p \in Pipelines
      PROVE  /\ TakingSlots(p)' = IF p = PipelineOf[b] THEN TakingSlots(p) \cup {b}
                                                       ELSE TakingSlots(p)
             /\ b \notin TakingSlots(p)
  BY <1>1 DEF TakingSlots, SlotTaking
<1>3. ASSUME NEW r \in Runners
      PROVE  /\ HeldBy(r)' = IF r = holder'[b] THEN HeldBy(r) \cup {b} ELSE HeldBy(r)
             /\ b \notin HeldBy(r)
  BY <1>1 DEF HeldBy
<1> QED  BY <1>2, <1>3

(* No transaction takes a pipeline past its max_concurrent or a runner past *)
(* its slots, however the limits are changed meanwhile.                     *)
THEOREM LimitsKept == TableSpec => LimitsRespected
<1> DEFINE Kept ==
        /\ \A p \in Pipelines :
            Cardinality(TakingSlots(p)') > Cardinality(TakingSlots(p)) /\ limit[p] > 0
                => Cardinality(TakingSlots(p)') <= limit[p]
        /\ \A r \in Runners :
            Cardinality(HeldBy(r)') > Cardinality(HeldBy(r))
                => Cardinality(HeldBy(r)') = 1 \/ Cardinality(HeldBy(r)') <= slots[r]
<1>1. ASSUME TypeOK, GrantBinding, [TableNext]_tableVars PROVE Kept
  <2>1. /\ \A p \in Pipelines : /\ Cardinality(TakingSlots(p)) \in Nat
                                /\ Cardinality(TakingSlots(p)') \in Nat
        /\ \A r \in Runners : /\ Cardinality(HeldBy(r)) \in Nat
                              /\ Cardinality(HeldBy(r)') \in Nat
    BY SlotSetsFinite, FS_CardinalityType
  <2>2. CASE issued' = issued
    <3>1. /\ \A p \in Pipelines : TakingSlots(p)' \subseteq TakingSlots(p)
          /\ \A r \in Runners : HeldBy(r)' \subseteq HeldBy(r)
      BY <1>1, <2>2, NoClaimNoGrowth
    <3>2. \A p \in Pipelines : Cardinality(TakingSlots(p)') <= Cardinality(TakingSlots(p))
      BY <3>1, SlotSetsFinite, FS_Subset
    <3>3. \A r \in Runners : Cardinality(HeldBy(r)') <= Cardinality(HeldBy(r))
      BY <3>1, SlotSetsFinite, FS_Subset
    <3> QED  BY <2>1, <3>2, <3>3
  <2>3. ASSUME NEW b \in Builds, Claimed(b) PROVE Kept
    <3>1. PipelineOf[b] \in Pipelines /\ holder'[b] \in Runners
      BY <2>3, TableAssumption DEF Claimed
    <3>2. ASSUME NEW p \in Pipelines, p = PipelineOf[b]
          PROVE  Cardinality(TakingSlots(p)') = Cardinality(TakingSlots(p)) + 1
      <4>1. TakingSlots(p)' = TakingSlots(p) \cup {b} /\ b \notin TakingSlots(p)
        BY <1>1, <2>3, <3>2, ClaimGrowth
      <4> QED  BY <4>1, SlotSetsFinite, FS_AddElement
    <3>3. ASSUME NEW p \in Pipelines, p # PipelineOf[b]
          PROVE  TakingSlots(p)' = TakingSlots(p)
      BY <1>1, <2>3, <3>3, ClaimGrowth
    <3>4. ASSUME NEW r \in Runners, r = holder'[b]
          PROVE  Cardinality(HeldBy(r)') = Cardinality(HeldBy(r)) + 1
      <4>1. HeldBy(r)' = HeldBy(r) \cup {b} /\ b \notin HeldBy(r)
        BY <1>1, <2>3, <3>4, ClaimGrowth
      <4> QED  BY <4>1, SlotSetsFinite, FS_AddElement
    <3>5. ASSUME NEW r \in Runners, r # holder'[b] PROVE HeldBy(r)' = HeldBy(r)
      BY <1>1, <2>3, <3>5, ClaimGrowth
    <3>6. ASSUME NEW p \in Pipelines, limit[p] > 0,
                 Cardinality(TakingSlots(p)') > Cardinality(TakingSlots(p))
          PROVE  Cardinality(TakingSlots(p)') <= limit[p]
      <4>1. p = PipelineOf[b]
        BY <2>1, <3>3, <3>6
      <4>2. Cardinality(TakingSlots(p)) < limit[p]
        BY <2>3, <3>6, <4>1 DEF Claimed, PipelineHasFreeSlot
      <4>3. limit[p] \in Nat
        BY <1>1, TableAssumption DEF TypeOK
      <4> QED  BY <2>1, <3>2, <4>1, <4>2, <4>3
    <3>7. ASSUME NEW r \in Runners, Cardinality(HeldBy(r)') > Cardinality(HeldBy(r))
          PROVE  Cardinality(HeldBy(r)') = 1 \/ Cardinality(HeldBy(r)') <= slots[r]
      <4>1. r = holder'[b]
        BY <2>1, <3>5, <3>7
      <4>2. Cardinality(HeldBy(r)) < IF slots[r] > 1 THEN slots[r] ELSE 1
        BY <2>3, <4>1 DEF Claimed, RunnerHasFreeSlot
      <4>3. slots[r] \in Nat
        BY <1>1, TableAssumption DEF TypeOK
      <4> QED  BY <2>1, <3>4, <4>1, <4>2, <4>3
    <3> QED  BY <3>6, <3>7
  <2>4. issued' = issued \/ \E b \in Builds : Claimed(b)
    BY <1>1, EveryStepMoves
  <2> QED  BY <2>2, <2>3, <2>4
<1>2. TypeOK /\ GrantBinding /\ [TableNext]_tableVars => [Kept]_tableVars
  BY <1>1
<1> QED  BY <1>2, TableTyped, GrantsBound, PTL DEF TableSpec, LimitsRespected
=============================================================================
