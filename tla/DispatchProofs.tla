--------------------------- MODULE DispatchProofs ---------------------------
(***************************************************************************)
(* Theorems about build dispatch, for every number of builds, runners and  *)
(* requests in flight and every combination of features.                   *)
(*                                                                         *)
(* Each safety property speaks of what requests in flight may still do, so *)
(* its inductive invariant does too.  Dispatched below has, besides the    *)
(* types, one part per argument:                                           *)
(*   Shape      what a request may hold at each of its steps;              *)
(*   Selected   what stays true of rows a monitor selected, until it acts; *)
(*   Granted    a grant on its way to an agent, or with an agent, opens    *)
(*              nothing but the build it was issued for;                   *)
(*   OneStart   an answer that lets build commands start is the first one, *)
(*              and the last;                                              *)
(*   OneJob     the commands of a build belong to one agent task.          *)
(* A step that only moves a request on is dealt with by TaskOnly, the      *)
(* table's transactions by RowFacts and TableOnly.                         *)
(***************************************************************************)
EXTENDS Dispatch, BuildTableProofs

(* A build whose commands may have started: no status leads back from here. *)
Past == {"running", "deleted"} \cup Terminal

(* At most one build. *)
Single(B) == \A a, b \in B : a = b

(* What a request holds, apart from its types. *)
Shape(s) ==
    /\ s.kind \in {"claim", "report"} => s.run \in Runners
    /\ s.kind = "report" =>
            /\ s.pc \in {"owner", "rows", "reply"}
            /\ s.goal \in {"running", "succeeded", "failed"}
            /\ Single(s.pick)
            /\ \A x \in s.rows \cup s.cur : x.b \in s.pick /\ x.to = s.goal
    /\ s.kind = "claim" =>
            /\ s.pc \in {"release", "preflight", "take", "reply"}
            /\ Single(s.pick)
    /\ s.kind \notin {"claim", "report"} => s.pc \in {"done", "release", "rows"}
    /\ \A x \in s.rows \cup s.cur : x.to \in {"running", "succeeded"} => s.kind = "report"

(* A row selected to be timed out was running and overdue; it still is, or  *)
(* its build has ended.                                                     *)
Selected(s) ==
    \A x \in s.rows \cup s.cur : x.to = "timed_out" =>
        status[x.b] \in Past /\ (status[x.b] = "running" => aged[x.b])

(* Grant g was issued, and whoever build b is bound to by it is runner r.   *)
Opens(g, b, r) == g > 0 /\ g <= issued /\ (grant[b] = g => holder[b] = r)

(* The grant in the answer to a claim. *)
Granted(s) ==
    s.kind = "claim" /\ s.pc = "reply" => \A b \in s.pick : Opens(s.token, b, s.run)

(* The answer that lets an agent start the commands of a build. *)
Accepted(s) == s.kind = "report" /\ s.pc = "reply" /\ StartsBuild(s)

(* A report of success comes from commands that have ended. *)
Earned(s) ==
    s.kind = "report" /\ s.goal = "succeeded" =>
        \A b \in s.pick : /\ started[b] = 1
                          /\ \A j \in jobs : j.b = b => j.phase # "executing"

OneStart ==
    /\ \A b \in Builds : /\ started[b] <= 1
                         /\ started[b] > 0 => status[b] \in Past
    /\ \A t \in Tasks : Accepted(task[t]) =>
            \A b \in task[t].pick : started[b] = 0 /\ status[b] \in Past
    /\ \A t, u \in Tasks : Accepted(task[t]) /\ Accepted(task[u])
            /\ task[t].pick \cap task[u].pick # {} => t = u

(* The agent task has started the build's commands. *)
Begun(j) == j.phase \in {"executing", "succeeded", "failed"}

OneJob ==
    /\ \A j \in jobs : Begun(j) => started[j.b] = 1
    /\ \A j, k \in jobs : Begun(j) /\ Begun(k) /\ j.b = k.b => j = k

GrantsMatch == \A j \in jobs : Opens(j.cap, j.b, j.run)

Dispatched ==
    /\ DispatchTypeOK
    /\ \A t \in Tasks : /\ Shape(task[t]) /\ Selected(task[t])
                        /\ Granted(task[t]) /\ Earned(task[t])
    /\ OneStart
    /\ OneJob
    /\ GrantsMatch
    /\ SucceededWasExecuted

(* What a request must satisfy to take its place among the others, when the *)
(* table and the agents stay as they are.                                   *)
Fine(s) ==
    /\ s \in TaskRecords
    /\ Shape(s) /\ Selected(s) /\ Granted(s) /\ Earned(s)
    /\ ~Accepted(s)

-----------------------------------------------------------------------------
(* Requests. *)

(* A task with nothing to do is fine. *)
LEMMA IdleFine == Fine(Idle)
<1>1. Idle \in TaskRecords
  BY TableAssumption DEF Idle, TaskRecords
<1> QED  BY <1>1 DEF Idle, Fine, Shape, Selected, Granted, Earned, Accepted, Single

(* A request is fine when its row has been dealt with, unless it is an      *)
(* accepted report that lets a build start.                                 *)
LEMMA SettledFine ==
    ASSUME NEW s \in TaskRecords, Shape(s), Selected(s), Granted(s), Earned(s),
           NEW ok \in BOOLEAN, ok => ~(s.kind = "report" /\ s.goal = "running")
    PROVE  Fine(Settled(s, ok))
<1>1. CASE s.kind = "report"
  <2> DEFINE n == [s EXCEPT !.rows = {}, !.cur = {}, !.pc = "reply",
                            !.reply = IF ok THEN "ok" ELSE "refused"]
  <2>1. Settled(s, ok) = n
    BY <1>1 DEF Settled
  <2>2. n \in TaskRecords
    BY DEF TaskRecords
  <2>3. /\ n.rows = {} /\ n.cur = {} /\ n.pc = "reply" /\ (ok \/ n.reply = "refused")
        /\ n.kind = "report" /\ n.run = s.run /\ n.goal = s.goal /\ n.pick = s.pick
    BY <1>1 DEF TaskRecords
  <2> HIDE DEF n
  <2> QED  BY <1>1, <2>1, <2>2, <2>3
           DEF Fine, Shape, Selected, Granted, Earned, Accepted, StartsBuild
<1>2. CASE s.kind # "report" /\ s.rows = {} /\ s.who = {} /\ s.kind # "claim"
  BY <1>2, IdleFine DEF Settled
<1>3. CASE s.kind # "report" /\ ~(s.rows = {} /\ s.who = {} /\ s.kind # "claim")
  <2> DEFINE n == [s EXCEPT !.cur = {}]
  <2>1. Settled(s, ok) = n
    BY <1>3 DEF Settled
  <2>2. n \in TaskRecords
    BY DEF TaskRecords
  <2>3. /\ n.cur = {} /\ n.rows = s.rows /\ n.kind = s.kind /\ n.pc = s.pc
        /\ n.run = s.run /\ n.pick = s.pick /\ n.token = s.token
    BY DEF TaskRecords
  <2> HIDE DEF n
  <2> QED  BY <1>3, <2>1, <2>2, <2>3
           DEF Fine, Shape, Selected, Granted, Earned, Accepted
<1> QED  BY <1>1, <1>2, <1>3

(* A step that only moves one request on, to a fine one, keeps everything.  *)
LEMMA TaskOnly ==
    ASSUME Dispatched, NEW t \in Tasks, NEW s, Fine(s),
           task' = [task EXCEPT ![t] = s], OnlyTask
    PROVE  Dispatched'
<1> USE DEF OnlyTask, tableVars, rowVars, policyVars, clockVars, agentVars
<1>1. task'[t] = s /\ \A u \in Tasks \ {t} : task'[u] = task[u]
  BY DEF Dispatched, DispatchTypeOK
<1>2. DispatchTypeOK'
  BY DEF Dispatched, DispatchTypeOK, TypeOK, Fine
<1>3. \A u \in Tasks : /\ Shape(task[u])' /\ Selected(task[u])'
                       /\ Granted(task[u])' /\ Earned(task[u])'
  BY <1>1 DEF Dispatched, Fine, Shape, Selected, Granted, Earned, Opens
<1>4. OneStart'
  BY <1>1 DEF Dispatched, OneStart, Fine, Accepted, StartsBuild
<1>5. OneJob' /\ GrantsMatch' /\ SucceededWasExecuted'
  BY DEF Dispatched, OneJob, Begun, GrantsMatch, Opens, SucceededWasExecuted, Executing
<1> QED  BY <1>2, <1>3, <1>4, <1>5 DEF Dispatched

(* The rows of a selection, all to go to the same status. *)
LEMMA SelectedRows ==
    ASSUME NEW B \in SUBSET Builds, NEW to \in TransitionTargets
    PROVE  \A x \in {[b |-> b, to |-> to] : b \in B} : x \in Rows /\ x.b \in B /\ x.to = to
BY DEF Rows

-----------------------------------------------------------------------------
(* The steps of a request that write nothing. *)

(* SELECT of transition_build: the row read is one of those selected. *)
LEMMA LoadRowStep == ASSUME Dispatched, NEW t \in Tasks, LoadRow(t) PROVE Dispatched'
<1> DEFINE s == task[t]
<1>0. /\ s \in TaskRecords /\ Shape(s) /\ Selected(s) /\ Granted(s) /\ Earned(s)
      /\ s.cur = {} /\ s.pc \in {"release", "rows"} /\ OnlyTask
  BY DEF Dispatched, DispatchTypeOK, LoadRow
<1>1. PICK row \in s.rows :
        LET rest == [s EXCEPT !.rows = @ \ {row}]
        IN  task' = [task EXCEPT ![t] =
                IF CanTransition(status[row.b], row.to)
                THEN [rest EXCEPT !.cur =
                        {[b |-> row.b, to |-> row.to, from |-> status[row.b]]}]
                ELSE Settled(rest, FALSE)]
  BY DEF LoadRow
<1> DEFINE rest == [s EXCEPT !.rows = @ \ {row}]
           read == [b |-> row.b, to |-> row.to, from |-> status[row.b]]
           next == [rest EXCEPT !.cur = {read}]
<1>2. row \in Rows /\ read \in Reads
  <2>1. row \in Rows
    BY <1>0 DEF TaskRecords
  <2>2. row.b \in Builds /\ row.to \in TransitionTargets
    BY <2>1 DEF Rows
  <2>3. status[row.b] \in RowStates
    BY <2>2 DEF Dispatched, DispatchTypeOK, TypeOK
  <2> QED  BY <2>1, <2>2, <2>3 DEF Reads
<1>3. rest \in TaskRecords /\ next \in TaskRecords
  BY <1>0, <1>2 DEF TaskRecords
<1>4. /\ rest.kind = s.kind /\ rest.pc = s.pc /\ rest.run = s.run /\ rest.pick = s.pick
      /\ rest.goal = s.goal /\ rest.token = s.token /\ rest.cur = {}
      /\ rest.rows = s.rows \ {row}
      /\ next.kind = s.kind /\ next.pc = s.pc /\ next.run = s.run /\ next.pick = s.pick
      /\ next.goal = s.goal /\ next.token = s.token /\ next.cur = {read}
      /\ next.rows = s.rows \ {row}
      /\ read.b = row.b /\ read.to = row.to
  BY <1>0 DEF TaskRecords
<1>5. task' = [task EXCEPT ![t] = IF CanTransition(status[row.b], row.to)
                                  THEN next ELSE Settled(rest, FALSE)]
  BY <1>1
<1> HIDE DEF s, rest, read, next
<1>6. Shape(rest) /\ Selected(rest) /\ Granted(rest) /\ Earned(rest)
  BY <1>0, <1>4 DEF Shape, Selected, Granted, Earned
<1>7. Fine(Settled(rest, FALSE))
  BY <1>3, <1>6, SettledFine
<1>8. Fine(next)
  <2>1. Shape(next)
    BY <1>0, <1>4 DEF Shape
  <2>2. Selected(next)
    BY <1>0, <1>4 DEF Selected
  <2>3. Granted(next) /\ Earned(next) /\ ~Accepted(next)
    BY <1>0, <1>4 DEF Granted, Earned, Accepted
  <2> QED  BY <1>3, <2>1, <2>2, <2>3 DEF Fine
<1>9. PICK n : Fine(n) /\ task' = [task EXCEPT ![t] = n]
  BY <1>5, <1>7, <1>8
<1> QED  BY <1>0, <1>9, TaskOnly

(* The UPDATE of transition_build that changes no row. *)
LEMMA LoseRaceStep == ASSUME Dispatched, NEW t \in Tasks, LoseRace(t) PROVE Dispatched'
<1>1. /\ task[t] \in TaskRecords
      /\ Shape(task[t]) /\ Selected(task[t]) /\ Granted(task[t]) /\ Earned(task[t])
  BY DEF Dispatched, DispatchTypeOK
<1>2. Fine(Settled(task[t], FALSE))
  BY <1>1, SettledFine
<1>3. task' = [task EXCEPT ![t] = Settled(@, FALSE)] /\ OnlyTask
  BY DEF LoseRace
<1>4. PICK n : Fine(n) /\ task' = [task EXCEPT ![t] = n]
  BY <1>2, <1>3
<1> QED  BY <1>3, <1>4, TaskOnly

(* release_runner_builds_except: what a runner holds is to fail or to be    *)
(* queued again.                                                            *)
LEMMA ReleaseSelectStep ==
    ASSUME Dispatched, NEW t \in Tasks, ReleaseSelect(t) PROVE Dispatched'
<1> DEFINE s == task[t]
<1>0. /\ s \in TaskRecords /\ Shape(s) /\ s.pc = "release" /\ s.rows = {} /\ s.cur = {}
      /\ OnlyTask
  BY DEF Dispatched, DispatchTypeOK, ReleaseSelect
<1>1. PICK r \in s.who :
        LET lost == {[b |-> b, to |-> IF status[b] = "running" THEN "failed" ELSE "queued"] :
                        b \in HeldBy(r) \ s.active}
            rest == [s EXCEPT !.who = @ \ {r}, !.rows = lost]
        IN  task' = [task EXCEPT ![t] = IF lost = {} THEN Settled(rest, TRUE) ELSE rest]
  BY DEF ReleaseSelect
<1> DEFINE lost == {[b |-> b, to |-> IF status[b] = "running" THEN "failed" ELSE "queued"] :
                        b \in HeldBy(r) \ s.active}
           rest == [s EXCEPT !.who = @ \ {r}, !.rows = lost]
<1>2. /\ lost \subseteq Rows
      /\ \A x \in lost : x.to \in {"failed", "queued"}
  <2>1. ASSUME NEW x \in lost PROVE x \in Rows /\ x.to \in {"failed", "queued"}
    <3>1. PICK b \in Builds :
            x = [b |-> b, to |-> IF status[b] = "running" THEN "failed" ELSE "queued"]
      BY <2>1 DEF HeldBy
    <3> DEFINE to == IF status[b] = "running" THEN "failed" ELSE "queued"
    <3>2. to \in {"failed", "queued"}
      OBVIOUS
    <3>3. x = [b |-> b, to |-> to]
      BY <3>1
    <3> HIDE DEF to
    <3> QED  BY <3>1, <3>2, <3>3 DEF Rows, TransitionTargets, BuildStatuses
  <2> QED  BY <2>1
<1>3. task' = [task EXCEPT ![t] = IF lost = {} THEN Settled(rest, TRUE) ELSE rest]
  BY <1>1
<1> HIDE DEF lost
<1>4. rest \in TaskRecords
  BY <1>0, <1>2 DEF TaskRecords
<1>5. /\ rest.kind = s.kind /\ rest.pc = "release" /\ rest.run = s.run /\ rest.pick = s.pick
      /\ rest.cur = {} /\ rest.rows = lost
  BY <1>0 DEF TaskRecords
<1> HIDE DEF s, rest
<1>6. rest.kind # "report"
  BY <1>0, <1>5 DEF Shape
<1>7. Shape(rest) /\ Selected(rest) /\ Granted(rest) /\ Earned(rest) /\ ~Accepted(rest)
  BY <1>0, <1>2, <1>5, <1>6 DEF Shape, Selected, Granted, Earned, Accepted
<1>8. Fine(rest) /\ Fine(Settled(rest, TRUE))
  BY <1>4, <1>6, <1>7, SettledFine DEF Fine
<1>9. PICK n : Fine(n) /\ task' = [task EXCEPT ![t] = n]
  BY <1>3, <1>8
<1> QED  BY <1>0, <1>9, TaskOnly

(* The SELECTs of a claim: what its credentials block is to fail, and the   *)
(* oldest eligible build is picked, or none.                                *)
LEMMA PreflightSelectStep ==
    ASSUME Dispatched, NEW t \in Tasks, PreflightSelect(t) PROVE Dispatched'
<1> DEFINE s == task[t]
           B == {c \in Builds : /\ status[c] = "queued"
                                /\ repo[c] \in blocked \cap known
                                /\ source[ProjectOf[c]] = repo[c]}
           rows == {[b |-> b, to |-> "failed"] : b \in B}
           next == [s EXCEPT !.pc = "preflight", !.rows = rows]
<1>0. /\ s \in TaskRecords /\ Shape(s) /\ s.kind = "claim" /\ s.cur = {}
      /\ OnlyTask
  BY DEF Dispatched, DispatchTypeOK, PreflightSelect
<1>1. task' = [task EXCEPT ![t] = next]
  BY <1>0 DEF PreflightSelect, Dispatched, DispatchTypeOK, TaskRecords
<1>2. rows \subseteq Rows /\ \A x \in rows : x.to = "failed"
  <2>1. B \in SUBSET Builds /\ "failed" \in TransitionTargets
    BY DEF TransitionTargets, BuildStatuses
  <2> HIDE DEF B
  <2> QED  BY <2>1, SelectedRows
<1> HIDE DEF rows
<1>3. next \in TaskRecords
  BY <1>0, <1>2 DEF TaskRecords
<1>4. /\ next.kind = "claim" /\ next.pc = "preflight" /\ next.run = s.run
      /\ next.pick = s.pick /\ next.cur = {} /\ next.rows = rows
  BY <1>0 DEF TaskRecords
<1> HIDE DEF s, next
<1>5. Fine(next)
  BY <1>0, <1>2, <1>3, <1>4 DEF Fine, Shape, Selected, Granted, Earned, Accepted
<1> QED  BY <1>0, <1>1, <1>5, TaskOnly

(* next_eligible_build picks one build at most: the queue is ordered. *)
LEMMA SelectBuildStep ==
    ASSUME Dispatched, NEW t \in Tasks, SelectBuild(t) PROVE Dispatched'
<1> DEFINE s == task[t]
           found == {b \in Builds : Eligible(b, s.run)}
           oldest == {b \in found : \A c \in found : b <= c}
           next == [s EXCEPT !.pick = oldest,
                             !.pc = IF found = {} THEN "reply" ELSE "take",
                             !.reply = IF found = {} THEN "nojob" ELSE "none"]
<1>0. s \in TaskRecords /\ Shape(s) /\ s.pc = "preflight" /\ s.rows = {} /\ OnlyTask
  BY DEF Dispatched, DispatchTypeOK, SelectBuild
<1>1. task' = [task EXCEPT ![t] = next]
  BY <1>0 DEF SelectBuild, Dispatched, DispatchTypeOK, TaskRecords
<1>2. s.kind = "claim"
  BY <1>0 DEF Shape, TaskRecords
<1>3. oldest \in SUBSET Builds /\ Single(oldest) /\ (found = {} => oldest = {})
  <2>1. \A a, b \in oldest : a <= b /\ b <= a /\ a \in Nat /\ b \in Nat
    BY TableAssumption
  <2> QED  BY <2>1 DEF Single
<1> HIDE DEF oldest, found
<1>4. next \in TaskRecords
  BY <1>0, <1>3 DEF TaskRecords
<1>5. /\ next.kind = "claim" /\ next.pc = (IF found = {} THEN "reply" ELSE "take")
      /\ next.run = s.run /\ next.pick = oldest /\ next.cur = s.cur /\ next.rows = {}
  BY <1>0, <1>2 DEF TaskRecords
<1>6. Selected(s)
  BY DEF Dispatched
<1> HIDE DEF s, next
<1>7. Fine(next)
  BY <1>0, <1>2, <1>3, <1>4, <1>5, <1>6 DEF Fine, Shape, Selected, Granted, Earned, Accepted
<1> QED  BY <1>0, <1>1, <1>7, TaskOnly

(* A claim that finds its build taken answers with no job. *)
LEMMA MissBuildStep == ASSUME Dispatched, NEW t \in Tasks, MissBuild(t) PROVE Dispatched'
<1> DEFINE s == task[t]
           next == [s EXCEPT !.pc = "reply", !.reply = "nojob", !.pick = {}]
<1>0. /\ s \in TaskRecords /\ Shape(s) /\ Selected(s)
      /\ s.pc = "take" /\ OnlyTask
  BY DEF Dispatched, DispatchTypeOK, MissBuild
<1>1. task' = [task EXCEPT ![t] = next]
  BY <1>0 DEF MissBuild, Dispatched, DispatchTypeOK, TaskRecords
<1>2. s.kind = "claim"
  BY <1>0 DEF Shape, TaskRecords
<1>3. next \in TaskRecords
  BY <1>0 DEF TaskRecords
<1>4. /\ next.kind = "claim" /\ next.pc = "reply" /\ next.run = s.run
      /\ next.pick = {} /\ next.cur = s.cur /\ next.rows = s.rows
  BY <1>0, <1>2 DEF TaskRecords
<1> HIDE DEF s, next
<1>5. Fine(next)
  BY <1>0, <1>2, <1>3, <1>4 DEF Fine, Shape, Single, Selected, Granted, Earned, Accepted
<1> QED  BY <1>0, <1>1, <1>5, TaskOnly

(* update_job_status: the build must be the reporting runner's. *)
LEMMA CheckOwnerStep == ASSUME Dispatched, NEW t \in Tasks, CheckOwner(t) PROVE Dispatched'
<1> DEFINE s == task[t]
<1>0. /\ s \in TaskRecords /\ Shape(s) /\ Selected(s) /\ Granted(s) /\ Earned(s)
      /\ s.pc = "owner" /\ OnlyTask
  BY DEF Dispatched, DispatchTypeOK, CheckOwner
<1>1. PICK b \in s.pick :
        task' = [task EXCEPT ![t] =
            IF holder[b] = s.run
            THEN [s EXCEPT !.pc = "rows", !.rows = {[b |-> b, to |-> s.goal]}]
            ELSE Settled(s, FALSE)]
  BY <1>0 DEF CheckOwner, Dispatched, DispatchTypeOK
<1> DEFINE row == [b |-> b, to |-> s.goal]
           next == [s EXCEPT !.pc = "rows", !.rows = {row}]
<1>2. s.kind = "report"
  BY <1>0 DEF Shape, TaskRecords
<1>3. row \in Rows /\ row.b = b /\ row.to = s.goal
  BY <1>0, <1>2 DEF Shape, TaskRecords, Rows, TransitionTargets
<1>4. task' = [task EXCEPT ![t] = IF holder[b] = s.run THEN next ELSE Settled(s, FALSE)]
  BY <1>1
<1> HIDE DEF row
<1>5. next \in TaskRecords
  BY <1>0, <1>3 DEF TaskRecords
<1>6. /\ next.kind = "report" /\ next.pc = "rows" /\ next.run = s.run /\ next.pick = s.pick
      /\ next.goal = s.goal /\ next.cur = s.cur /\ next.rows = {row}
  BY <1>0, <1>2 DEF TaskRecords
<1> HIDE DEF s, next
<1>7. Fine(next)
  BY <1>0, <1>2, <1>3, <1>5, <1>6 DEF Fine, Shape, Selected, Granted, Earned, Accepted
<1>8. Fine(Settled(s, FALSE))
  BY <1>0, SettledFine
<1>9. PICK n : Fine(n) /\ task' = [task EXCEPT ![t] = n]
  BY <1>4, <1>7, <1>8
<1> QED  BY <1>0, <1>9, TaskOnly

(* A task that is dropped. *)
LEMMA DropOrphanStep == ASSUME Dispatched, NEW t \in Tasks, DropOrphan(t) PROVE Dispatched'
BY IdleFine, TaskOnly DEF DropOrphan

(* A new claim asks for nothing yet. *)
LEMMA SendClaimStep ==
    ASSUME Dispatched, NEW t \in Workers, NEW r \in Runners, SendClaim(t, r)
    PROVE  Dispatched'
<1> DEFINE next == [Request("claim", r) EXCEPT !.pc = "release", !.active = active[r],
                                               !.who = {r}]
<1>1. t \in Tasks /\ task' = [task EXCEPT ![t] = next] /\ OnlyTask
  BY DEF SendClaim, Tasks
<1>2. active[r] \in SUBSET Builds
  BY DEF Dispatched, DispatchTypeOK
<1>3. next \in TaskRecords
  BY <1>2, IdleFine DEF Fine, Request, TaskRecords
<1>4. /\ next.kind = "claim" /\ next.pc = "release" /\ next.run = r
      /\ next.pick = {} /\ next.cur = {} /\ next.rows = {}
  BY DEF Request, Idle
<1> HIDE DEF next
<1>5. Fine(next)
  BY <1>3, <1>4 DEF Fine, Shape, Single, Selected, Granted, Earned, Accepted
<1> QED  BY <1>1, <1>5, TaskOnly

(* A new report: one of success comes from a job whose commands ended. *)
LEMMA SendReportStep ==
    ASSUME Dispatched, NEW t \in Workers, NEW j \in jobs, SendReport(t, j)
    PROVE  Dispatched'
<1> DEFINE next == [Request("report", j.run) EXCEPT !.pc = "owner", !.pick = {j.b},
                                               !.goal = DueReport(j), !.token = j.cap]
<1>1. /\ t \in Tasks /\ task' = [task EXCEPT ![t] = next] /\ OnlyTask
      /\ j.phase \in {"starting", "succeeded", "failed"}
  BY DEF SendReport, Tasks
<1>2. j \in Jobs
  BY DEF Dispatched, DispatchTypeOK
<1>3. DueReport(j) \in {"running", "succeeded", "failed"}
  BY <1>1 DEF DueReport
<1>4. next \in TaskRecords
  BY <1>2, <1>3, IdleFine
     DEF Fine, Request, TaskRecords, Jobs, TransitionTargets, BuildStatuses
<1>5. /\ next.kind = "report" /\ next.pc = "owner" /\ next.run = j.run
      /\ next.pick = {j.b} /\ next.cur = {} /\ next.rows = {} /\ next.goal = DueReport(j)
  BY DEF Request, Idle
<1> HIDE DEF next
<1>6. Earned(next)
  <2>1. SUFFICES ASSUME next.goal = "succeeded"
                 PROVE  /\ started[j.b] = 1
                        /\ \A k \in jobs : k.b = j.b => k.phase # "executing"
    BY <1>5 DEF Earned
  <2>2. j.phase = "succeeded"
    BY <1>1, <1>5, <2>1 DEF DueReport
  <2> QED  BY <2>2 DEF Dispatched, OneJob, Begun
<1>7. Fine(next)
  BY <1>2, <1>3, <1>4, <1>5, <1>6
     DEF Fine, Shape, Single, Selected, Granted, Accepted, Jobs
<1> QED  BY <1>1, <1>7, TaskOnly

(* A monitor or a cancellation begins with the rows it selected: those to   *)
(* be timed out are running and overdue.                                    *)
LEMMA BeginStep ==
    ASSUME Dispatched, NEW t \in Tasks,
           NEW kind \in {"requeue", "overdue", "approvals", "cancel"},
           NEW B \in SUBSET Builds, NEW to \in TransitionTargets \ {"running", "succeeded"},
           to = "timed_out" => \A b \in B : status[b] = "running" /\ aged[b],
           Begin(t, kind, {[b |-> b, to |-> to] : b \in B})
    PROVE  Dispatched'
<1> DEFINE rows == {[b |-> b, to |-> to] : b \in B}
           next == [Idle EXCEPT !.kind = kind, !.pc = "rows", !.rows = rows]
<1>1. task' = [task EXCEPT ![t] = next] /\ OnlyTask
  BY DEF Begin
<1>2. \A x \in rows : x \in Rows /\ x.b \in B /\ x.to = to
  BY SelectedRows
<1> HIDE DEF rows
<1>3. next \in TaskRecords
  BY <1>2, IdleFine DEF Fine, TaskRecords
<1>4. next.kind = kind /\ next.pc = "rows" /\ next.cur = {} /\ next.rows = rows
  BY DEF Idle
<1> HIDE DEF next
<1>5. Fine(next)
  BY <1>2, <1>3, <1>4 DEF Fine, Shape, Selected, Granted, Earned, Accepted, Past
<1> QED  BY <1>1, <1>5, TaskOnly

(* The four selections of the monitors and of cancel_build. *)
LEMMA SelectionSteps ==
    ASSUME Dispatched,
           \/ RequeueExpiredClaims \/ TimeOutOverdueBuilds \/ ExpirePendingApprovals
           \/ \E t \in Workers, b \in Builds : CancelBuild(t, b)
    PROVE  Dispatched'
<1>0. /\ {"queued", "timed_out", "canceled"} \subseteq TransitionTargets \ {"running", "succeeded"}
      /\ "lease_monitor" \in Tasks /\ "timeout_monitor" \in Tasks /\ Workers \subseteq Tasks
  BY DEF TransitionTargets, BuildStatuses, Tasks, Monitors
<1>1. CASE RequeueExpiredClaims
  <2> DEFINE B == {c \in Builds : status[c] \in {"assigned", "scheduled"} /\ aged[c]}
  <2>1. B \in SUBSET Builds /\ Begin("lease_monitor", "requeue", {[b |-> b, to |-> "queued"] : b \in B})
    BY <1>1 DEF RequeueExpiredClaims
  <2> HIDE DEF B
  <2> QED  BY <1>0, <2>1, BeginStep
<1>2. CASE TimeOutOverdueBuilds
  <2> DEFINE B == {c \in Builds : status[c] = "running" /\ aged[c]}
  <2>1. /\ B \in SUBSET Builds /\ \A b \in B : status[b] = "running" /\ aged[b]
        /\ Begin("timeout_monitor", "overdue", {[b |-> b, to |-> "timed_out"] : b \in B})
    BY <1>2 DEF TimeOutOverdueBuilds
  <2> HIDE DEF B
  <2> QED  BY <1>0, <2>1, BeginStep
<1>3. CASE ExpirePendingApprovals
  <2> DEFINE B == {c \in Builds : /\ status[c] = "queued" /\ approval[c] = "pending"
                                  /\ aged[c]}
  <2>1. B \in SUBSET Builds /\ Begin("timeout_monitor", "approvals", {[b |-> b, to |-> "canceled"] : b \in B})
    BY <1>3 DEF ExpirePendingApprovals
  <2> HIDE DEF B
  <2> QED  BY <1>0, <2>1, BeginStep
<1>4. ASSUME NEW t \in Workers, NEW b \in Builds, CancelBuild(t, b) PROVE Dispatched'
  <2>1. Begin(t, "cancel", {[b |-> b, to |-> "canceled"]})
    BY <1>4 DEF CancelBuild
  <2>2. {[b |-> b, to |-> "canceled"]} = {[b |-> c, to |-> "canceled"] : c \in {b}}
    OBVIOUS
  <2>3. Begin(t, "cancel", {[b |-> c, to |-> "canceled"] : c \in {b}})
    BY <2>1, <2>2
  <2> QED  BY <1>0, <2>3, BeginStep
<1> QED  BY <1>1, <1>2, <1>3, <1>4

(* fail_builds_of_lost_runners begins with the runners. *)
LEMMA LostRunnersStep == ASSUME Dispatched, FailBuildsOfLostRunners PROVE Dispatched'
<1> DEFINE lost == {r \in Runners : stale[r] /\ HeldBy(r) # {}}
           next == [Idle EXCEPT !.kind = "lost", !.pc = "release", !.who = lost]
<1>1. /\ "heartbeat_monitor" \in Tasks
      /\ task' = [task EXCEPT !["heartbeat_monitor"] = next] /\ OnlyTask
  BY DEF FailBuildsOfLostRunners, Tasks, Monitors
<1>2. lost \in SUBSET Runners
  OBVIOUS
<1> HIDE DEF lost
<1>3. next \in TaskRecords
  BY <1>2, IdleFine DEF Fine, TaskRecords
<1>4. next.kind = "lost" /\ next.pc = "release" /\ next.cur = {} /\ next.rows = {}
  BY DEF Idle
<1> HIDE DEF next
<1>5. Fine(next)
  BY <1>3, <1>4 DEF Fine, Shape, Selected, Granted, Earned, Accepted
<1> QED  BY <1>1, <1>5, TaskOnly

-----------------------------------------------------------------------------
(* The table's transactions. *)

(* What every transaction leaves true of a row: a build that may have       *)
(* started stays so and never becomes running again; a grant opens nothing  *)
(* it did not open before.                                                  *)
LEMMA RowFacts ==
    ASSUME TypeOK, [TableNext]_tableVars
    PROVE  \A b \in Builds :
            /\ status[b] \in Past => status'[b] \in Past
            /\ status[b] \in Past /\ status'[b] = "running" =>
                    status[b] = "running" /\ approval'[b] = approval[b]
            /\ \A g \in Nat, r \in Runners : Opens(g, b, r) => Opens(g, b, r)'
<1> SUFFICES ASSUME NEW b \in Builds
             PROVE  /\ status[b] \in Past => status'[b] \in Past
                    /\ status[b] \in Past /\ status'[b] = "running" =>
                            status[b] = "running" /\ approval'[b] = approval[b]
                    /\ \A g \in Nat, r \in Runners : Opens(g, b, r) => Opens(g, b, r)'
  OBVIOUS
<1> USE DEF BuildStatuses, Terminal, Held, RowStates, Unfinished
<1>1. Moves(b) /\ ApprovalMoves(b)
  BY EveryStepMoves, EveryStepApproves
<1>2. issued \in Nat /\ issued' >= issued /\ issued' \in Nat
  <2>1. CASE issued' = issued
    BY <2>1 DEF TypeOK
  <2>2. ASSUME NEW c \in Builds, Claimed(c) PROVE issued \in Nat /\ issued' = issued + 1
    BY <2>2 DEF Claimed, TypeOK
  <2> QED  BY <2>1, <2>2, EveryStepMoves
<1>3. grant[b] \in Nat
  BY DEF TypeOK
<1>4. /\ status[b] \in Past => status'[b] \in Past
      /\ status[b] \in Past /\ status'[b] = "running" =>
                            status[b] = "running" /\ approval'[b] = approval[b]
  BY <1>1 DEF Moves, Stays, Revoked, Marked, Claimed, ApprovalMoves, Past
<1>5. \/ grant'[b] = grant[b] /\ holder'[b] = holder[b]
      \/ grant'[b] = 0
      \/ grant'[b] = issued + 1
  BY <1>1 DEF Moves, Stays, Revoked, Marked, Claimed
<1>6. ASSUME NEW g \in Nat, NEW r \in Runners, Opens(g, b, r) PROVE Opens(g, b, r)'
  BY <1>2, <1>3, <1>5, <1>6 DEF Opens
<1> QED  BY <1>4, <1>6

(* What a transaction leaves true of requests and agents. *)
LEMMA TablePieces ==
    ASSUME Dispatched, [TableNext]_tableVars, Touch, UNCHANGED agentVars
    PROVE  /\ TypeOK' /\ aged' \in [Builds -> BOOLEAN]
           /\ \A s \in TaskRecords : /\ Selected(s) => Selected(s)'
                                     /\ Shape(s) /\ Granted(s) => Granted(s)'
                                     /\ Earned(s) => Earned(s)'
           /\ OneJob' /\ GrantsMatch'
           /\ \A b \in Builds : started'[b] <= 1 /\ (started'[b] > 0 => status'[b] \in Past)
           /\ \A t \in Tasks : Accepted(task[t]) =>
                    \A b \in task[t].pick : started'[b] = 0 /\ status'[b] \in Past
<1>1. TypeOK /\ TypeOK'
  BY TypeStep DEF Dispatched, DispatchTypeOK
<1>2. aged' \in [Builds -> BOOLEAN]
  BY DEF Touch, Dispatched, DispatchTypeOK
<1>3. ASSUME NEW s \in TaskRecords, Selected(s) PROVE Selected(s)'
  <2>1. ASSUME NEW x \in s.rows \cup s.cur, x.to = "timed_out"
        PROVE  status'[x.b] \in Past /\ (status'[x.b] = "running" => aged'[x.b])
    <3>1. x.b \in Builds
      BY DEF TaskRecords, Rows, Reads
    <3>2. status[x.b] \in Past /\ (status[x.b] = "running" => aged[x.b])
      BY <1>3, <2>1 DEF Selected
    <3> QED  BY <1>1, <3>1, <3>2, RowFacts DEF Touch
  <2> QED  BY <2>1 DEF Selected
<1>4. ASSUME NEW s \in TaskRecords, Shape(s), Granted(s) PROVE Granted(s)'
  <2>1. s.token \in Nat /\ s.pick \in SUBSET Builds
    BY DEF TaskRecords
  <2> QED  BY <1>1, <1>4, <2>1, RowFacts DEF Granted, Shape
<1>5. ASSUME NEW s \in TaskRecords, Earned(s) PROVE Earned(s)'
  BY <1>5 DEF Earned, agentVars
<1>6. OneJob'
  BY DEF OneJob, Begun, Dispatched, agentVars
<1>7. GrantsMatch'
  <2>1. \A j \in jobs : j.cap \in Nat /\ j.b \in Builds /\ j.run \in Runners
    BY DEF Dispatched, DispatchTypeOK, Jobs
  <2>2. jobs' = jobs
    BY DEF agentVars
  <2> QED  BY <1>1, <2>1, <2>2, RowFacts DEF GrantsMatch, Dispatched
<1>8. /\ \A b \in Builds : started'[b] <= 1 /\ (started'[b] > 0 => status'[b] \in Past)
      /\ \A t \in Tasks : Accepted(task[t]) =>
                    \A b \in task[t].pick : started'[b] = 0 /\ status'[b] \in Past
  <2>1. started' = started
    BY DEF agentVars
  <2>2. \A t \in Tasks : task[t].pick \in SUBSET Builds
    BY DEF Dispatched, DispatchTypeOK, TaskRecords
  <2> QED  BY <1>1, <2>1, <2>2, RowFacts DEF Dispatched, OneStart
<1> QED  BY <1>1, <1>2, <1>3, <1>4, <1>5, <1>6, <1>7, <1>8

(* No build becomes succeeded or timed out. *)
Quiet ==
    \A b \in Builds : \A s \in {"succeeded", "timed_out"} : status'[b] = s => status[b] = s

(* ... so every success stays one that was executed. *)
LEMMA QuietSuccess ==
    ASSUME SucceededWasExecuted, Quiet, UNCHANGED agentVars PROVE SucceededWasExecuted'
BY DEF Quiet, SucceededWasExecuted, Executing, agentVars

(* A transaction keeps everything, whichever requests it drops or moves on  *)
(* to fine ones, if it marks nothing succeeded that was not executed.       *)
LEMMA TableOnly ==
    ASSUME Dispatched, [TableNext]_tableVars, Touch, UNCHANGED agentVars,
           SucceededWasExecuted',
           stale' \in [Runners -> BOOLEAN], settled' \in BOOLEAN,
           task' \in [Tasks -> TaskRecords],
           \A t \in Tasks : task'[t] = task[t] \/ Fine(task'[t])
    PROVE  Dispatched'
<1>1. DispatchTypeOK'
  BY TablePieces DEF Dispatched, DispatchTypeOK, agentVars
<1>2. ASSUME NEW t \in Tasks
      PROVE  Shape(task[t])' /\ Selected(task[t])' /\ Granted(task[t])' /\ Earned(task[t])'
  <2> DEFINE s == task'[t]
  <2>1. s \in TaskRecords
    BY DEF TaskRecords
  <2>2. Shape(s) /\ Selected(s) /\ Granted(s) /\ Earned(s)
    BY DEF Dispatched, Fine
  <2>3. Shape(task[t])'
    BY <2>2 DEF Shape
  <2>4. Selected(task[t])' /\ Granted(task[t])' /\ Earned(task[t])'
    BY <2>1, <2>2, TablePieces DEF Selected, Granted, Opens, Earned
  <2> QED  BY <2>3, <2>4
<1>3. OneStart'
  <2>1. \A t \in Tasks : Accepted(task'[t]) => task'[t] = task[t]
    BY DEF Fine
  <2> QED  BY <2>1, TablePieces DEF OneStart, Accepted, StartsBuild, Dispatched
<1> QED  BY <1>1, <1>2, <1>3, TablePieces DEF Dispatched

(* What the statement of OnlyOverdueTimedOut says of one step. *)
OverdueOnly ==
    \A b \in Builds : status[b] # "timed_out" /\ status'[b] = "timed_out"
        => status[b] = "running" /\ aged[b]

(* One step of dispatch: everything is kept, and the table takes a step. *)
Advances == Dispatched' /\ [TableNext]_tableVars /\ OverdueOnly

(* Every transaction but transition_build is quiet. *)
LEMMA QuietSteps ==
    ASSUME TypeOK,
           \/ PolicyStep
           \/ \E b \in Builds, r \in Repositories, hold, prev \in BOOLEAN :
                    InsertBuild(b, r, hold, prev)
           \/ \E b \in Builds : TransitionBuild(b, status[b], "expired")
           \/ \E b \in Builds, r \in Runners : ClaimBuild(b, r)
           \/ \E b \in Builds : FailCredentialBlocked(b) \/ DeleteBuild(b)
           \/ \E b \in Builds, decision \in {"approved", "rejected"} :
                    RecordApproval(b, decision)
    PROVE  Quiet
<1> USE DEF Quiet, TypeOK, EndRows, MarkRows
<1>1. CASE PolicyStep
  <2>1. CASE UNCHANGED rowVars
    BY <2>1 DEF rowVars
  <2>2. ASSUME NEW p \in Projects, NEW r \in Repositories, ChangeSource(p, r) PROVE Quiet
    BY <2>2 DEF ChangeSource
  <2>3. ASSUME NEW R \in SUBSET Repositories, RemoveRepositories(R) PROVE Quiet
    BY <2>3 DEF RemoveRepositories
  <2>4. CASE AcquireBarrier \/ ReloadPending
    BY <2>4 DEF AcquireBarrier, ReloadPending
  <2> QED  BY <1>1, <2>1, <2>2, <2>3, <2>4
           DEF PolicyStep, LiftBarrier, SetPaused, SetIncident, UpdatePipeline, UpdateRunner
<1>2. ASSUME NEW b \in Builds, NEW r \in Repositories, NEW hold \in BOOLEAN,
             NEW prev \in BOOLEAN, InsertBuild(b, r, hold, prev)
      PROVE  Quiet
  BY <1>2 DEF InsertBuild
<1>3. ASSUME NEW b \in Builds, TransitionBuild(b, status[b], "expired") PROVE Quiet
  BY <1>3 DEF TransitionBuild, Terminal
<1>4. ASSUME NEW b \in Builds, NEW r \in Runners, ClaimBuild(b, r) PROVE Quiet
  BY <1>4 DEF ClaimBuild
<1>5. ASSUME NEW b \in Builds, FailCredentialBlocked(b) \/ DeleteBuild(b) PROVE Quiet
  BY <1>5 DEF FailCredentialBlocked, DeleteBuild
<1>6. ASSUME NEW b \in Builds, NEW decision \in {"approved", "rejected"},
             RecordApproval(b, decision)
      PROVE  Quiet
  BY <1>6 DEF RecordApproval
<1> QED  BY <1>1, <1>2, <1>3, <1>4, <1>5, <1>6

(* A quiet transaction beside which nothing happens. *)
LEMMA UserSteps ==
    ASSUME Dispatched,
           \/ \E b \in Builds : SubmitBuild(b) \/ DecideApproval(b) \/ CleanUpBuild(b)
           \/ Administer
    PROVE  Advances
<1>1. TypeOK
  BY DEF Dispatched, DispatchTypeOK
<1>2. OnlyTable /\ UNCHANGED task
  BY DEF SubmitBuild, DecideApproval, CleanUpBuild, Administer
<1>3. TableNext /\ Quiet
  <2>1. ASSUME NEW b \in Builds, SubmitBuild(b) PROVE TableNext /\ Quiet
    BY <1>1, <2>1, QuietSteps DEF SubmitBuild, TableNext, BuildStep
  <2>2. ASSUME NEW b \in Builds, DecideApproval(b) PROVE TableNext /\ Quiet
    BY <1>1, <2>2, QuietSteps DEF DecideApproval, TableNext, BuildStep
  <2>3. ASSUME NEW b \in Builds, CleanUpBuild(b) PROVE TableNext /\ Quiet
    <3>1. "expired" \in TransitionTargets
      BY DEF TransitionTargets, BuildStatuses
    <3> QED  BY <1>1, <2>3, <3>1, QuietSteps DEF CleanUpBuild, TableNext, BuildStep
  <2>4. CASE Administer
    <3>1. PolicyStep
      BY <2>4 DEF Administer, PolicyStep
    <3> QED  BY <1>1, <3>1, QuietSteps DEF TableNext
  <2> QED  BY <2>1, <2>2, <2>3, <2>4
<1>4. Dispatched'
  BY <1>2, <1>3, QuietSuccess, TableOnly DEF OnlyTable, Dispatched, DispatchTypeOK
<1> QED  BY <1>3, <1>4 DEF Advances, Quiet, OverdueOnly

(* Restarting the daemon drops every request. *)
LEMMA RestartStep == ASSUME Dispatched, RestartDaemon PROVE Advances
<1>1. TypeOK
  BY DEF Dispatched, DispatchTypeOK
<1>2. TableNext /\ Quiet
  BY <1>1, QuietSteps DEF RestartDaemon, TableNext, PolicyStep
<1>3. /\ Touch /\ UNCHANGED agentVars
      /\ stale' \in [Runners -> BOOLEAN] /\ settled' \in BOOLEAN
      /\ task' = [t \in Tasks |-> Idle]
  BY DEF RestartDaemon, Dispatched, DispatchTypeOK
<1>4. task' \in [Tasks -> TaskRecords] /\ \A t \in Tasks : Fine(task'[t])
  BY <1>3, IdleFine DEF Fine
<1>5. Dispatched'
  BY <1>2, <1>3, <1>4, QuietSuccess, TableOnly DEF Dispatched
<1> QED  BY <1>2, <1>5 DEF Advances, Quiet, OverdueOnly

(* A claim fails a build its credentials block, or skips it. *)
LEMMA PreflightFailStep ==
    ASSUME Dispatched, NEW t \in Tasks, PreflightFail(t) PROVE Advances
<1> DEFINE s == task[t]
<1>0. /\ s \in TaskRecords /\ Shape(s) /\ Selected(s) /\ Granted(s) /\ Earned(s)
      /\ s.pc = "preflight" /\ OnlyTable /\ TypeOK
  BY DEF Dispatched, DispatchTypeOK, PreflightFail
<1>1. PICK row \in s.rows :
        /\ task' = [task EXCEPT ![t].rows = @ \ {row}]
        /\ IF status[row.b] = "queued" THEN FailCredentialBlocked(row.b)
                                       ELSE UNCHANGED tableVars
  BY DEF PreflightFail
<1> DEFINE next == [s EXCEPT !.rows = @ \ {row}]
<1>2. s.kind = "claim" /\ row.b \in Builds
  BY <1>0 DEF Shape, TaskRecords, Rows
<1>3. task' = [task EXCEPT ![t] = next]
  BY <1>0, <1>1 DEF Dispatched, DispatchTypeOK, TaskRecords
<1>4. next \in TaskRecords
  BY <1>0 DEF TaskRecords
<1>5. /\ next.kind = "claim" /\ next.pc = "preflight" /\ next.run = s.run
      /\ next.pick = s.pick /\ next.cur = s.cur /\ next.rows = s.rows \ {row}
  BY <1>0, <1>2 DEF TaskRecords
<1> HIDE DEF next, s
<1>6. Fine(next)
  BY <1>0, <1>2, <1>4, <1>5 DEF Fine, Shape, Selected, Granted, Earned, Accepted
<1>7. [TableNext]_tableVars /\ Quiet
  <2>1. CASE FailCredentialBlocked(row.b)
    BY <1>0, <1>2, <2>1, QuietSteps DEF TableNext, BuildStep
  <2>2. CASE UNCHANGED tableVars
    BY <2>2 DEF tableVars, rowVars, Quiet
  <2> QED  BY <1>1, <2>1, <2>2
<1>8. task' \in [Tasks -> TaskRecords] /\ \A u \in Tasks : task'[u] = task[u] \/ Fine(task'[u])
  BY <1>3, <1>4, <1>6 DEF Dispatched, DispatchTypeOK
<1>9. Dispatched'
  BY <1>0, <1>7, <1>8, QuietSuccess, TableOnly DEF OnlyTable, Dispatched, DispatchTypeOK
<1> QED  BY <1>7, <1>9 DEF Advances, Quiet, OverdueOnly

(* The claim itself: its grant is new and opens the build just claimed. *)
LEMMA TakeBuildStep == ASSUME Dispatched, NEW t \in Tasks, TakeBuild(t) PROVE Advances
<1> DEFINE s == task[t]
<1>0. /\ s \in TaskRecords /\ Shape(s) /\ Selected(s) /\ Earned(s)
      /\ s.pc = "take" /\ OnlyTable /\ TypeOK
  BY DEF Dispatched, DispatchTypeOK, TakeBuild
<1>1. PICK b \in s.pick :
        /\ ClaimBuild(b, s.run)
        /\ task' = [task EXCEPT ![t].pc = "reply", ![t].reply = "job", ![t].token = issued + 1]
  BY DEF TakeBuild
<1> DEFINE next == [s EXCEPT !.pc = "reply", !.reply = "job", !.token = issued + 1]
<1>2. s.kind = "claim" /\ b \in Builds /\ s.run \in Runners /\ issued \in Nat
  BY <1>0 DEF Shape, TaskRecords, TypeOK
<1>3. task' = [task EXCEPT ![t] = next]
  BY <1>0, <1>1 DEF Dispatched, DispatchTypeOK, TaskRecords
<1>4. next \in TaskRecords
  <2>1. issued + 1 \in Nat
    BY <1>2
  <2> QED  BY <1>0, <2>1 DEF TaskRecords
<1>5. /\ next.kind = "claim" /\ next.pc = "reply" /\ next.run = s.run
      /\ next.pick = s.pick /\ next.cur = s.cur /\ next.rows = s.rows
      /\ next.token = issued + 1
  BY <1>0, <1>2 DEF TaskRecords
<1> HIDE DEF next, s
<1>6. TableNext /\ Quiet /\ Touch /\ UNCHANGED agentVars
  BY <1>0, <1>1, <1>2, QuietSteps DEF TableNext, BuildStep, OnlyTable
<1>7. DispatchTypeOK'
  BY <1>0, <1>3, <1>4, <1>6, TablePieces
     DEF OnlyTable, Dispatched, DispatchTypeOK, agentVars
<1>8. ASSUME NEW u \in Tasks
      PROVE  Shape(task[u])' /\ Selected(task[u])' /\ Granted(task[u])' /\ Earned(task[u])'
  <2>1. CASE u = t
    <3>1. task'[u] = next
      BY <1>3, <2>1 DEF Dispatched, DispatchTypeOK
    <3>2. Shape(next) /\ Selected(next) /\ Earned(next)
      BY <1>0, <1>2, <1>5 DEF Shape, Selected, Earned
    <3>3. Selected(task[u])' /\ Earned(task[u])'
      BY <1>4, <1>6, <3>1, <3>2, TablePieces DEF Selected, Earned
    <3>4. \A c \in s.pick : c = b
      BY <1>0, <1>1, <1>2 DEF Shape, Single
    <3>5. issued' = issued + 1 /\ grant'[b] = issued + 1 /\ holder'[b] = s.run
      BY <1>0, <1>1, <1>2 DEF ClaimBuild, TypeOK
    <3>6. Granted(task[u])'
      BY <1>2, <1>5, <3>1, <3>4, <3>5 DEF Granted, Opens
    <3> QED  BY <3>1, <3>2, <3>3, <3>6 DEF Shape
  <2>2. CASE u # t
    <3>1. task'[u] = task[u] /\ task[u] \in TaskRecords
      BY <1>3, <2>2 DEF Dispatched, DispatchTypeOK
    <3>2. Shape(task[u]) /\ Selected(task[u]) /\ Granted(task[u]) /\ Earned(task[u])
      BY DEF Dispatched
    <3> QED  BY <1>6, <3>1, <3>2, TablePieces DEF Shape, Selected, Granted, Opens, Earned
  <2> QED  BY <2>1, <2>2
<1>9. OneStart'
  <2>1. \A u \in Tasks : Accepted(task'[u]) => task'[u] = task[u]
    BY <1>3, <1>5 DEF Accepted, Dispatched, DispatchTypeOK
  <2> QED  BY <1>6, <2>1, TablePieces DEF OneStart, Accepted, StartsBuild, Dispatched
<1>10. SucceededWasExecuted'
  BY <1>6, QuietSuccess DEF Dispatched
<1>11. Dispatched'
  BY <1>6, <1>7, <1>8, <1>9, <1>10, TablePieces DEF Dispatched
<1> QED  BY <1>6, <1>11 DEF Advances, Quiet, OverdueOnly

(* The UPDATE of transition_build.  A success was earned; a build timed out *)
(* was running and overdue; a build that becomes running was assigned, so   *)
(* its commands never started before.                                       *)
LEMMA ApplyRowStep == ASSUME Dispatched, NEW t \in Tasks, ApplyRow(t) PROVE Advances
<1> DEFINE s == task[t]
           next == Settled(s, TRUE)
<1>0. /\ s \in TaskRecords /\ Shape(s) /\ Selected(s) /\ Granted(s) /\ Earned(s)
      /\ OnlyTable /\ TypeOK
  BY DEF Dispatched, DispatchTypeOK, ApplyRow
<1>1. PICK c \in s.cur :
        TransitionBuild(c.b, c.from, c.to) /\ task' = [task EXCEPT ![t] = next]
  BY DEF ApplyRow
<1>2. c.b \in Builds /\ c.to \in TransitionTargets
  BY <1>0 DEF TaskRecords, Reads
<1>3. /\ status[c.b] = c.from /\ CanTransition(status[c.b], c.to) /\ status'[c.b] = c.to
      /\ \A b \in Builds \ {c.b} : status'[b] = status[b]
  BY <1>0, <1>1, <1>2 DEF TransitionBuild, EndRows, MarkRows, TypeOK
<1>4. TableNext /\ Touch /\ UNCHANGED agentVars
  BY <1>0, <1>1, <1>2, <1>3 DEF TableNext, BuildStep, OnlyTable
<1>5. status[c.b] \in RowStates
  BY <1>0, <1>2 DEF TypeOK
<1>6. OverdueOnly
  <2>1. c.to = "timed_out" => status[c.b] \in {"assigned", "running"}
    BY <1>3, <1>5 DEF CanTransition, ValidTransitions, RowStates, BuildStatuses, Terminal
  <2>2. c.to = "timed_out" => status[c.b] = "running" /\ aged[c.b]
    BY <1>0, <2>1 DEF Selected, Past, Terminal
  <2> QED  BY <1>3, <2>2 DEF OverdueOnly
<1>7. SucceededWasExecuted'
  <2>1. ASSUME c.to = "succeeded"
        PROVE  started[c.b] = 1 /\ \A j \in jobs : j.b = c.b => j.phase # "executing"
    BY <1>0, <2>1 DEF Shape, Earned
  <2> QED  BY <1>3, <1>4, <2>1 DEF SucceededWasExecuted, Executing, Dispatched, agentVars
<1>8. CASE ~(s.kind = "report" /\ s.goal = "running")
  <2>1. Fine(next)
    BY <1>0, <1>8, SettledFine
  <2> HIDE DEF next
  <2>2. task' \in [Tasks -> TaskRecords] /\ \A u \in Tasks : task'[u] = task[u] \/ Fine(task'[u])
    BY <1>1, <2>1 DEF Dispatched, DispatchTypeOK, Fine
  <2>3. Dispatched'
    BY <1>0, <1>4, <1>7, <2>2, TableOnly DEF OnlyTable, Dispatched, DispatchTypeOK
  <2> QED  BY <1>4, <1>6, <2>3 DEF Advances
<1>9. CASE s.kind = "report" /\ s.goal = "running"
  <2> DEFINE n == [s EXCEPT !.rows = {}, !.cur = {}, !.pc = "reply", !.reply = "ok"]
  <2>1. next = n
    BY <1>9 DEF Settled
  <2>2. n \in TaskRecords
    BY <1>0 DEF TaskRecords
  <2>3. /\ n.rows = {} /\ n.cur = {} /\ n.pc = "reply" /\ n.kind = "report"
        /\ n.run = s.run /\ n.goal = "running" /\ n.pick = s.pick
    BY <1>0, <1>9 DEF TaskRecords
  <2>4. task' = [task EXCEPT ![t] = n]
    BY <1>1, <2>1
  <2>5. c.to = "running" /\ c.b \in s.pick /\ \A b \in s.pick : b = c.b
    BY <1>0, <1>9 DEF Shape, Single
  <2> HIDE DEF n, s
  <2>6. status[c.b] = "assigned"
    BY <1>3, <1>5, <2>5 DEF CanTransition, ValidTransitions, RowStates, BuildStatuses, Terminal
  <2>7. DispatchTypeOK'
    BY <1>0, <1>4, <2>2, <2>4, TablePieces
       DEF OnlyTable, Dispatched, DispatchTypeOK, agentVars
  <2>8. ASSUME NEW u \in Tasks
        PROVE  Shape(task[u])' /\ Selected(task[u])' /\ Granted(task[u])' /\ Earned(task[u])'
    <3>1. CASE u = t
      <4>1. task'[u] = n
        BY <2>4, <3>1 DEF Dispatched, DispatchTypeOK
      <4> QED  BY <1>0, <1>9, <2>3, <4>1 DEF Shape, Selected, Granted, Earned
    <3>2. CASE u # t
      <4>1. task'[u] = task[u] /\ task[u] \in TaskRecords
        BY <2>4, <3>2 DEF Dispatched, DispatchTypeOK
      <4>2. Shape(task[u]) /\ Selected(task[u]) /\ Granted(task[u]) /\ Earned(task[u])
        BY DEF Dispatched
      <4> QED  BY <1>4, <4>1, <4>2, TablePieces DEF Shape, Selected, Granted, Opens, Earned
    <3> QED  BY <3>1, <3>2
  <2>9. OneStart'
    <3>1. started' = started
      BY <1>4 DEF agentVars
    <3>2. started[c.b] = 0
      <4>1. started[c.b] \in Nat /\ ~(started[c.b] > 0)
        BY <1>2, <2>6 DEF Dispatched, DispatchTypeOK, OneStart, Past, Terminal
      <4> QED  BY <4>1
    <3>3. \A u \in Tasks : Accepted(task[u]) => c.b \notin task[u].pick
      BY <2>6 DEF Dispatched, OneStart, Past, Terminal
    <3>4. task'[t].pick = s.pick /\ \A u \in Tasks \ {t} : task'[u] = task[u]
      BY <2>3, <2>4 DEF Dispatched, DispatchTypeOK
    <3>5. \A b \in Builds : started'[b] <= 1 /\ (started'[b] > 0 => status'[b] \in Past)
      BY <1>4, TablePieces
    <3>6. \A u \in Tasks \ {t} : Accepted(task[u])' =>
            \A b \in task'[u].pick : started'[b] = 0 /\ status'[b] \in Past
      BY <1>4, <3>4, TablePieces DEF Accepted, StartsBuild
    <3>7. \A b \in task'[t].pick : started'[b] = 0 /\ status'[b] \in Past
      BY <1>3, <2>5, <3>1, <3>2, <3>4 DEF Past
    <3>8. \A u, v \in Tasks \ {t} : Accepted(task[u])' /\ Accepted(task[v])'
            /\ task'[u].pick \cap task'[v].pick # {} => u = v
      BY <3>4 DEF Dispatched, OneStart, Accepted, StartsBuild
    <3>9. \A u \in Tasks \ {t} : Accepted(task[u])' => task'[u].pick \cap task'[t].pick = {}
      BY <2>5, <3>3, <3>4 DEF Accepted, StartsBuild
    <3> QED  BY <3>5, <3>6, <3>7, <3>8, <3>9 DEF OneStart
  <2>10. Dispatched'
    BY <1>4, <1>7, <2>7, <2>8, <2>9, TablePieces DEF Dispatched
  <2> QED  BY <1>4, <1>6, <2>10 DEF Advances
<1> QED  BY <1>8, <1>9

-----------------------------------------------------------------------------
(* The agents, the clock and the network. *)

(* The same request, whether or not its client still waits. *)
Alike(s, n) ==
    /\ n.kind = s.kind /\ n.pc = s.pc /\ n.run = s.run /\ n.rows = s.rows /\ n.cur = s.cur
    /\ n.pick = s.pick /\ n.goal = s.goal /\ n.token = s.token /\ n.reply = s.reply

(* Two begun jobs of one build are the same. *)
BegunApart(J) == \A j, k \in J : Begun(j) /\ Begun(k) /\ j.b = k.b => j = k

(* A step of an agent or of the clock that starts no build commands. *)
LEMMA AgentOnly ==
    ASSUME Dispatched, UNCHANGED <<tableVars, started>>,
           task' \in [Tasks -> TaskRecords],
           \A t \in Tasks : task'[t] = Idle \/ Alike(task[t], task'[t]),
           aged' \in [Builds -> BOOLEAN], \A b \in Builds : aged[b] => aged'[b],
           stale' \in [Runners -> BOOLEAN], settled' \in BOOLEAN,
           up' \in [Runners -> BOOLEAN], linked' \in [Runners -> BOOLEAN],
           cached' \in [Runners -> Nat], active' \in [Runners -> SUBSET Builds],
           jobs' \subseteq Jobs, BegunApart(jobs'),
           \A k \in jobs' :
                /\ Opens(k.cap, k.b, k.run)
                /\ Begun(k) => \E j \in jobs : /\ Begun(j) /\ j.b = k.b
                                               /\ k.phase = "executing" => j = k
    PROVE  Dispatched'
<1>0. /\ status' = status /\ grant' = grant /\ holder' = holder /\ issued' = issued
      /\ started' = started
  BY DEF tableVars, rowVars
<1>1. TypeOK'
  BY DEF Dispatched, DispatchTypeOK, TypeOK, tableVars, rowVars, policyVars
<1>2. DispatchTypeOK'
  BY <1>0, <1>1 DEF Dispatched, DispatchTypeOK
<1>3. ASSUME NEW t \in Tasks
      PROVE  Shape(task[t])' /\ Selected(task[t])' /\ Granted(task[t])' /\ Earned(task[t])'
  <2>1. CASE task'[t] = Idle
    BY <2>1 DEF Idle, Shape, Selected, Granted, Earned
  <2>2. CASE Alike(task[t], task'[t])
    <3>1. Shape(task[t]) /\ Selected(task[t]) /\ Granted(task[t]) /\ Earned(task[t])
      BY DEF Dispatched
    <3>2. \A x \in task[t].rows \cup task[t].cur : x.b \in Builds
      BY DEF Dispatched, DispatchTypeOK, TaskRecords, Rows, Reads
    <3>3. Shape(task[t])' /\ Granted(task[t])'
      BY <1>0, <2>2, <3>1 DEF Alike, Shape, Granted, Opens
    <3>4. Selected(task[t])'
      BY <1>0, <2>2, <3>1, <3>2 DEF Alike, Selected
    <3>5. Earned(task[t])'
      <4>1. \A k \in jobs' : k.phase = "executing" => k \in jobs
        BY DEF Begun
      <4> QED  BY <1>0, <2>2, <3>1, <4>1 DEF Alike, Earned
    <3> QED  BY <3>3, <3>4, <3>5
  <2> QED  BY <2>1, <2>2
<1>4. OneStart'
  <2>1. \A t \in Tasks : Accepted(task[t])' => Accepted(task[t]) /\ task'[t].pick = task[t].pick
    BY DEF Accepted, StartsBuild, Alike, Idle
  <2> QED  BY <1>0, <2>1 DEF OneStart, Dispatched
<1>5. OneJob'
  BY <1>0 DEF OneJob, BegunApart, Begun, Dispatched
<1>6. GrantsMatch'
  BY <1>0 DEF GrantsMatch, Opens
<1>7. SucceededWasExecuted'
  <2>1. \A k \in jobs' : k.phase = "executing" => k \in jobs
    BY DEF Begun
  <2> QED  BY <1>0, <2>1 DEF SucceededWasExecuted, Executing, Dispatched
<1> QED  BY <1>2, <1>3, <1>4, <1>5, <1>6, <1>7 DEF Dispatched

(* The agent reads the answer to a claim. *)
LEMMA ReceiveClaimStep ==
    ASSUME Dispatched, NEW t \in Tasks, ReceiveClaim(t) PROVE Dispatched'
<1> DEFINE s == task[t]
           new == {[run |-> s.run, b |-> b, cap |-> s.token, phase |-> "starting"] :
                        b \in s.pick}
<1>0. /\ s \in TaskRecords /\ Shape(s) /\ Granted(s) /\ s.kind = "claim" /\ s.pc = "reply"
      /\ s.run \in Runners /\ s.pick \in SUBSET Builds /\ s.token \in Nat
  BY DEF Dispatched, DispatchTypeOK, ReceiveClaim, Shape, TaskRecords
<1>1. /\ task' = [task EXCEPT ![t] = Idle] /\ jobs' = jobs \cup new
      /\ active' = [active EXCEPT ![s.run] = @ \cup s.pick]
      /\ UNCHANGED <<tableVars, clockVars, up, linked, cached, started>>
  BY DEF ReceiveClaim
<1>2. \A k \in new : k \in Jobs /\ ~Begun(k) /\ Opens(k.cap, k.b, k.run)
  BY <1>0 DEF Jobs, Phases, Begun, Granted
<1> HIDE DEF new
<1>3. task' \in [Tasks -> TaskRecords] /\ \A u \in Tasks : task'[u] = Idle \/ Alike(task[u], task'[u])
  BY <1>1, IdleFine DEF Dispatched, DispatchTypeOK, Fine, Alike
<1>4. active' \in [Runners -> SUBSET Builds]
  BY <1>0, <1>1 DEF Dispatched, DispatchTypeOK
<1>5. jobs' \subseteq Jobs /\ BegunApart(jobs')
  BY <1>1, <1>2 DEF Dispatched, DispatchTypeOK, OneJob, BegunApart
<1>6. \A k \in jobs' :
        /\ Opens(k.cap, k.b, k.run)
        /\ Begun(k) => \E j \in jobs : Begun(j) /\ j.b = k.b /\ (k.phase = "executing" => j = k)
  BY <1>1, <1>2 DEF Dispatched, GrantsMatch
<1> QED  BY <1>1, <1>3, <1>4, <1>5, <1>6, AgentOnly DEF Dispatched, DispatchTypeOK, clockVars

(* A job that moves on without starting anything. *)
LEMMA MoveJobKeeps ==
    ASSUME Dispatched, NEW j \in jobs, NEW phase \in {"succeeded", "failed", "over"},
           phase # "over" => Begun(j), MoveJob(j, phase)
    PROVE  /\ jobs' \subseteq Jobs /\ BegunApart(jobs')
           /\ \A k \in jobs' :
                /\ Opens(k.cap, k.b, k.run)
                /\ Begun(k) => \E i \in jobs : /\ Begun(i) /\ i.b = k.b
                                               /\ k.phase = "executing" => i = k
<1> DEFINE n == [j EXCEPT !.phase = phase]
<1>1. jobs' = (jobs \ {j}) \cup {n} /\ j \in Jobs
  BY DEF MoveJob, Dispatched, DispatchTypeOK
<1>2. /\ n \in Jobs /\ n.b = j.b /\ n.cap = j.cap /\ n.run = j.run /\ n.phase = phase
      /\ Begun(n) => Begun(j)
  BY <1>1 DEF Jobs, Phases, Begun
<1> HIDE DEF n
<1>3. jobs' \subseteq Jobs
  BY <1>1, <1>2 DEF Dispatched, DispatchTypeOK
<1>4. BegunApart(jobs')
  BY <1>1, <1>2 DEF Dispatched, OneJob, BegunApart
<1>5. Opens(n.cap, n.b, n.run)
  BY <1>2 DEF Dispatched, GrantsMatch
<1> QED  BY <1>1, <1>2, <1>3, <1>4, <1>5 DEF Dispatched, GrantsMatch

(* Jobs between their requests. *)
LEMMA JobSteps ==
    ASSUME Dispatched, NEW j \in jobs,
           FinishBuild(j) \/ PollLost(j) \/ LoseController(j) \/ JoinJob(j)
    PROVE  Dispatched'
<1>1. \A t \in Tasks : Alike(task[t], task[t])
  BY DEF Alike
<1>2. ASSUME NEW phase \in {"succeeded", "failed", "over"}, MoveJob(j, phase),
             j.phase = "executing", OnlyJob
      PROVE  Dispatched'
  <2>1. /\ jobs' \subseteq Jobs /\ BegunApart(jobs')
        /\ \A k \in jobs' :
                /\ Opens(k.cap, k.b, k.run)
                /\ Begun(k) => \E i \in jobs : /\ Begun(i) /\ i.b = k.b
                                               /\ k.phase = "executing" => i = k
    BY <1>2, MoveJobKeeps DEF Begun
  <2> QED  BY <1>1, <1>2, <2>1, AgentOnly DEF OnlyJob, Dispatched, DispatchTypeOK, clockVars
<1>3. CASE FinishBuild(j) \/ PollLost(j) \/ LoseController(j)
  BY <1>2, <1>3 DEF FinishBuild, PollLost, LoseController
<1>4. CASE JoinJob(j)
  <2>1. /\ jobs' = jobs \ {j} /\ active' = [active EXCEPT ![j.run] = @ \ {j.b}]
        /\ UNCHANGED <<tableVars, task, clockVars, up, linked, cached, started>>
    BY <1>4 DEF JoinJob
  <2>2. active' \in [Runners -> SUBSET Builds]
    BY <2>1 DEF Dispatched, DispatchTypeOK
  <2>3. jobs' \subseteq Jobs /\ BegunApart(jobs')
    BY <2>1 DEF Dispatched, DispatchTypeOK, OneJob, BegunApart
  <2>4. \A k \in jobs' :
        /\ Opens(k.cap, k.b, k.run)
        /\ Begun(k) => \E i \in jobs : Begun(i) /\ i.b = k.b /\ (k.phase = "executing" => i = k)
    BY <2>1 DEF Dispatched, GrantsMatch
  <2> QED  BY <1>1, <2>1, <2>2, <2>3, <2>4, AgentOnly DEF Dispatched, DispatchTypeOK, clockVars
<1> QED  BY <1>3, <1>4

(* The jobs as they are. *)
LEMMA SameJobs ==
    ASSUME Dispatched, jobs' \subseteq jobs
    PROVE  /\ jobs' \subseteq Jobs /\ BegunApart(jobs')
           /\ \A k \in jobs' :
                /\ Opens(k.cap, k.b, k.run)
                /\ Begun(k) => \E i \in jobs : /\ Begun(i) /\ i.b = k.b
                                               /\ k.phase = "executing" => i = k
BY DEF Dispatched, DispatchTypeOK, OneJob, BegunApart, GrantsMatch

(* A request whose client stops waiting stays the same request. *)
LEMMA NotWaiting ==
    ASSUME NEW s \in TaskRecords
    PROVE  LET n == [s EXCEPT !.live = FALSE] IN n \in TaskRecords /\ Alike(s, n)
<1> DEFINE n == [s EXCEPT !.live = FALSE]
<1>1. Alike(s, n)
  BY DEF TaskRecords, Alike
<1>2. ASSUME NEW no \in BOOLEAN PROVE [s EXCEPT !.live = no] \in TaskRecords
  BY <1>2 DEF TaskRecords
<1>3. n \in TaskRecords
  BY <1>2
<1> QED  BY <1>1, <1>3

(* The client stops waiting; its job may end with the request. *)
LEMMA GiveUpStep == ASSUME Dispatched, NEW t \in Tasks, GiveUp(t) PROVE Dispatched'
<1>1. /\ task' = [task EXCEPT ![t].live = FALSE]
      /\ UNCHANGED <<tableVars, clockVars, up, linked, cached, active, started>>
  BY DEF GiveUp
<1>2. /\ task' \in [Tasks -> TaskRecords]
      /\ \A u \in Tasks : task'[u] = Idle \/ Alike(task[u], task'[u])
  <2> DEFINE n == [task[t] EXCEPT !.live = FALSE]
  <2>1. task' = [task EXCEPT ![t] = n] /\ task \in [Tasks -> TaskRecords]
    BY <1>1 DEF Dispatched, DispatchTypeOK
  <2>2. n \in TaskRecords /\ Alike(task[t], n)
    BY <2>1, NotWaiting
  <2> HIDE DEF n
  <2> QED  BY <2>1, <2>2 DEF Alike
<1>3. /\ jobs' \subseteq Jobs /\ BegunApart(jobs')
      /\ \A k \in jobs' :
                /\ Opens(k.cap, k.b, k.run)
                /\ Begun(k) => \E i \in jobs : /\ Begun(i) /\ i.b = k.b
                                               /\ k.phase = "executing" => i = k
  <2>1. CASE UNCHANGED jobs
    BY <2>1, SameJobs
  <2>2. ASSUME NEW j \in Awaiting(task[t]), MoveJob(j, "over")
        PROVE <1>3
    BY <2>2, MoveJobKeeps DEF Awaiting
  <2> QED  BY <2>1, <2>2 DEF GiveUp
<1> QED  BY <1>1, <1>2, <1>3, AgentOnly DEF Dispatched, DispatchTypeOK, clockVars

(* The agent dies, or another of its steps that touches no job. *)
LEMMA RunnerSteps ==
    ASSUME Dispatched, NEW r \in Runners,
           \/ Heartbeat(r) \/ CrashRunner(r) \/ StartRunner(r) \/ Relink(r)
           \/ MissHeartbeats(r)
    PROVE  Dispatched'
<1>0. DispatchTypeOK /\ AtLeastOne(slots[r]) \in Nat
  BY TableAssumption DEF Dispatched, DispatchTypeOK, TypeOK, AtLeastOne
<1>1. CASE CrashRunner(r)
  <2>1. /\ up' = [up EXCEPT ![r] = FALSE]
        /\ jobs' \subseteq jobs
        /\ active' = [active EXCEPT ![r] = {}]
        /\ task' = [t \in Tasks |-> IF task[t].run = r THEN [task[t] EXCEPT !.live = FALSE]
                                                       ELSE task[t]]
        /\ UNCHANGED <<tableVars, clockVars, linked, cached, started>>
    BY <1>1 DEF CrashRunner
  <2>2. task' \in [Tasks -> TaskRecords]
    <3>1. \A t \in Tasks : [task[t] EXCEPT !.live = FALSE] \in TaskRecords
      BY <1>0, NotWaiting DEF DispatchTypeOK
    <3>2. \A t \in Tasks : task[t] \in TaskRecords
      BY <1>0 DEF DispatchTypeOK
    <3> QED  BY <2>1, <3>1, <3>2
  <2>3. \A t \in Tasks : Alike(task[t], task'[t])
    <3>1. \A t \in Tasks : Alike(task[t], [task[t] EXCEPT !.live = FALSE])
      BY <1>0, NotWaiting DEF DispatchTypeOK
    <3>2. \A t \in Tasks : Alike(task[t], task[t])
      BY DEF Alike
    <3> QED  BY <2>1, <3>1, <3>2
  <2>4. up' \in [Runners -> BOOLEAN] /\ active' \in [Runners -> SUBSET Builds]
    BY <1>0, <2>1 DEF DispatchTypeOK
  <2> QED  BY <1>0, <2>1, <2>2, <2>3, <2>4, SameJobs, AgentOnly DEF DispatchTypeOK, clockVars
<1>2. CASE Heartbeat(r) \/ StartRunner(r) \/ Relink(r) \/ MissHeartbeats(r)
  <2>1. UNCHANGED <<tableVars, task, aged, settled, jobs, active, started>>
    BY <1>2 DEF Heartbeat, StartRunner, Relink, MissHeartbeats, clockVars, agentVars
  <2>2. /\ stale' \in [Runners -> BOOLEAN] /\ up' \in [Runners -> BOOLEAN]
        /\ linked' \in [Runners -> BOOLEAN]
    BY <1>0, <1>2 DEF Heartbeat, StartRunner, Relink, MissHeartbeats, clockVars, agentVars,
                      DispatchTypeOK
  <2>3. cached' \in [Runners -> Nat]
    BY <1>0, <1>2 DEF Heartbeat, StartRunner, Relink, MissHeartbeats, clockVars, agentVars,
                      DispatchTypeOK
  <2>4. \A t \in Tasks : Alike(task[t], task[t])
    BY DEF Alike
  <2> QED  BY <1>0, <2>1, <2>2, <2>3, <2>4, SameJobs, AgentOnly DEF DispatchTypeOK
<1> QED  BY <1>1, <1>2

(* Time passes. *)
LEMMA ClockSteps ==
    ASSUME Dispatched, Settle \/ \E b \in Builds : Age(b) PROVE Dispatched'
<1>1. UNCHANGED <<tableVars, task, stale, agentVars>>
  BY DEF Settle, Age
<1>2. /\ settled' \in BOOLEAN /\ aged' \in [Builds -> BOOLEAN]
      /\ \A b \in Builds : aged[b] => aged'[b]
  BY DEF Settle, Age, Dispatched, DispatchTypeOK
<1>3. \A t \in Tasks : Alike(task[t], task[t])
  BY DEF Alike
<1> QED  BY <1>1, <1>2, <1>3, SameJobs, AgentOnly DEF Dispatched, DispatchTypeOK, agentVars

(* The agent reads the answer to a report.  Only the answer that OneStart   *)
(* singles out starts build commands, and it is then gone.                  *)
LEMMA ReceiveReportStep ==
    ASSUME Dispatched, NEW t \in Tasks, ReceiveReport(t) PROVE Dispatched'
<1> DEFINE s == task[t]
           go == StartsBuild(s)
<1>0. /\ s \in TaskRecords /\ Shape(s) /\ s.kind = "report" /\ s.pc = "reply"
      /\ DispatchTypeOK
  BY DEF Dispatched, DispatchTypeOK, ReceiveReport
<1>1. /\ task' = [task EXCEPT ![t] = Idle]
      /\ UNCHANGED <<tableVars, clockVars, up, linked, cached, active>>
  BY DEF ReceiveReport
<1>2. PICK j \in Awaiting(s) :
        /\ MoveJob(j, IF go THEN "executing" ELSE "over")
        /\ started' = [started EXCEPT ![j.b] = IF go THEN @ + 1 ELSE @]
  BY DEF ReceiveReport
<1>3. j \in jobs /\ j \in Jobs /\ j.b \in s.pick /\ j.b \in Builds
  BY <1>0, <1>2 DEF Awaiting, DispatchTypeOK, Jobs
<1>4. /\ task' \in [Tasks -> TaskRecords] /\ task'[t] = Idle
      /\ \A u \in Tasks \ {t} : task'[u] = task[u]
  BY <1>0, <1>1, IdleFine DEF DispatchTypeOK, Fine
<1>5. CASE ~go
  <2>1. MoveJob(j, "over") /\ started' = started
    BY <1>0, <1>2, <1>5 DEF DispatchTypeOK
  <2>2. \A u \in Tasks : task'[u] = Idle \/ Alike(task[u], task'[u])
    BY <1>4 DEF Alike
  <2> QED  BY <1>0, <1>1, <1>3, <1>4, <2>1, <2>2, MoveJobKeeps, AgentOnly
           DEF DispatchTypeOK, clockVars
<1>6. CASE go
  <2> DEFINE n == [j EXCEPT !.phase = "executing"]
  <2>1. /\ jobs' = (jobs \ {j}) \cup {n}
        /\ started' = [started EXCEPT ![j.b] = @ + 1]
    BY <1>2, <1>6 DEF MoveJob
  <2>2. n \in Jobs /\ n.b = j.b /\ n.cap = j.cap /\ n.run = j.run
    BY <1>3 DEF Jobs, Phases
  <2> HIDE DEF n, s
  <2>3. Accepted(task[t]) /\ j.b \in task[t].pick
    BY <1>0, <1>3, <1>6 DEF Accepted, s
  <2>4. started[j.b] = 0 /\ status[j.b] \in Past
    BY <2>3 DEF Dispatched, OneStart
  <2>5. /\ started' \in [Builds -> Nat] /\ started'[j.b] = 1
        /\ \A b \in Builds \ {j.b} : started'[b] = started[b]
    BY <1>0, <1>3, <2>1, <2>4 DEF DispatchTypeOK
  <2>6. /\ status' = status /\ grant' = grant /\ holder' = holder /\ issued' = issued
        /\ aged' = aged
    BY <1>1 DEF tableVars, rowVars, clockVars
  <2>7. DispatchTypeOK'
    <3>1. TypeOK'
      BY <1>0, <1>1 DEF DispatchTypeOK, TypeOK, tableVars, rowVars, policyVars
    <3> QED  BY <1>0, <1>1, <1>4, <2>1, <2>2, <2>5, <3>1 DEF DispatchTypeOK, clockVars
  <2>8. ASSUME NEW u \in Tasks
        PROVE  Shape(task[u])' /\ Selected(task[u])' /\ Granted(task[u])' /\ Earned(task[u])'
    <3>1. CASE u = t
      BY <1>4, <3>1 DEF Idle, Shape, Selected, Granted, Earned
    <3>2. CASE u # t
      <4>1. Shape(task[u]) /\ Selected(task[u]) /\ Granted(task[u]) /\ Earned(task[u])
        BY DEF Dispatched
      <4>2. task'[u] = task[u] /\ task[u].pick \in SUBSET Builds
        BY <1>0, <1>4, <3>2 DEF DispatchTypeOK, TaskRecords
      <4>3. Shape(task[u])' /\ Selected(task[u])' /\ Granted(task[u])'
        BY <2>6, <4>1, <4>2 DEF Shape, Selected, Granted, Opens
      <4>4. Earned(task[u])'
        BY <2>1, <2>2, <2>4, <2>5, <4>1, <4>2 DEF Earned
      <4> QED  BY <4>3, <4>4
    <3> QED  BY <3>1, <3>2
  <2>9. OneStart'
    <3>1. \A b \in Builds : started'[b] <= 1 /\ (started'[b] > 0 => status'[b] \in Past)
      BY <2>4, <2>5, <2>6 DEF Dispatched, OneStart
    <3>2. ~Accepted(task[t])'
      BY <1>4 DEF Accepted, Idle
    <3>3. \A u \in Tasks \ {t} : Accepted(task[u])' =>
                Accepted(task[u]) /\ j.b \notin task[u].pick /\ task[u].pick \in SUBSET Builds
      BY <1>0, <1>4, <2>3
         DEF Dispatched, OneStart, Accepted, StartsBuild, DispatchTypeOK, TaskRecords
    <3>4. \A u \in Tasks : Accepted(task[u])' =>
                \A b \in task'[u].pick : started'[b] = 0 /\ status'[b] \in Past
      BY <1>4, <2>5, <2>6, <3>2, <3>3 DEF Dispatched, OneStart
    <3>5. \A u, v \in Tasks : Accepted(task[u])' /\ Accepted(task[v])'
                /\ task'[u].pick \cap task'[v].pick # {} => u = v
      BY <1>4, <3>2, <3>3 DEF Dispatched, OneStart
    <3> QED  BY <3>1, <3>4, <3>5 DEF OneStart
  <2>10. OneJob'
    <3>1. \A k \in jobs : Begun(k) => k.b # j.b /\ k.b \in Builds
      BY <1>0, <2>4 DEF Dispatched, OneJob, DispatchTypeOK, Jobs
    <3> QED  BY <2>1, <2>2, <2>5, <3>1 DEF Dispatched, OneJob, Begun
  <2>11. GrantsMatch'
    BY <1>3, <2>1, <2>2, <2>6 DEF Dispatched, GrantsMatch, Opens
  <2>12. SucceededWasExecuted'
    <3>1. \A b \in Builds : status[b] = "succeeded" => b # j.b
      BY <2>4 DEF Dispatched, SucceededWasExecuted
    <3> QED  BY <2>1, <2>2, <2>5, <2>6, <3>1 DEF Dispatched, SucceededWasExecuted, Executing
  <2> QED  BY <2>7, <2>8, <2>9, <2>10, <2>11, <2>12 DEF Dispatched
<1> QED  BY <1>5, <1>6

-----------------------------------------------------------------------------
(* The theorems. *)

(* Nothing is in flight at first. *)
LEMMA InitDispatched == Init => Dispatched
<1> SUFFICES ASSUME Init PROVE Dispatched
  OBVIOUS
<1>1. /\ \A t \in Tasks : task[t] = Idle
      /\ task \in [Tasks -> TaskRecords]
  BY IdleFine DEF Init, Fine
<1>2. DispatchTypeOK
  <2>1. TypeOK
    BY InitTyped DEF Init
  <2>2. \A r \in Runners : AtLeastOne(slots[r]) \in Nat
    BY <2>1, TableAssumption DEF TypeOK, AtLeastOne
  <2> QED  BY <1>1, <2>1, <2>2 DEF Init, DispatchTypeOK
<1>3. \A t \in Tasks : /\ Shape(task[t]) /\ Selected(task[t])
                       /\ Granted(task[t]) /\ Earned(task[t]) /\ ~Accepted(task[t])
  BY <1>1, IdleFine DEF Fine
<1>4. OneStart /\ OneJob /\ GrantsMatch
  BY <1>3 DEF Init, OneStart, OneJob, GrantsMatch
<1>5. SucceededWasExecuted
  BY DEF Init, TableInit, SucceededWasExecuted
<1> QED  BY <1>2, <1>3, <1>4, <1>5 DEF Dispatched

(* A step that leaves the table alone times nothing out. *)
LEMMA TableAlone ==
    ASSUME UNCHANGED tableVars PROVE [TableNext]_tableVars /\ OverdueOnly
BY DEF tableVars, rowVars, OverdueOnly

(* Every step of dispatch keeps the invariant and is a step of the table.   *)
LEMMA EveryStepAdvances == ASSUME Dispatched, [Next]_vars PROVE Advances
<1>1. ASSUME NEW t \in Tasks, TaskStep(t) PROVE Advances
  <2>1. CASE LoadRow(t) \/ LoseRace(t) \/ ReleaseSelect(t) \/ PreflightSelect(t)
             \/ SelectBuild(t) \/ MissBuild(t) \/ CheckOwner(t)
    <3>1. UNCHANGED tableVars
      BY <2>1 DEF LoadRow, LoseRace, ReleaseSelect, PreflightSelect, SelectBuild, MissBuild,
                  CheckOwner, OnlyTask
    <3> QED  BY <2>1, <3>1, TableAlone, LoadRowStep, LoseRaceStep, ReleaseSelectStep,
                PreflightSelectStep, SelectBuildStep, MissBuildStep, CheckOwnerStep
             DEF Advances
  <2>2. CASE ApplyRow(t) \/ PreflightFail(t) \/ TakeBuild(t)
    BY <2>2, ApplyRowStep, PreflightFailStep, TakeBuildStep
  <2> QED  BY <1>1, <2>1, <2>2 DEF TaskStep
<1>2. ASSUME NEW t \in Tasks, ClientStep(t) PROVE Advances
  <2>1. UNCHANGED tableVars
    BY <1>2 DEF ClientStep, ReceiveClaim, ReceiveReport, GiveUp, DropOrphan, OnlyTask
  <2> QED  BY <1>2, <2>1, TableAlone, ReceiveClaimStep, ReceiveReportStep, GiveUpStep,
              DropOrphanStep
           DEF ClientStep, Advances
<1>3. ASSUME NEW r \in Runners, RunnerStep(r) PROVE Advances
  <2>1. UNCHANGED tableVars
    BY <1>3 DEF RunnerStep, Heartbeat, CrashRunner, StartRunner, Relink, MissHeartbeats,
                SendClaim, OnlyTask
  <2> QED  BY <1>3, <2>1, TableAlone, RunnerSteps, SendClaimStep DEF RunnerStep, Advances
<1>4. ASSUME NEW j \in jobs, JobStep(j) PROVE Advances
  <2>1. UNCHANGED tableVars
    BY <1>4 DEF JobStep, FinishBuild, PollLost, LoseController, JoinJob, OnlyJob, SendReport,
                OnlyTask
  <2> QED  BY <1>4, <2>1, TableAlone, JobSteps, SendReportStep DEF JobStep, Advances
<1>5. CASE MonitorStep
  <2>1. CASE RestartDaemon
    BY <2>1, RestartStep
  <2>2. CASE RequeueExpiredClaims \/ TimeOutOverdueBuilds \/ ExpirePendingApprovals
             \/ FailBuildsOfLostRunners \/ Settle
    <3>1. UNCHANGED tableVars
      BY <2>2 DEF RequeueExpiredClaims, TimeOutOverdueBuilds, ExpirePendingApprovals, Begin,
                  FailBuildsOfLostRunners, Settle, OnlyTask
    <3> QED  BY <2>2, <3>1, TableAlone, SelectionSteps, LostRunnersStep, ClockSteps DEF Advances
  <2> QED  BY <1>5, <2>1, <2>2 DEF MonitorStep
<1>6. ASSUME NEW b \in Builds, UserStep(b) PROVE Advances
  <2>1. CASE SubmitBuild(b) \/ DecideApproval(b) \/ CleanUpBuild(b)
    BY <2>1, UserSteps
  <2>2. CASE Age(b) \/ \E t \in Workers : CancelBuild(t, b)
    <3>1. UNCHANGED tableVars
      BY <2>2 DEF Age, CancelBuild, Begin, OnlyTask
    <3> QED  BY <2>2, <3>1, TableAlone, ClockSteps, SelectionSteps DEF Advances
  <2> QED  BY <1>6, <2>1, <2>2 DEF UserStep
<1>7. CASE Administer
  BY <1>7, UserSteps
<1>8. CASE UNCHANGED vars
  <2>1. UNCHANGED tableVars /\ \A t \in Tasks : Alike(task[t], task[t])
    BY <1>8 DEF vars, Alike
  <2> QED  BY <1>8, <2>1, TableAlone, SameJobs, AgentOnly
           DEF vars, clockVars, agentVars, Dispatched, DispatchTypeOK, Advances
<1> QED  BY <1>1, <1>2, <1>3, <1>4, <1>5, <1>6, <1>7, <1>8 DEF Next

(* The inductive invariant holds in every reachable state. *)
THEOREM DispatchedAlways == Spec => []Dispatched
<1>1. Dispatched /\ [Next]_vars => Dispatched'
  BY EveryStepAdvances DEF Advances
<1> QED  BY <1>1, InitDispatched, PTL DEF Spec

(* Every reachable state of dispatch has its type: in particular a handler  *)
(* only ever holds rows, builds and targets that exist.                     *)
THEOREM DispatchTyped == Spec => []DispatchTypeOK
<1>1. Dispatched => DispatchTypeOK
  BY DEF Dispatched
<1> QED  BY <1>1, DispatchedAlways, PTL

(* Handlers, monitors and administrators, with all their stale reads, only  *)
(* ever make the transactions of the builds table.                          *)
THEOREM DispatchImplementsTable == Spec => ImplementsTable
<1>1. Dispatched /\ [Next]_vars => [TableNext]_tableVars
  BY EveryStepAdvances DEF Advances
<1>2. Init => TableInit
  BY DEF Init
<1> QED  BY <1>1, <1>2, DispatchedAlways, PTL DEF Spec, ImplementsTable

(* So what the table promises of grants, approvals, retries, deliveries,    *)
(* limits, outcomes and the barrier, and the life of a build, hold for the  *)
(* running system.                                                          *)
THEOREM DispatchKeepsTablePromises ==
    Spec => /\ []GrantBinding /\ []ApprovalRespected
            /\ []RetryExclusive /\ []OneBuildPerDelivery
            /\ EndedStaysEnded /\ DrainHolds /\ LimitsRespected /\ EveryBuildLives
<1>1. Spec => TableSpec
  BY DispatchImplementsTable, PTL DEF ImplementsTable, TableSpec
<1> QED  BY <1>1, GrantsBound, ApprovalsRespected, RetriesExclusive, DeliveriesBuildOnce,
            OutcomesFinal, BarrierHolds, LimitsKept, TableImplementsLife, PTL

(* Build commands are started at most once, on one runner, however many     *)
(* requests are lost, repeated or late and however many daemons and agents  *)
(* crash (claim_job, update_job_status, execute_claimed_job).               *)
THEOREM CommandsStartOnce == Spec => []AtMostOneExecution
<1>1. Dispatched => AtMostOneExecution
  <2> SUFFICES ASSUME Dispatched, NEW b \in Builds
               PROVE  /\ started[b] <= 1
                      /\ \A r \in Runners : Executing(r, b) =>
                            status[b] \in {"running", "deleted"} \cup Terminal
    BY DEF AtMostOneExecution
  <2>1. started[b] <= 1 /\ (started[b] > 0 => status[b] \in Past)
    BY DEF Dispatched, OneStart
  <2>2. ASSUME NEW r \in Runners, Executing(r, b) PROVE started[b] = 1
    BY <2>2 DEF Executing, Dispatched, OneJob, Begun
  <2> QED  BY <2>1, <2>2 DEF Past
<1> QED  BY <1>1, DispatchedAlways, PTL

(* A build marked succeeded was executed once and is executed by nobody     *)
(* when it is so marked (update_job_status).                                *)
THEOREM SuccessWasExecuted == Spec => []SucceededWasExecuted
<1>1. Dispatched => SucceededWasExecuted
  BY DEF Dispatched
<1> QED  BY <1>1, DispatchedAlways, PTL

(* No grant survives a requeue and a later claim: the one an agent carries  *)
(* opens a build only while that agent's runner holds it                    *)
(* (require_active_job_signing_grant).                                      *)
THEOREM GrantsOpenOwnBuilds == Spec => []GrantOpensOwnBuild
<1>1. Dispatched => GrantOpensOwnBuild
  BY DEF Dispatched, GrantsMatch, Opens, GrantOpensOwnBuild
<1> QED  BY <1>1, DispatchedAlways, PTL

(* However stale the selection of the timeout monitor is, only a running    *)
(* and overdue build is timed out (time_out_overdue_builds).                *)
THEOREM TimeoutsAreDue == Spec => OnlyOverdueTimedOut
<1>1. Dispatched /\ [Next]_vars => OverdueOnly
  BY EveryStepAdvances DEF Advances
<1>2. Dispatched /\ [Next]_vars =>
        [\A b \in Builds : status[b] # "timed_out" /\ status'[b] = "timed_out"
            => status[b] = "running" /\ aged[b]]_vars
  BY <1>1 DEF OverdueOnly
<1> QED  BY <1>2, DispatchedAlways, PTL DEF Spec, OnlyOverdueTimedOut
=============================================================================
