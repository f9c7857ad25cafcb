------------------------------ MODULE Rollout ------------------------------
(***************************************************************************)
(* The staged rollout of one Google Play release: the daemon's row, the    *)
(* track in Play, the people who act on the release in Oore, the rollout   *)
(* monitor, and the people who act on the same track in Play Console.      *)
(*                                                                         *)
(* Changes made through Oore read the row, change Play and write the row   *)
(* under one lock; what a caller saw before it took the lock may be stale, *)
(* and Play can change at any time, also between Oore's read of the track  *)
(* and its change.  A fraction is the number of policy steps reached.      *)
(***************************************************************************)
EXTENDS Naturals, Sequences

CONSTANTS
    People,      \* requests to POST /v1/releases/{id}/{action} in progress at once
    Monitor,     \* the rollout monitor's task
    Full,        \* the policy's last step, a fraction of 1
    Gated,       \* the policy asks for an approval before production
    Threshold,   \* the policy has a crash_rate_threshold
    MaxFaults,   \* bound: changes in Play Console, failed calls, requests cut short
    NoOne

Callers == People \cup {Monitor}

ASSUME RolloutAssumption ==
    /\ Monitor \notin People /\ NoOne \notin Callers
    /\ Full \in Nat \ {0} /\ Gated \in BOOLEAN /\ Threshold \in BOOLEAN
    /\ MaxFaults \in Nat

VARIABLES
    rel,      \* the row of releases: state, rollout_fraction, approved_at
    next,     \* next_step_at: none, ahead, or reached
    unwell,   \* health_error is set
    play,     \* the release on its track in Play
    call,     \* what each caller is doing
    lock,     \* release_lock(release)
    faults

rolloutVars == <<rel, next, unwell, play, call, lock, faults>>

Fractions == 0..Full
States == {"rolling", "paused", "halted", "complete", "failed"}
Actions == {"raise", "pause", "resume", "halt", "complete", "approve"}
Views == [state : States, fraction : Fractions, approved : BOOLEAN]

Done == [pc |-> "idle", op |-> "none", seen |-> [state |-> "failed", fraction |-> 0, approved |-> FALSE],
         due |-> FALSE, sync |-> <<>>, expect |-> TRUE, to |-> "failed", frac |-> 0]

RolloutTypeOK ==
    /\ rel \in Views
    /\ next \in {"none", "later", "due"}
    /\ unwell \in BOOLEAN
    /\ play \in [status : {"draft", "in_progress", "halted", "completed", "missing"},
                 fraction : Fractions]
    /\ \A c \in Callers :
        /\ call[c].pc \in {"idle", "observe", "sync", "decide", "health", "change", "store", "write"}
        /\ call[c].op \in Actions \cup {"none", "step"}
        /\ call[c].seen \in Views
        /\ call[c].frac \in Fractions
    /\ lock \in Callers \cup {NoOne}
    /\ faults \in 0..MaxFaults

-----------------------------------------------------------------------------
(* The release's own rules.                                                 *)

(* ReleaseState::valid_transitions, for a release that has been uploaded. *)
MayMove(from, to) ==
    to \in CASE from = "rolling" -> {"rolling", "paused", "halted", "complete", "failed"}
             [] from = "paused"  -> {"rolling", "halted", "complete", "failed"}
             [] from = "halted"  -> {"rolling", "failed"}
             [] OTHER            -> {}

Terminal(s) == s \in {"complete", "failed"}

(* awaiting_approval, with the before_production gate. *)
Awaiting(r) == Gated /\ ~r.approved /\ ~Terminal(r.state)

MutNextFor(r) ==
    IF r.state = "rolling" /\ ~Awaiting(r) /\ r.fraction + 1 < Full THEN "later" ELSE "none"

(* next_step_at: set for a rolling release with a step ahead. *)
NextFor(r) == IF r.state = "rolling" /\ ~Awaiting(r) /\ r.fraction < Full THEN "later" ELSE "none"

(* allowed_actions, for a maintainer. *)
Allowed(r) ==
    LET live == r.state \in {"rolling", "paused"}
        draft == r.state = "paused" /\ r.fraction = 0
    IN  {a \in Actions :
            CASE a = "raise"    -> r.state = "rolling" /\ ~Awaiting(r) /\ r.fraction < Full
              [] a = "pause"    -> r.state = "rolling"
              [] a = "resume"   -> r.state \in {"paused", "halted"} /\ ~Awaiting(r)
              [] a = "halt"     -> live /\ ~draft
              [] a = "complete" -> live /\ ~Awaiting(r)
              [] a = "approve"  -> Awaiting(r)}

(* store_sync_changes: what to record for what Play shows. *)
SyncChanges(r, p) ==
    CASE p.status = "missing" /\ ~Terminal(r.state) -> <<[to |-> "failed", frac |-> r.fraction]>>
      [] p.status = "completed" /\ r.state \in {"rolling", "paused"} -> <<[to |-> "complete", frac |-> Full]>>
      [] p.status = "completed" /\ r.state = "halted" ->
            <<[to |-> "rolling", frac |-> Full], [to |-> "complete", frac |-> Full]>>
      [] p.status = "halted" /\ r.state \in {"rolling", "paused"} -> <<[to |-> "halted", frac |-> r.fraction]>>
      [] p.status = "in_progress" /\ r.state = "rolling" /\ p.fraction > r.fraction ->
            <<[to |-> "rolling", frac |-> p.fraction]>>
      [] p.status = "in_progress" /\ r.state = "halted" ->
            <<[to |-> "rolling", frac |-> IF p.fraction > r.fraction THEN p.fraction ELSE r.fraction]>>
      [] OTHER -> <<>>

-----------------------------------------------------------------------------
RolloutInit ==
    /\ \E s \in {[state |-> "rolling", fraction |-> 1, status |-> "in_progress"],
                 [state |-> "paused", fraction |-> 0, status |-> "draft"]} :
        /\ rel = [state |-> s.state, fraction |-> s.fraction, approved |-> FALSE]
        /\ play = [status |-> s.status, fraction |-> s.fraction]
    /\ next = NextFor(rel)
    /\ unwell = FALSE
    /\ call = [c \in Callers |-> Done]
    /\ lock = NoOne
    /\ faults = 0

Fault == faults < MaxFaults /\ faults' = faults + 1

Return(c) ==
    /\ call' = [call EXCEPT ![c] = Done]
    /\ lock' = IF lock = c THEN NoOne ELSE lock

(* release_action: the release as read, and the first check of the action. *)
ReleaseAction(c, a) ==
    /\ c \in People /\ call[c].pc = "idle"
    /\ a \in Allowed(rel)
    /\ call' = [call EXCEPT ![c] = [Done EXCEPT !.pc = "observe", !.op = a, !.seen = rel]]
    /\ UNCHANGED <<rel, next, unwell, play, lock, faults>>

(* run_rollout_tick reads the row; a due step always syncs with Play first, *)
(* otherwise a sync happens every HEALTH_CHECK_INTERVAL_SECS.               *)
Tick(pc) ==
    /\ call[Monitor].pc = "idle"
    /\ call' = [call EXCEPT ![Monitor] = [Done EXCEPT !.pc = pc, !.op = "step", !.seen = rel,
                                              !.due = (rel.state = "rolling" /\ next = "due")]]
    /\ UNCHANGED <<rel, next, unwell, play, lock, faults>>

TickSync == ~Terminal(rel.state) /\ Tick("observe")

(* A tick that does not look at Play takes no step. *)
NoStepDue == rel.state = "rolling" /\ next # "due"

TickHealth == NoStepDue /\ Tick("health")

(* The sync came to nothing, or failed: a person's request goes on with     *)
(* what it read; the monitor goes on when nothing changed, and gives up a   *)
(* due step when it could not look at Play.                                 *)
AfterSync(c, failed) ==
    IF c = Monitor /\ (call[c].seen.state # "rolling" \/ (failed /\ call[c].due)) THEN Done
    ELSE [call[c] EXCEPT !.pc = IF c = Monitor THEN "health" ELSE "decide",
                           !.sync = <<>>, !.expect = TRUE]

(* deps.store.observe, and what it calls for. *)
Observe(c) ==
    LET changes == SyncChanges(call[c].seen, play)
    IN  /\ call[c].pc = "observe"
        /\ call' = [call EXCEPT ![c] = IF changes = <<>> THEN AfterSync(c, FALSE)
                                       ELSE [@ EXCEPT !.pc = "sync", !.sync = changes]]
        /\ UNCHANGED <<rel, next, unwell, play, lock, faults>>

ObserveFails(c) ==
    /\ call[c].pc = "observe" /\ Fault
    /\ call' = [call EXCEPT ![c] = AfterSync(c, TRUE)]
    /\ UNCHANGED <<rel, next, unwell, play, lock>>

MutAsExpected(c) == TRUE

(* ReleaseChange::expect against the row as it is now. *)
AsExpected(c) ==
    call[c].expect => rel.state = call[c].seen.state /\ rel.fraction = call[c].seen.fraction

WriteRow(r) == rel' = r /\ next' = NextFor(r)

(* transition_release with from_store: the first change is checked against  *)
(* what was compared, a second one only against the table.  A person's      *)
(* request goes on with the new row, the monitor with its next release.     *)
RecordSync(c) ==
    LET now == Head(call[c].sync)
        r == [rel EXCEPT !.state = now.to, !.fraction = now.frac]
        legal == /\ AsExpected(c) /\ MayMove(rel.state, now.to)
                 /\ now.to = "rolling" /\ rel.state = "rolling" => now.frac > rel.fraction
    IN  /\ call[c].pc = "sync" /\ lock = NoOne
        /\ \/ /\ legal
              /\ WriteRow(r)
              /\ call' = [call EXCEPT ![c] =
                    IF Len(@.sync) > 1 THEN [@ EXCEPT !.sync = Tail(call[c].sync), !.expect = FALSE]
                    ELSE IF c = Monitor THEN Done
                    ELSE [@ EXCEPT !.pc = "decide", !.seen = r, !.sync = <<>>, !.expect = TRUE]]
           \/ /\ ~legal
              /\ call' = [call EXCEPT ![c] = AfterSync(c, TRUE)]
              /\ UNCHANGED <<rel, next>>
        /\ UNCHANGED <<unwell, play, lock, faults>>

Plan(c, to, frac, expect) ==
    [call[c] EXCEPT !.pc = "change", !.to = to, !.frac = frac, !.expect = expect]

(* The second check of release_action, and the change an action asks for.   *)
(* Pause and halt go ahead although a step landed meanwhile.                *)
DecideAction(c) ==
    LET r == call[c].seen
        a == call[c].op
    IN  /\ call[c].pc = "decide" /\ a # "approve"
        /\ \/ /\ a \in Allowed(r)
              /\ \E f \in Fractions :
                    /\ a = "raise" => f > r.fraction
                    /\ a # "raise" => f = CASE a = "complete" -> Full
                                            [] a = "resume" /\ r.fraction = 0 -> 1
                                            [] OTHER -> r.fraction
                    /\ call' = [call EXCEPT ![c] =
                        CASE a = "pause"  -> Plan(c, "paused", f, FALSE)
                          [] a = "halt"   -> Plan(c, "halted", f, FALSE)
                          [] a = "resume" -> Plan(c, "rolling", f, TRUE)
                          [] OTHER        -> Plan(c, IF f = Full THEN "complete" ELSE "rolling", f, TRUE)]
              /\ UNCHANGED lock
           \/ a \notin Allowed(r) /\ Return(c)
        /\ UNCHANGED <<rel, next, unwell, play, faults>>

(* approve_release, one transaction under the lock.  A draft that is        *)
(* approved while rolling starts at the next tick.                          *)
Approve(c) ==
    LET r == [rel EXCEPT !.approved = TRUE]
    IN  /\ call[c].pc = "decide" /\ call[c].op = "approve" /\ lock = NoOne
        /\ \/ /\ "approve" \in Allowed(call[c].seen) /\ Awaiting(rel)
              /\ rel' = r
              /\ next' = IF NextFor(r) = "later" /\ rel.fraction = 0 THEN "due" ELSE NextFor(r)
           \/ /\ "approve" \notin Allowed(call[c].seen) \/ ~Awaiting(rel)
              /\ UNCHANGED <<rel, next>>
        /\ Return(c)
        /\ UNCHANGED <<unwell, play, faults>>

(* The rest of the monitor's pass: the crash rate, and the due step. *)
CheckHealth(sick, breach) ==
    /\ call[Monitor].pc = "health"
    /\ unwell' = sick
    /\ LET r == call[Monitor].seen
       IN  call' = [call EXCEPT ![Monitor] =
                IF breach THEN Plan(Monitor, "halted", r.fraction, FALSE)
                ELSE IF (Threshold /\ sick) \/ ~call[Monitor].due \/ Awaiting(r) \/ r.fraction = Full THEN Done
                ELSE Plan(Monitor, IF r.fraction + 1 = Full THEN "complete" ELSE "rolling",
                          r.fraction + 1, TRUE)]
    /\ UNCHANGED <<rel, next, play, lock>>

CrashRateSkipped == CheckHealth(unwell, FALSE) /\ UNCHANGED faults
CrashRateGood == Threshold /\ CheckHealth(FALSE, FALSE) /\ UNCHANGED faults
CrashRateBreached == Threshold /\ CheckHealth(FALSE, TRUE) /\ UNCHANGED faults
CrashRateUnavailable == Threshold /\ CheckHealth(TRUE, FALSE) /\ Fault

-----------------------------------------------------------------------------
(* transition_release for a change that goes to Play.                       *)

(* A change that widens the rollout waits for the approval. *)
Approved(c) == call[c].to \in {"rolling", "complete"} => ~Awaiting(rel)

(* The lock, the row read under it, and the checks. *)
StartChange(c) ==
    LET legal == /\ AsExpected(c) /\ MayMove(rel.state, call[c].to) /\ Approved(c)
                 /\ call[c].to = "rolling" /\ rel.state = "rolling" => call[c].frac > rel.fraction
    IN  /\ call[c].pc = "change" /\ lock = NoOne
        /\ \/ /\ legal
              /\ lock' = c
              /\ call' = [call EXCEPT ![c].pc = "store", ![c].seen = rel,
                    ![c].frac = IF call[c].to \in {"paused", "halted"} THEN rel.fraction ELSE @]
           \/ ~legal /\ Return(c)
        /\ UNCHANGED <<rel, next, unwell, play, faults>>

MutPlayAllows(from, to, status) == status # "missing"

(* store_change and play_allows: a release that is gone is never put back.  *)
PlayAllows(from, to, status) ==
    CASE to = "paused" -> TRUE
      [] from = "rolling" /\ to = "rolling" -> status = "in_progress"
      [] from # "rolling" /\ to = "rolling" -> status \in {"in_progress", "halted", "draft"}
      [] to = "halted"   -> status \in {"in_progress", "halted"}
      [] to = "complete" -> status \in {"in_progress", "draft"}

(* apply_play; a pause is Oore's own and is not sent. *)
Applied(c) ==
    CASE call[c].to = "paused" -> play
      [] call[c].to = "halted" -> [status |-> "halted", fraction |-> call[c].frac]
      [] call[c].to = "complete" \/ (call[c].to = "rolling" /\ call[c].frac = Full) ->
            [status |-> "completed", fraction |-> Full]
      [] OTHER -> [status |-> "in_progress", fraction |-> call[c].frac]

StoreAnswers(c) ==
    /\ call[c].pc = "store"
    /\ \/ /\ PlayAllows(call[c].seen.state, call[c].to, play.status)
          /\ play' = Applied(c)
          /\ call' = [call EXCEPT ![c].pc = "write"]
          /\ UNCHANGED lock
       \/ /\ ~PlayAllows(call[c].seen.state, call[c].to, play.status)
          /\ Return(c) /\ UNCHANGED play
    /\ UNCHANGED <<rel, next, unwell, faults>>

(* Play cannot be reached, or its answer to a commit is lost. *)
StoreFails(c) ==
    /\ call[c].pc = "store" /\ Fault
    /\ \/ UNCHANGED play
       \/ /\ PlayAllows(call[c].seen.state, call[c].to, play.status)
          /\ play' = Applied(c)
    /\ Return(c)
    /\ UNCHANGED <<rel, next, unwell>>

WriteChange(c) ==
    /\ call[c].pc = "write"
    /\ WriteRow([rel EXCEPT !.state = call[c].to, !.fraction = call[c].frac])
    /\ Return(c)
    /\ UNCHANGED <<unwell, play, faults>>

-----------------------------------------------------------------------------
(* Time, requests cut short by their client, and Play Console.  A monitor   *)
(* that dies with the daemon leaves what a lost answer leaves (StoreFails). *)

TimePasses == next = "later" /\ next' = "due" /\ UNCHANGED <<rel, unwell, play, call, lock, faults>>

CutShort(c) == call[c].pc # "idle" /\ Fault /\ Return(c) /\ UNCHANGED <<rel, next, unwell, play>>

Console(status, fraction) ==
    /\ \/ play.status \in {"draft", "in_progress", "halted"} /\ status = "missing" /\ fraction = 0
       \/ play.status = "in_progress" /\ status = "halted" /\ fraction = play.fraction
       \/ play.status = "in_progress" /\ status = "in_progress" /\ fraction \in (play.fraction + 1)..(Full - 1)
       \/ play.status \in {"draft", "halted"} /\ status = "in_progress" /\ fraction \in 1..(Full - 1)
            /\ fraction >= play.fraction
       \/ play.status \in {"draft", "in_progress"} /\ status = "completed" /\ fraction = Full
    /\ Fault
    /\ play' = [status |-> status, fraction |-> fraction]
    /\ UNCHANGED <<rel, next, unwell, call, lock>>

CallStep(c) ==
    \/ Observe(c) \/ ObserveFails(c) \/ RecordSync(c)
    \/ DecideAction(c) \/ Approve(c)
    \/ StartChange(c) \/ StoreAnswers(c) \/ StoreFails(c) \/ WriteChange(c)

Health == CrashRateSkipped \/ CrashRateGood \/ CrashRateBreached \/ CrashRateUnavailable

RolloutNext ==
    \/ \E c \in Callers : CallStep(c)
    \/ \E c \in People, a \in Actions : ReleaseAction(c, a)
    \/ TickSync \/ TickHealth \/ Health
    \/ \E c \in People : CutShort(c)
    \/ TimePasses
    \/ \E s \in {"in_progress", "halted", "completed", "missing"}, f \in Fractions : Console(s, f)

(* The monitor keeps ticking and looks at Play and at the crash rate again  *)
(* and again, tasks keep running and the lock is fair.                      *)
RolloutSpec ==
    /\ RolloutInit /\ [][RolloutNext]_rolloutVars
    /\ \A c \in Callers : WF_rolloutVars(CallStep(c))
    /\ WF_rolloutVars(Health) /\ WF_rolloutVars(TimePasses)
    /\ SF_rolloutVars(TickSync) /\ SF_rolloutVars(CrashRateGood)
    /\ SF_rolloutVars(RecordSync(Monitor) \/ StartChange(Monitor))

-----------------------------------------------------------------------------
(* Properties.                                                              *)

(* Oore widens the rollout in Play only for a release that is not waiting   *)
(* for an approval; and its schedule does so only while the release is      *)
(* rolling in Oore and in progress in Play: a pause, a halt or a discard    *)
(* that a step races with holds, wherever it was made (expect, play_allows).*)
StopsHold ==
    [][\A c \in Callers :
        call[c].pc = "store" /\ call' # call /\ play' # play /\ play'.status # "halted" =>
            /\ ~Awaiting(rel)
            /\ call[c].op = "step" => rel.state = "rolling" /\ play.status = "in_progress"]_rolloutVars

(* The recorded share never falls and an ended release stays as it ended,   *)
(* with people, the schedule and syncs from Play acting on stale views      *)
(* (transition_release, store_sync_changes).                                *)
ShareNeverFalls ==
    [][/\ rel'.fraction >= rel.fraction
       /\ Terminal(rel.state) => rel' = rel]_rolloutVars

(* A rolling release that needs no approval does not roll for ever: steps   *)
(* are taken, or someone or something stops it (run_rollout_tick).          *)
RolloutMovesOn ==
    rel.state = "rolling" /\ ~Awaiting(rel) ~> rel.state # "rolling"

(* "A change planned against an older view [...] must not overwrite what    *)
(* Play holds now" (apply_play): Oore never takes back a share that Play    *)
(* already shows.                                                           *)
PlayIsTheSourceOfTruth ==
    [][\A c \in Callers :
        call[c].pc = "store" /\ call' # call /\ play' # play /\ play'.status # "halted"
            => play'.fraction >= play.fraction]_rolloutVars
=============================================================================
