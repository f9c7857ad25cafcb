----------------------------- MODULE Artifacts -----------------------------
(***************************************************************************)
(* The artifacts of builds: a runner reserves a row, puts the file into    *)
(* the storage and completes the row (artifacts.rs, the runner's           *)
(* scan_and_upload_artifacts); three background passes remove files and    *)
(* rows (background.rs: the sweep of stale reservations, the retention     *)
(* cleanup and the expiry of artifacts); people hand out single-use        *)
(* download tokens (artifact_tokens.rs); releases of the builds come and   *)
(* go (releases.rs).  Database and storage are two stores without a common *)
(* transaction: every statement and every storage call is a step, and a    *)
(* storage call or a statement may fail.                                   *)
(*                                                                         *)
(* An artifact is <<b, i>>, the i-th file the runner of build b uploads.   *)
(* All files of a build have the same content here when SameContent holds, *)
(* so that the deduplication by checksum is met.                           *)
(***************************************************************************)
EXTENDS Naturals, FiniteSets

CONSTANTS
    Builds,       \* the builds of one project
    Files,        \* how many files the runner of a build uploads
    SameContent,  \* BOOLEAN: the files of a build have one checksum
    Policies,     \* the retention policies an administrator sets in turn
    Downloads     \* requests that present the download token

ASSUME ArtifactsAssumption ==
    /\ Files \in Nat \ {0}
    /\ SameContent \in BOOLEAN
    /\ \A p \in Policies : /\ p.target \in {"artifacts_only", "full"}
                           /\ p.keep \subseteq {"succeeded", "failed"}

VARIABLES
    build,    \* builds: status, expired_from, and (history) the outcome it had
    rel,      \* releases of the build: "none", "active" (not complete/failed), "over"
    art,      \* artifacts rows
    file,     \* artifacts whose object is in the storage
    up,       \* the runner's upload loop, per build
    sweep,    \* failed rows whose object the running sweep has yet to delete
    ret,      \* the running retention pass
    expiry,   \* the running pass of expired_artifact_monitor
    token,    \* a single-use download token
    dl,       \* requests for /install/artifact/{token}
    cleaned   \* history: artifacts whose object retention or expiry deleted

vars == <<build, rel, art, file, up, sweep, ret, expiry, token, dl, cleaned>>
upVars == <<art, file, up>>
tokVars == <<token, dl>>
passVars == <<sweep, ret, expiry>>

Arts == Builds \X (1..Files)
Outcomes == {"succeeded", "failed"}
NoRow == [state |-> "none", why |-> "none", age |-> "fresh", due |-> "never"]
IdlePass == [pc |-> "idle", policy |-> [target |-> "full", keep |-> {}],
             builds |-> {}, arts |-> {}, cur |-> "none"]

NoToken == [state |-> "none", used |-> FALSE, revoked |-> FALSE, of |-> <<>>]
GoneToken == [NoToken EXCEPT !.state = "gone"]

(* Where a row still exists. *)
HasRow(a) == art[a].state \in {"pending", "available", "failed"}
HasBuild(b) == build[b].status # "deleted"

(* Rows of S deleted, with the download token of one of them by the cascade. *)
DropRows(S) ==
    /\ art' = [a \in Arts |-> IF a \in S /\ HasRow(a) THEN [NoRow EXCEPT !.state = "gone"]
                              ELSE art[a]]
    /\ token' = IF token.of \in S THEN GoneToken ELSE token

Init ==
    /\ build = [b \in Builds |-> [status |-> "running", from |-> "none", outcome |-> "none"]]
    /\ rel = [b \in Builds |-> "none"]
    /\ art = [a \in Arts |-> NoRow]
    /\ file = {}
    /\ up = [b \in Builds |-> [pc |-> "idle", i |-> 1]]
    /\ sweep = {}
    /\ ret = IdlePass
    /\ expiry = [list |-> {}, cur |-> {}]
    /\ token = NoToken
    /\ dl = [d \in Downloads |-> "idle"]
    /\ cleaned = {}

-----------------------------------------------------------------------------
(* The runner's upload loop. *)

Cur(b) == <<b, up[b].i>>
Goto(b, pc) == up' = [up EXCEPT ![b].pc = pc]
NextFile(b) ==
    up' = [up EXCEPT ![b] = IF @.i = Files THEN [@ EXCEPT !.pc = "done"]
                            ELSE [pc |-> "idle", i |-> @.i + 1]]

Duplicate(b) ==
    SameContent /\ \E i \in 1..Files : art[<<b, i>>].state = "available"

(* create_artifact inserts the pending row once the upload URL exists. The    *)
(* row expires (ttl) when the retention policy of the moment says so.         *)
Reserve(b, ttl) ==
    /\ up[b].pc = "idle" /\ HasBuild(b) /\ ~Duplicate(b)
    /\ art' = [art EXCEPT ![Cur(b)] = [NoRow EXCEPT !.state = "pending",
                                                    !.due = IF ttl THEN "no" ELSE "never"]]
    /\ Goto(b, "reserved")
    /\ UNCHANGED <<build, rel, file, passVars, tokVars, cleaned>>

(* A checksum that is available already is answered with that artifact and    *)
(* an empty URL, which the runner takes for a storage that is not configured: *)
(* its abort finds no pending row and the upload ends in an error. A build    *)
(* that retention deleted is not found.                                       *)
ReserveRefused(b) ==
    /\ up[b].pc = "idle" /\ (Duplicate(b) \/ ~HasBuild(b))
    /\ Goto(b, "over")
    /\ UNCHANGED <<build, rel, art, file, passVars, tokVars, cleaned>>

(* The URL (a token of the local storage, a presigned one of S3) is good for  *)
(* UPLOAD_URL_TTL_SECS; a PUT that began in time may end much later.          *)
PutStart(b) ==
    /\ up[b].pc = "reserved"
    /\ Goto(b, IF art[Cur(b)].age = "fresh" THEN "putting" ELSE "aborting")
    /\ UNCHANGED <<build, rel, art, file, passVars, tokVars, cleaned>>

(* handle_upload publishes the file by a rename, or removes the partial one. *)
PutEnd(b) ==
    /\ up[b].pc = "putting"
    /\ \/ file' = file \cup {Cur(b)} /\ Goto(b, "stored")
       \/ UNCHANGED file /\ Goto(b, "aborting")
    /\ UNCHANGED <<build, rel, art, passVars, tokVars, cleaned>>

(* Which row finish_artifact still finalizes. *)
Finishable(a) == art[a].state = "pending" /\ HasBuild(a[1])

(* remove_abandoned_upload: an upload the sweep gave up on leaves no file. *)
Abandoned(a) == art[a].state = "failed" /\ art[a].why = "reservation expired"

(* complete_artifact; `answered` tells whether the runner hears of it. *)
Complete(b, answered) ==
    LET a == Cur(b) IN
    /\ up[b].pc = "stored"
    /\ \/ /\ Finishable(a)
          /\ art' = [art EXCEPT ![a].state = "available"]
          /\ IF answered THEN NextFile(b) ELSE Goto(b, "aborting")
          /\ UNCHANGED file
       \/ /\ ~Finishable(a)
          /\ \/ Abandoned(a) /\ file' = file \ {a}
             \/ UNCHANGED file                    \* not abandoned, or a storage error
          /\ Goto(b, "aborting")
          /\ UNCHANGED art
    /\ UNCHANGED <<build, rel, passVars, tokVars, cleaned>>

(* The completion never reached the daemon. *)
CompleteLost(b) ==
    /\ up[b].pc = "stored"
    /\ Goto(b, "aborting")
    /\ UNCHANGED <<build, rel, art, file, passVars, tokVars, cleaned>>

(* abort_artifact fails the row and leaves the file; its result is ignored. *)
Abort(b, delivered) ==
    LET a == Cur(b) IN
    /\ up[b].pc = "aborting"
    /\ art' = IF delivered /\ Finishable(a)
              THEN [art EXCEPT ![a].state = "failed", ![a].why = "aborted"] ELSE art
    /\ Goto(b, "over")
    /\ UNCHANGED <<build, rel, file, passVars, tokVars, cleaned>>

(* The runner dies; the connection of a running PUT breaks. *)
RunnerDies(b) ==
    /\ up[b].pc \notin {"done", "over"}
    /\ Goto(b, "over")
    /\ UNCHANGED <<build, rel, art, file, passVars, tokVars, cleaned>>

(* The build ends: with success once its runner has uploaded everything, in   *)
(* another way at any time, while the runner may still be uploading.          *)
BuildEnds(b, outcome) ==
    /\ build[b].status = "running"
    /\ outcome = "succeeded" => up[b].pc = "done"
    /\ build' = [build EXCEPT ![b].status = outcome, ![b].outcome = outcome]
    /\ UNCHANGED <<rel, upVars, passVars, tokVars, cleaned>>

(* Time passes for a reservation: its URL runs out, then the grace period. *)
Age(a) ==
    /\ art[a].state = "pending" /\ art[a].age # "overdue"
    /\ art' = [art EXCEPT ![a].age = IF @ = "fresh" THEN "late" ELSE "overdue"]
    /\ UNCHANGED <<build, rel, file, up, passVars, tokVars, cleaned>>

(* expires_at of an artifact passes. *)
FallDue(a) ==
    /\ HasRow(a) /\ art[a].due = "no"
    /\ art' = [art EXCEPT ![a].due = "yes"]
    /\ UNCHANGED <<build, rel, file, up, passVars, tokVars, cleaned>>

-----------------------------------------------------------------------------
(* sweep_stale_pending_artifacts: rows first, objects after them. *)

Stale == {a \in Arts : art[a].state = "pending" /\ art[a].age = "overdue"}

(* Mutant: the sweep deletes the objects and leaves the rows for later. *)
MutSweepMark ==
    /\ sweep = {} /\ Stale # {}
    /\ sweep' = Stale
    /\ UNCHANGED <<build, rel, upVars, ret, expiry, tokVars, cleaned>>

SweepMark ==
    /\ sweep = {} /\ Stale # {}
    /\ art' = [a \in Arts |-> IF a \in Stale
                              THEN [art[a] EXCEPT !.state = "failed", !.why = "reservation expired"]
                              ELSE art[a]]
    /\ sweep' = Stale
    /\ UNCHANGED <<build, rel, file, up, ret, expiry, tokVars, cleaned>>

SweepDelete(a, stored) ==
    /\ a \in sweep
    /\ sweep' = sweep \ {a}
    /\ file' = IF stored THEN file \ {a} ELSE file
    /\ UNCHANGED <<build, rel, art, up, ret, expiry, tokVars, cleaned>>

-----------------------------------------------------------------------------
(* run_retention_cleanup, one project. *)

(* Mutant: keep_statuses looks at the status only. *)
MutOutcomeOf(b) == build[b].status

(* The outcome that keep_statuses looks at: COALESCE(expired_from, status). *)
OutcomeOf(b) == IF build[b].from = "none" THEN build[b].status ELSE build[b].from

Eligible(p) ==
    {b \in Builds :
        /\ build[b].status \in (Outcomes \ p.keep) \cup
                               (IF p.target = "full" THEN {"expired"} ELSE {})
        /\ OutcomeOf(b) \in (Outcomes \cup {"expired"}) \ p.keep
        /\ rel[b] # "active"
        /\ build[b].status = "expired" => rel[b] = "none"}

(* collect_retention_candidates: which of the eligible builds the limits on   *)
(* age, number and size pick is left open.                                    *)
RetentionPick(p, S) ==
    /\ ret.pc = "idle" /\ S # {} /\ S \subseteq Eligible(p)
    /\ ret' = [IdlePass EXCEPT !.pc = "load", !.policy = p, !.builds = S]
    /\ UNCHANGED <<build, rel, upVars, sweep, expiry, tokVars, cleaned>>

(* load_artifacts_for_builds: the rows of that moment, whatever their state. *)
RetentionLoad ==
    /\ ret.pc = "load"
    /\ ret' = [ret EXCEPT !.pc = "next", !.arts = {a \in Arts : HasRow(a) /\ a[1] \in ret.builds}]
    /\ UNCHANGED <<build, rel, upVars, sweep, expiry, tokVars, cleaned>>

(* The pass goes on to one of its builds, or is over. *)
RetentionNext ==
    /\ ret.pc = "next"
    /\ \/ /\ ret.builds = {}
          /\ ret' = IdlePass
       \/ \E b \in ret.builds :
             ret' = [ret EXCEPT !.pc = "files", !.builds = @ \ {b}, !.cur = b]
    /\ UNCHANGED <<build, rel, upVars, sweep, expiry, tokVars, cleaned>>

ToDelete == {a \in ret.arts : a[1] = ret.cur}

(* delete_artifact_files: a storage error leaves the build for a later pass. *)
RetentionFile(a, stored) ==
    /\ ret.pc = "files" /\ a \in ToDelete
    /\ IF stored
       THEN /\ file' = file \ {a}
            /\ cleaned' = cleaned \cup {a}
            /\ ret' = [ret EXCEPT !.arts = @ \ {a}]
       ELSE /\ ret' = [ret EXCEPT !.pc = "next"]
            /\ UNCHANGED <<file, cleaned>>
    /\ UNCHANGED <<build, rel, art, up, sweep, expiry, tokVars>>

(* Mutant: the DELETE trusts the filter that picked the build. *)
MutDeletable(b) == ret.policy.target = "full"

(* The DELETE of a full cleanup spares a build that a release refers to. *)
Deletable(b) == ret.policy.target = "full" /\ rel[b] = "none"

(* cleanup_build_record, first statement: the build row goes, or its          *)
(* artifact rows go; or the statement fails.                                  *)
RetentionRows ==
    LET b == ret.cur IN
    /\ ret.pc = "files" /\ ToDelete = {}
    /\ \/ /\ Deletable(b)
          /\ build' = [build EXCEPT ![b].status = "deleted"]
          /\ rel' = [rel EXCEPT ![b] = IF @ = "none" THEN @ ELSE "lost"]
          /\ DropRows({b} \X (1..Files))
          /\ ret' = [ret EXCEPT !.pc = "next"]
       \/ /\ ~Deletable(b)
          /\ DropRows({b} \X (1..Files))
          /\ ret' = [ret EXCEPT !.pc = "mark"]
          /\ UNCHANGED <<build, rel>>
       \/ /\ ret' = [ret EXCEPT !.pc = "next"]
          /\ UNCHANGED <<build, rel, art, token>>
    /\ UNCHANGED <<file, up, sweep, expiry, dl, cleaned>>

(* The rest of expire_build_artifacts: expired_from, then transition_build,   *)
(* which rejects a build that is expired already.                             *)
MarkExpired(b) ==
    IF build[b].status = "expired" THEN build[b]
    ELSE [build[b] EXCEPT !.from = build[b].status, !.status = "expired"]

RetentionMark ==
    /\ ret.pc = "mark"
    /\ build' = [build EXCEPT ![ret.cur] = MarkExpired(ret.cur)]
    /\ ret' = [ret EXCEPT !.pc = "next"]
    /\ UNCHANGED <<rel, upVars, sweep, expiry, tokVars, cleaned>>

-----------------------------------------------------------------------------
(* expired_artifact_monitor: object first, row after it. *)

ExpiryLoad ==
    LET S == {a \in Arts : HasRow(a) /\ art[a].due = "yes" /\ rel[a[1]] # "active"} IN
    /\ expiry = [list |-> {}, cur |-> {}] /\ S # {}
    /\ expiry' = [expiry EXCEPT !.list = S]
    /\ UNCHANGED <<build, rel, upVars, sweep, ret, tokVars, cleaned>>

ExpiryFile(a, stored) ==
    /\ a \in expiry.list /\ expiry.cur = {}
    /\ expiry' = [list |-> expiry.list \ {a}, cur |-> IF stored THEN {a} ELSE {}]
    /\ IF stored THEN file' = file \ {a} /\ cleaned' = cleaned \cup {a}
       ELSE UNCHANGED <<file, cleaned>>
    /\ UNCHANGED <<build, rel, art, up, sweep, ret, tokVars>>

ExpiryRow(deleted) ==
    /\ expiry.cur # {}
    /\ IF deleted THEN DropRows(expiry.cur) ELSE UNCHANGED <<art, token>>
    /\ expiry' = [expiry EXCEPT !.cur = {}]
    /\ UNCHANGED <<build, rel, file, up, sweep, ret, dl, cleaned>>

(* The daemon restarts: the passes it was in are forgotten, and so are the    *)
(* requests it was serving.                                                   *)
Restart ==
    /\ <<sweep, ret, expiry>> # <<{}, IdlePass, [list |-> {}, cur |-> {}]>>
    /\ sweep' = {} /\ ret' = IdlePass /\ expiry' = [list |-> {}, cur |-> {}]
    /\ dl' = [d \in Downloads |-> IF dl[d] = "valid" THEN "refused" ELSE dl[d]]
    /\ UNCHANGED <<build, rel, upVars, token, cleaned>>

-----------------------------------------------------------------------------
(* Releases of a build, as the passes see them: a promotion or a publish      *)
(* inserts one for a build that exists, and it completes or fails. A release   *)
(* whose build is deleted goes with it (ON DELETE CASCADE): "lost".           *)

ReleaseStart(b) ==
    /\ HasBuild(b) /\ rel[b] # "active"
    /\ rel' = [rel EXCEPT ![b] = "active"]
    /\ UNCHANGED <<build, upVars, passVars, tokVars, cleaned>>

ReleaseEnd(b) ==
    /\ rel[b] = "active"
    /\ rel' = [rel EXCEPT ![b] = "over"]
    /\ UNCHANGED <<build, upVars, passVars, tokVars, cleaned>>

-----------------------------------------------------------------------------
(* Single-use download tokens. *)

Live(a) == art[a].state = "available" /\ art[a].due # "yes"

(* create_scoped_token_handler. *)
CreateToken(a) ==
    /\ token.state = "none" /\ Live(a)
    /\ token' = [NoToken EXCEPT !.state = "row", !.of = a]
    /\ UNCHANGED <<build, rel, upVars, passVars, dl, cleaned>>

(* validate_download_token and the check of the artifact's own expiry. *)
Validate(d) ==
    /\ dl[d] = "idle" /\ token.state = "row" /\ ~token.used /\ ~token.revoked
    /\ Live(token.of)
    /\ dl' = [dl EXCEPT ![d] = "valid"]
    /\ UNCHANGED <<build, rel, upVars, passVars, token, cleaned>>

(* Mutant: the claim does not look at used_at. *)
MutClaimable == token.state = "row"

(* claim_single_use_token: used_at is set once, revoked or not. *)
Claimable == token.state = "row" /\ ~token.used

Claim(d) ==
    /\ dl[d] = "valid"
    /\ IF Claimable
       THEN dl' = [dl EXCEPT ![d] = "served"] /\ token' = [token EXCEPT !.used = TRUE]
       ELSE dl' = [dl EXCEPT ![d] = "refused"] /\ UNCHANGED token
    /\ UNCHANGED <<build, rel, upVars, passVars, cleaned>>

(* revoke_scoped_token_handler; the monitor prunes revoked and past tokens. *)
EndToken ==
    /\ token.state = "row"
    /\ \/ ~token.revoked /\ token' = [token EXCEPT !.revoked = TRUE]
       \/ token' = GoneToken
    /\ UNCHANGED <<build, rel, upVars, passVars, dl, cleaned>>

-----------------------------------------------------------------------------
Runner(b) ==
    \/ \E x \in BOOLEAN : Reserve(b, x) \/ Complete(b, x) \/ Abort(b, x)
    \/ ReserveRefused(b) \/ PutStart(b) \/ PutEnd(b) \/ CompleteLost(b) \/ RunnerDies(b)
    \/ \E o \in Outcomes : BuildEnds(b, o)
    \/ ReleaseStart(b) \/ ReleaseEnd(b)

Passes ==
    \/ SweepMark \/ RetentionLoad \/ RetentionNext \/ RetentionRows \/ RetentionMark
    \/ ExpiryLoad \/ Restart
    \/ \E p \in Policies, S \in SUBSET Builds : RetentionPick(p, S)
    \/ \E x \in BOOLEAN : ExpiryRow(x)
    \/ \E a \in Arts, x \in BOOLEAN :
          SweepDelete(a, x) \/ RetentionFile(a, x) \/ ExpiryFile(a, x)

Next ==
    \/ \E b \in Builds : Runner(b)
    \/ Passes
    \/ \E a \in Arts : Age(a) \/ FallDue(a) \/ CreateToken(a)
    \/ \E d \in Downloads : Validate(d) \/ Claim(d)
    \/ EndToken

Spec == Init /\ [][Next]_vars

-----------------------------------------------------------------------------
(* Types, and what a row of each state goes with: a reservation given up or  *)
(* completed belongs to an upload that began; a build retention has expired   *)
(* remembers the outcome it had.                                              *)
ArtifactsTypeOK ==
    /\ \A b \in Builds :
          /\ build[b].status \in Outcomes \cup {"running", "expired", "deleted"}
          /\ build[b].status = "expired" => build[b].from = build[b].outcome
          /\ rel[b] \in {"none", "active", "over", "lost"}
          /\ up[b].i \in 1..Files
          /\ up[b].pc \in {"idle", "reserved", "putting", "stored", "aborting", "over", "done"}
    /\ \A a \in Arts :
          /\ art[a].state \in {"none", "pending", "available", "failed", "gone"}
          /\ art[a].why \in {"none", "aborted", "reservation expired"}
    /\ file \subseteq Arts /\ sweep \subseteq Arts /\ cleaned \subseteq Arts
    /\ ret.builds \subseteq Builds /\ ret.arts \subseteq Arts
    /\ expiry.list \cup expiry.cur \subseteq Arts

(* An artifact people can download has its file, unless retention or expiry   *)
(* deleted the file on purpose: neither the sweep racing a completion, nor a  *)
(* late PUT, nor a lost answer leaves one without.  After such a deletion     *)
(* the row usually follows, but when its statement fails or the daemon dies   *)
(* in between the row stays as it is, and the exemption (cleaned) is for      *)
(* good.  Files whose row failed are not spoken of.                           *)
AvailableHasFile ==
    \A a \in Arts : art[a].state = "available" => a \in file \cup cleaned

(* A full cleanup never deletes the record of a release, also of one that was *)
(* created after the pass had picked the build.                               *)
ReleaseRecordsSurvive == \A b \in Builds : rel[b] # "lost"

(* A pass expires or deletes a build only if the outcome the build ended with *)
(* is none its policy keeps, also when an earlier pass had expired the build  *)
(* under another policy.                                                      *)
KeptOutcomesStay ==
    [][\A b \in Builds :
          /\ build'[b].status # build[b].status
          /\ build'[b].status \in {"expired", "deleted"}
          => build[b].outcome \notin ret.policy.keep]_vars

(* A single-use token is good for one download. *)
SingleUse == Cardinality({d \in Downloads : dl[d] = "served"}) <= 1

(* background.rs, push_filter: "A release that is not `complete` or `failed`  *)
(* keeps its build and artifacts". A release created once the pass has picked *)
(* the build does not.                                                        *)
ReleaseKeepsArtifacts ==
    [][\A a \in Arts :
          rel[a[1]] = "active" /\ art[a].state = "available" /\ a \in file => a \in file']_vars
=============================================================================
