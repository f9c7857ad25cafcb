----------------------------- MODULE Promotions -----------------------------
(***************************************************************************)
(* Promotion of succeeded builds into one release environment: requests,   *)
(* approvals, the store call, the recorded release, edits and the deletion *)
(* of the environment, calls that are cut short and restarts of the daemon.*)
(*                                                                         *)
(* Two locks live in the daemon's memory: one per build and environment,   *)
(* held from the checks to the recorded outcome, and, for an environment   *)
(* whose builds share the App Store version, one slot lock around the      *)
(* store call.  Everything else is in database rows, which other requests  *)
(* change between any two statements.                                      *)
(***************************************************************************)
EXTENDS Naturals, FiniteSets

CONSTANTS
    Builds,        \* succeeded builds of the project
    Callers,       \* requests that can be in progress at once
    Promos,        \* ids of promotion rows; each also names its release
    SharedSlot,    \* store_slot_lock: the environment is the App Store version
    NoCaller, NoPromo, NoBuild

ASSUME PromotionsAssumption ==
    /\ SharedSlot \in BOOLEAN
    /\ Builds \cap Promos = {}
    /\ NoCaller \notin Callers /\ NoPromo \notin Promos /\ NoBuild \notin Builds

VARIABLES
    env,       \* the row of project_environments
    promos,    \* environment_promotions
    rel,       \* releases: an uploaded one per build, one per promotion
    changed,   \* promotions whose store call changed the store
    call,      \* the requests in progress
    held,      \* promotion_lock(build, environment) -> the call holding it
    slot       \* store_slot_lock(environment)

promotionVars == <<env, promos, rel, changed, call, held, slot>>

PromotionStates == {"absent", "pending", "promoting", "completed", "rejected", "failed", "deleted"}
ReleaseIds == Builds \cup Promos

Idle == [pc |-> "idle", op |-> "none", build |-> NoBuild, promo |-> NoPromo,
         approval |-> FALSE, todo |-> {}]

PromotionsTypeOK ==
    /\ env \in [state : {"none", "there", "deleted"}, approval : BOOLEAN]
    /\ promos \in [Promos -> [state : PromotionStates, build : Builds \cup {NoBuild}]]
    /\ rel \in [ReleaseIds -> [state : {"none", "live", "halted", "failed"}, inEnv : BOOLEAN]]
    /\ changed \subseteq Promos
    /\ call \in [Callers -> [pc : {"idle", "lock", "ensure", "insert", "decide", "slot", "store",
                                   "record", "update", "delete"},
                             op : {"none", "request", "approve", "reject", "update", "delete"},
                             build : Builds \cup {NoBuild}, promo : Promos \cup {NoPromo},
                             approval : BOOLEAN, todo : SUBSET Promos]]
    /\ held \in [Builds -> Callers \cup {NoCaller}]
    /\ slot \in Callers \cup {NoCaller}

PromotionsInit ==
    /\ env = [state |-> "none", approval |-> FALSE]
    /\ promos = [p \in Promos |-> [state |-> "absent", build |-> NoBuild]]
    /\ rel = [r \in ReleaseIds |-> [state |-> "none", inEnv |-> FALSE]]
    /\ changed = {}
    /\ call = [c \in Callers |-> Idle]
    /\ held = [b \in Builds |-> NoCaller]
    /\ slot = NoCaller

-----------------------------------------------------------------------------
BuildOf(r) == IF r \in Builds THEN r ELSE promos[r].build

Goto(c, pc) == call' = [call EXCEPT ![c].pc = pc]

(* The guards a call holds are dropped when it returns or is cut short. *)
Return(c) ==
    /\ call' = [call EXCEPT ![c] = Idle]
    /\ held' = [b \in Builds |-> IF held[b] = c THEN NoCaller ELSE held[b]]
    /\ slot' = IF slot = c THEN NoCaller ELSE slot

KeepLocks == UNCHANGED <<held, slot>>

(* mark_failed: UPDATE ... SET state = 'failed' WHERE id = ?; a row deleted *)
(* with its environment is not there any more.                              *)
MarkFailed(ps) ==
    promos' = [p \in Promos |-> IF p \in ps /\ promos[p].state \notin {"absent", "deleted"}
                                THEN [promos[p] EXCEPT !.state = "failed"] ELSE promos[p]]

(* The environments API: create_environment.                                *)
CreateEnvironment(a) ==
    /\ env.state = "none"
    /\ env' = [state |-> "there", approval |-> a]
    /\ UNCHANGED <<promos, rel, changed, call, held, slot>>

(* create_release after a store upload: a release of the environment when   *)
(* its track is the environment's, which insert_release looks up.           *)
UploadRelease(b, here) ==
    /\ rel[b].state = "none"
    /\ here => env.state = "there"
    /\ rel' = [rel EXCEPT ![b] = [state |-> "live", inEnv |-> here]]
    /\ UNCHANGED <<env, promos, changed, call, held, slot>>

(* transition_release moves a release; seen from here, it stops being live, *)
(* resumes, or fails for good.                                              *)
ReleaseMoves(r, s) ==
    /\ \/ rel[r].state = "live" /\ s \in {"halted", "failed"}
       \/ rel[r].state = "halted" /\ s \in {"live", "failed"}
    /\ rel' = [rel EXCEPT ![r].state = s]
    /\ UNCHANGED <<env, promos, changed, call, held, slot>>

-----------------------------------------------------------------------------
(* request_promotion and decide_promotion.                                  *)

(* load_environment and the checks before the lock: role, succeeded build.  *)
(* The environment read here is the one the call uses to its end.           *)
RequestPromotion(c, b) ==
    /\ call[c].pc = "idle" /\ env.state = "there"
    /\ call' = [call EXCEPT ![c] = [Idle EXCEPT !.pc = "lock", !.op = "request", !.build = b,
                                        !.approval = env.approval]]
    /\ UNCHANGED <<env, promos, rel, changed>> /\ KeepLocks

(* load_promotion_with_environment, the role and the approvers. *)
DecidePromotion(c, p, op) ==
    /\ call[c].pc = "idle" /\ env.state = "there"
    /\ promos[p].state \notin {"absent", "deleted"}
    /\ call' = [call EXCEPT ![c] = [Idle EXCEPT !.pc = "lock", !.op = op, !.promo = p,
                    !.build = promos[p].build]]
    /\ UNCHANGED <<env, promos, rel, changed>> /\ KeepLocks

(* promotion_lock(build, environment).lock().await *)
TakeLock(c) ==
    /\ call[c].pc = "lock"
    /\ held[call[c].build] = NoCaller
    /\ held' = [held EXCEPT ![call[c].build] = c]
    /\ Goto(c, IF call[c].op = "request" THEN "ensure" ELSE "decide")
    /\ UNCHANGED <<env, promos, rel, changed, slot>>

MutInEnvironment(b) == {r \in ReleaseIds : rel[r].inEnv /\ rel[r].state = "live" /\ BuildOf(r) = b}

(* The release rows that make ensure_not_promoted refuse build b. *)
InEnvironment(b) == {r \in ReleaseIds : /\ rel[r].state \notin {"none", "failed"}
                                        /\ rel[r].inEnv /\ BuildOf(r) = b}

Open(b) == {p \in Promos : promos[p].build = b /\ promos[p].state \in {"pending", "promoting"}}

Refused(c) ==
    \/ env.state # "there"
    \/ InEnvironment(call[c].build) # {}
    \/ \E p \in Open(call[c].build) \ {call[c].promo} : promos[p].state = "pending"

(* find_source_release: a live release of the build outside the environment.*)
Source(b) == {r \in ReleaseIds : rel[r].state = "live" /\ ~rel[r].inEnv /\ BuildOf(r) = b}

(* ensure_not_promoted: a promoting row found under the lock belongs to a   *)
(* call that never finished and is failed.  A refused approval fails its    *)
(* own row, and so does one whose source release is no longer live.         *)
EnsureNotPromoted(c) ==
    LET p == call[c].promo
        b == call[c].build
    IN  /\ call[c].pc = "ensure"
        /\ \/ /\ ~Refused(c)
              /\ call[c].op = "approve" => Source(b) # {}
              /\ MarkFailed(Open(b) \ {p})
              /\ Goto(c, IF call[c].op = "request" THEN "insert" ELSE "slot")
              /\ KeepLocks
           \/ /\ Refused(c) \/ call[c].op = "approve"
              /\ MarkFailed(IF call[c].op = "approve" THEN {p} ELSE {})
              /\ Return(c)
        /\ UNCHANGED <<env, rel, changed>>

(* The INSERT of the promotion row; without its environment the foreign key *)
(* refuses it.                                                              *)
InsertPromotion(c) ==
    LET b == call[c].build
    IN  /\ call[c].pc = "insert"
        /\ \/ /\ Source(b) # {} /\ env.state = "there"
              /\ \E p \in Promos :
                    /\ promos[p].state = "absent"
                    /\ promos' = [promos EXCEPT ![p] =
                            [state |-> IF call[c].approval THEN "pending" ELSE "promoting",
                             build |-> b]]
                    /\ \/ call[c].approval /\ Return(c)
                       \/ /\ ~call[c].approval
                          /\ call' = [call EXCEPT ![c].pc = "slot", ![c].promo = p]
                          /\ UNCHANGED <<held, slot>>
           \/ /\ Source(b) = {} \/ env.state # "there" \/ \A p \in Promos : promos[p].state # "absent"
              /\ Return(c) /\ UNCHANGED promos
        /\ UNCHANGED <<env, rel, changed>>

MutStillPending(p) == promos[p].state \notin {"absent", "deleted"}

(* WHERE id = ? AND state = 'pending' *)
StillPending(p) == promos[p].state = "pending"

(* The guarded UPDATE of decide_promotion. *)
Decide(c) ==
    LET p == call[c].promo
    IN  /\ call[c].pc = "decide"
        /\ \/ /\ StillPending(p) /\ call[c].op = "approve"
              /\ promos' = [promos EXCEPT ![p].state = "promoting"]
              /\ Goto(c, "ensure") /\ UNCHANGED <<held, slot>>
           \/ /\ StillPending(p) /\ call[c].op = "reject"
              /\ promos' = [promos EXCEPT ![p].state = "rejected"]
              /\ Return(c)
           \/ /\ ~StillPending(p)
              /\ Return(c) /\ UNCHANGED promos
        /\ UNCHANGED <<env, rel, changed>>

-----------------------------------------------------------------------------
(* execute_promotion.                                                       *)

MutFreeSlot == TRUE

(* store_slot_lock(environment) can be taken. *)
FreeSlot == SharedSlot => slot = NoCaller

TakeSlot(c) ==
    /\ call[c].pc = "slot"
    /\ FreeSlot
    /\ slot' = IF SharedSlot THEN c ELSE slot
    /\ Goto(c, "store")
    /\ UNCHANGED <<env, promos, rel, changed, held>>

(* deps.store.promote: made, refused, or made with its answer lost. *)
StorePromote(c) ==
    LET p == call[c].promo
    IN  /\ call[c].pc = "store"
        /\ changed' \in {changed, changed \cup {p}}
        /\ \/ /\ p \in changed'
              /\ Goto(c, "record")
              /\ UNCHANGED <<promos, held, slot>>
           \/ /\ MarkFailed({p})
              /\ Return(c)
        /\ UNCHANGED <<env, rel>>

(* One transaction: the release, its App Store link, the completed row.  It *)
(* fails when the environment is gone, or because the database is busy.     *)
RecordPromotion(c) ==
    LET p == call[c].promo
    IN  /\ call[c].pc = "record"
        /\ \/ /\ env.state = "there"
              /\ rel' = [rel EXCEPT ![p] = [state |-> "live", inEnv |-> TRUE]]
              /\ promos' = [promos EXCEPT ![p].state = "completed"]
           \/ /\ MarkFailed({p})
              /\ UNCHANGED rel
        /\ Return(c)
        /\ UNCHANGED <<env, changed>>

-----------------------------------------------------------------------------
(* update_environment and delete_environment.                               *)

(* The reads before the transaction; a changed track only decides which     *)
(* later uploads belong to the environment.                                 *)
UpdateEnvironment(c, a) ==
    /\ call[c].pc = "idle" /\ env.state = "there"
    /\ call' = [call EXCEPT ![c] = [Idle EXCEPT !.pc = "update", !.op = "update", !.approval = a]]
    /\ UNCHANGED <<env, promos, rel, changed>> /\ KeepLocks

WriteEnvironment(c) ==
    /\ call[c].pc = "update"
    /\ env' = IF env.state = "there" THEN [env EXCEPT !.approval = call[c].approval] ELSE env
    /\ Return(c)
    /\ UNCHANGED <<promos, rel, changed>>

(* The SELECT of the open promotions. *)
DeleteEnvironment(c) ==
    /\ call[c].pc = "idle" /\ env.state = "there"
    /\ call' = [call EXCEPT ![c] = [Idle EXCEPT !.pc = "delete", !.op = "delete",
                    !.todo = UNION {Open(b) : b \in Builds}]]
    /\ UNCHANGED <<env, promos, rel, changed>> /\ KeepLocks

(* One open promotion: try_lock, then its row is rejected or failed. *)
CloseOpenPromotion(c) ==
    /\ call[c].pc = "delete"
    /\ \E p \in call[c].todo :
        LET b == promos[p].build
        IN  \/ /\ held[b] # NoCaller
               /\ Return(c) /\ UNCHANGED promos
            \/ /\ held[b] = NoCaller
               /\ held' = [held EXCEPT ![b] = c]
               /\ call' = [call EXCEPT ![c].todo = @ \ {p}]
               /\ promos' = [promos EXCEPT ![p].state =
                    CASE @ = "pending" -> "rejected" [] @ = "promoting" -> "failed" [] OTHER -> @]
               /\ UNCHANGED slot
    /\ UNCHANGED <<env, rel, changed>>

(* The DELETE; promotion rows go with it, releases lose the environment. *)
DeleteRow(c) ==
    /\ call[c].pc = "delete" /\ call[c].todo = {}
    /\ env' = [env EXCEPT !.state = "deleted"]
    /\ promos' = [p \in Promos |-> IF promos[p].state = "absent" THEN promos[p]
                                   ELSE [promos[p] EXCEPT !.state = "deleted"]]
    /\ rel' = [r \in ReleaseIds |-> [rel[r] EXCEPT !.inEnv = FALSE]]
    /\ Return(c)
    /\ UNCHANGED <<changed>>

-----------------------------------------------------------------------------
(* A call is cut short: its client went away, or a statement failed where   *)
(* the code returns at once.                                                *)
CutShort(c) ==
    /\ call[c].pc # "idle"
    /\ Return(c)
    /\ UNCHANGED <<env, promos, rel, changed>>

(* The rows fail_interrupted_promotions selects. *)
Interrupted == {p \in Promos : promos[p].state = "promoting"}

(* fail_interrupted_promotions fails them one by one.  The start only logs  *)
(* an error of it, at the SELECT or at any row, and the daemon serves with  *)
(* the rest still promoting.                                                *)
Restart ==
    /\ call' = [c \in Callers |-> Idle]
    /\ held' = [b \in Builds |-> NoCaller]
    /\ slot' = NoCaller
    /\ \E ps \in SUBSET Interrupted : MarkFailed(ps)
    /\ UNCHANGED <<env, rel, changed>>

CallStep(c) ==
    \/ TakeLock(c) \/ EnsureNotPromoted(c) \/ InsertPromotion(c) \/ Decide(c)
    \/ TakeSlot(c) \/ StorePromote(c) \/ RecordPromotion(c)
    \/ WriteEnvironment(c) \/ CloseOpenPromotion(c) \/ DeleteRow(c)

NewCall(c) ==
    \/ \E b \in Builds : RequestPromotion(c, b)
    \/ \E p \in Promos, op \in {"approve", "reject"} : DecidePromotion(c, p, op)
    \/ \E a \in BOOLEAN : UpdateEnvironment(c, a)
    \/ DeleteEnvironment(c)

PromotionsNext ==
    \/ \E c \in Callers : CallStep(c)
    \/ \E c \in Callers : NewCall(c)
    \/ \E c \in Callers : CutShort(c)
    \/ \E a \in BOOLEAN : CreateEnvironment(a)
    \/ \E b \in Builds, here \in BOOLEAN : UploadRelease(b, here)
    \/ \E r \in ReleaseIds, s \in {"live", "halted", "failed"} : ReleaseMoves(r, s)
    \/ Restart

PromotionsSpec == PromotionsInit /\ [][PromotionsNext]_promotionVars

-----------------------------------------------------------------------------
(* Properties.                                                              *)

(* A build has at most one release promoted into the environment that did   *)
(* not fail, whatever requests, approvals, lost answers and restarts did    *)
(* (promotion_lock around ensure_not_promoted and execute_promotion).       *)
PromotedOnce ==
    \A p, q \in Promos :
        /\ rel[p].inEnv /\ rel[p].state # "failed" /\ rel[q].inEnv /\ rel[q].state # "failed"
        /\ promos[p].build = promos[q].build
        => p = q

(* Rows tell what happened in the store: a promotion that waits or was      *)
(* rejected never changed it, and one that did is completed with its        *)
(* release, is failed, or is still promoting.  An outcome is final, though  *)
(* mark_failed writes without a guard and a row can stay promoting after    *)
(* its call is gone, through restarts too; and no store call is made for a  *)
(* promotion that has its outcome (environment_promotions.state,            *)
(* decide_promotion, ensure_not_promoted, fail_interrupted_promotions).     *)
RowsTellTheStore ==
    [][/\ \A p \in changed' : promos'[p].state \in {"promoting", "completed", "failed", "deleted"}
       /\ \A p \in Promos : promos'[p].state = "completed" => p \in changed' /\ rel'[p].state # "none"
       /\ \A p \in Promos : promos[p].state \in {"completed", "failed", "rejected"}
                => promos'[p].state \in {promos[p].state, "deleted"} /\ (p \in changed' <=> p \in changed)
      ]_promotionVars

(* Store calls keep apart: one at a time per build, and one at a time at    *)
(* all into a shared App Store version; and the locks never leave every     *)
(* call waiting, a waiting call always finds one that can move on           *)
(* (promotion_lock, then store_slot_lock, and the try_lock of               *)
(* delete_environment).                                                     *)
CallsApart ==
    LET storing == {c \in Callers : call[c].pc \in {"store", "record"}}
        waiting == {c \in Callers : \/ call[c].pc = "lock" /\ held[call[c].build] # NoCaller
                                    \/ call[c].pc = "slot" /\ SharedSlot /\ slot # NoCaller}
    IN  /\ \A c, d \in storing : c = d \/ (call[c].build # call[d].build /\ ~SharedSlot)
        /\ waiting # {} => \E c \in Callers \ waiting : call[c].pc # "idle"

(* "A promotion whose store call is running right now still blocks the      *)
(* delete" (delete_environment).                                            *)
DeleteWaitsForStore ==
    [][env.state = "there" /\ env'.state = "deleted"
        => \A c \in Callers : call[c].pc \notin {"store", "record"}]_promotionVars
=============================================================================
