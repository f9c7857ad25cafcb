-------------------------- MODULE PromotionsProofs --------------------------
(***************************************************************************)
(* Theorems about promotions, for every number of builds, requests in      *)
(* progress and promotion rows, with and without the shared store slot.    *)
(*                                                                         *)
(* The inductive invariant Promoting says what a call may rely on at each  *)
(* of its steps (CallOK), what a promotion row and its release say of each *)
(* other (RowOK), and that a lock is held by a call that will give it back *)
(* (LocksOK).  The heart of it is the last but third part of CallOK: what  *)
(* ensure_not_promoted saw under the build's lock is still true when the   *)
(* outcome is recorded.                                                    *)
(***************************************************************************)
EXTENDS Promotions, TLAPS

(* The steps of a call that holds its build's lock, and those of them that  *)
(* follow the checks of ensure_not_promoted.                                *)
Locked == {"ensure", "insert", "decide", "slot", "store", "record"}
Storing == {"store", "record"}
Executing == {"slot", "store", "record"}

(* No promotion has put build b into the environment and not failed. *)
Unpromoted(b) ==
    \A p \in Promos : promos[p].build = b => ~rel[p].inEnv \/ rel[p].state = "failed"

CallOK(c) ==
    LET s == call[c]
        p == call[c].promo
    IN  /\ s.pc \in Locked \cup {"lock"} => s.build \in Builds
        /\ s.pc \in Locked => held[s.build] = c
        /\ p # NoPromo => promos[p].state # "absent" /\ promos[p].build = s.build
        /\ s.pc = "lock" => s.op \in {"request", "approve", "reject"}
        /\ s.pc \in {"ensure", "lock"} => (s.op = "request" \/ p # NoPromo)
        /\ s.pc = "ensure" => s.op \in {"request", "approve"}
        /\ s.pc \in Executing \cup {"decide"} => p # NoPromo
        /\ s.pc \in Executing \/ (s.pc = "ensure" /\ s.op = "approve")
                => promos[p].state \in {"promoting", "deleted"}
        /\ s.pc \in Executing \cup {"insert"} => Unpromoted(s.build)
        /\ s.pc = "record" => p \in changed
        /\ s.pc \in Storing /\ SharedSlot => slot = c
        /\ \A q \in s.todo : promos[q].state # "absent"

RowOK(p) ==
    /\ promos[p].state # "absent" => promos[p].build \in Builds
    /\ promos[p].state = "absent" => promos[p].build = NoBuild /\ rel[p].state = "none"
    /\ rel[p].inEnv => rel[p].state # "none"
    /\ p \in changed => promos[p].state \in {"promoting", "completed", "failed", "deleted"}
    /\ promos[p].state = "completed" => p \in changed /\ rel[p].state # "none"
    /\ promos[p].state = "deleted" => env.state = "deleted"

LocksOK ==
    /\ \A b \in Builds : held[b] # NoCaller => call[held[b]].pc \in Locked \cup {"delete"}
    /\ slot # NoCaller => call[slot].pc \in Storing

Promoting ==
    /\ PromotionsTypeOK
    /\ \A c \in Callers : CallOK(c)
    /\ \A p \in Promos : RowOK(p)
    /\ LocksOK
    /\ PromotedOnce

CallRecords ==
    [pc : {"idle", "lock", "ensure", "insert", "decide", "slot", "store",
           "record", "update", "delete"},
     op : {"none", "request", "approve", "reject", "update", "delete"},
     build : Builds \cup {NoBuild}, promo : Promos \cup {NoPromo},
     approval : BOOLEAN, todo : SUBSET Promos]

-----------------------------------------------------------------------------
(* What the shared writes do. *)

(* mark_failed changes states only. *)
LEMMA MarkFailedFacts ==
    ASSUME PromotionsTypeOK, NEW ps, MarkFailed(ps)
    PROVE  /\ promos' \in [Promos -> [state : PromotionStates, build : Builds \cup {NoBuild}]]
           /\ \A p \in Promos :
                /\ promos'[p].build = promos[p].build
                /\ promos'[p].state = IF p \in ps /\ promos[p].state \notin {"absent", "deleted"}
                                      THEN "failed" ELSE promos[p].state
BY DEF MarkFailed, PromotionsTypeOK, PromotionStates

(* The idle call is a call. *)
LEMMA IdleTyped == Idle \in CallRecords
BY DEF Idle, CallRecords

(* A call that returns is idle and holds no lock; the others keep theirs. *)
LEMMA ReturnFacts ==
    ASSUME PromotionsTypeOK, NEW c \in Callers, Return(c)
    PROVE  /\ call' \in [Callers -> CallRecords]
           /\ held' \in [Builds -> Callers \cup {NoCaller}]
           /\ slot' \in Callers \cup {NoCaller}
           /\ call'[c] = Idle /\ \A d \in Callers \ {c} : call'[d] = call[d]
           /\ \A b \in Builds : held'[b] = IF held[b] = c THEN NoCaller ELSE held[b]
           /\ slot' = IF slot = c THEN NoCaller ELSE slot
BY IdleTyped DEF Return, PromotionsTypeOK, CallRecords

(* A call that moves on from one step to the next. *)
LEMMA GotoFacts ==
    ASSUME PromotionsTypeOK, NEW c \in Callers, NEW pc \in Locked, Goto(c, pc)
    PROVE  /\ call' \in [Callers -> CallRecords]
           /\ \A d \in Callers \ {c} : call'[d] = call[d]
           /\ call'[c].pc = pc /\ call'[c].op = call[c].op /\ call'[c].build = call[c].build
           /\ call'[c].promo = call[c].promo /\ call'[c].approval = call[c].approval
           /\ call'[c].todo = call[c].todo
BY DEF Goto, PromotionsTypeOK, CallRecords, Locked

(* What every step but a build's first leaves true of a row. *)
RowsStay ==
    \A p \in Promos :
        /\ promos[p].state # "absent" => /\ promos'[p].state # "absent"
                                         /\ promos'[p].build = promos[p].build
        /\ promos[p].state = "deleted" => promos'[p].state = "deleted"

(* What call d needs of the steps of others: they respect its locks, and    *)
(* leave the promotions and the releases of a build it has locked alone.    *)
Respects(d) ==
    /\ call'[d] = call[d]
    /\ \A b \in Builds : held[b] = d => held'[b] = d
    /\ slot = d => slot' = d
    /\ changed \subseteq changed'
    /\ RowsStay
    /\ \A p \in Promos : promos[p].state = "promoting" /\ held[promos[p].build] = d
            => promos'[p].state \in {"promoting", "deleted"}
    /\ \A b \in Builds : held[b] = d /\ Unpromoted(b) => Unpromoted(b)'

(* Then it can go on as before. *)
LEMMA OtherCalls ==
    ASSUME Promoting, NEW d \in Callers, Respects(d) PROVE CallOK(d)'
<1> DEFINE s == call[d]
           p == call[d].promo
<1>1. CallOK(d) /\ s \in CallRecords /\ call'[d] = s
  BY DEF Promoting, PromotionsTypeOK, CallRecords, Respects
<1>2. s.build \in Builds \cup {NoBuild} /\ p \in Promos \cup {NoPromo} /\ s.todo \subseteq Promos
  BY <1>1 DEF CallRecords
<1>3. ASSUME s.pc \in Locked
      PROVE  s.build \in Builds /\ held[s.build] = d /\ held'[s.build] = d
  BY <1>1, <1>3 DEF CallOK, Respects
<1>4. p # NoPromo => promos'[p].state # "absent" /\ promos'[p].build = s.build
  BY <1>1, <1>2 DEF CallOK, Respects, RowsStay
<1>5. s.pc \in Executing \/ (s.pc = "ensure" /\ s.op = "approve")
                => promos'[p].state \in {"promoting", "deleted"}
  BY <1>1, <1>2, <1>3 DEF CallOK, Respects, RowsStay, Executing, Locked
<1>6. s.pc \in Executing \cup {"insert"} => Unpromoted(s.build)'
  BY <1>1, <1>3 DEF CallOK, Respects, Executing, Locked, Unpromoted
<1>7. /\ s.pc = "record" => p \in changed'
      /\ s.pc \in Storing /\ SharedSlot => slot' = d
  BY <1>1 DEF CallOK, Respects
<1>8. \A q \in s.todo : promos'[q].state # "absent"
  BY <1>1, <1>2 DEF CallOK, Respects, RowsStay
<1> QED  BY <1>1, <1>3, <1>4, <1>5, <1>6, <1>7, <1>8 DEF CallOK, Unpromoted

(* The call that returns relies on nothing. *)
LEMMA IdleCall ==
    ASSUME PromotionsTypeOK, NEW c \in Callers, call'[c] = Idle PROVE CallOK(c)'
BY DEF CallOK, Idle, Locked, Executing, Storing

(* The locks after a call returned, or moved on under its lock. *)
LEMMA LocksStay ==
    ASSUME Promoting, NEW c \in Callers,
           \A d \in Callers \ {c} : call'[d] = call[d],
           \A b \in Builds : /\ held'[b] \in {held[b], NoCaller, c}
                             /\ held'[b] = c => call'[c].pc \in Locked \cup {"delete"},
           slot' \in {slot, NoCaller, c}, slot' = c => call'[c].pc \in Storing
    PROVE  LocksOK'
BY PromotionsAssumption DEF Promoting, PromotionsTypeOK, LocksOK

(* A step that writes no promotion row, release or store: only what the     *)
(* call itself relies on and the locks it holds are to be shown.            *)
LEMMA CallOnly ==
    ASSUME Promoting, NEW c \in Callers, UNCHANGED <<promos, rel, changed>>,
           env' \in [state : {"none", "there", "deleted"}, approval : BOOLEAN],
           env.state = "deleted" => env'.state = "deleted",
           call' \in [Callers -> CallRecords],
           held' \in [Builds -> Callers \cup {NoCaller}],
           slot' \in Callers \cup {NoCaller},
           \A d \in Callers \ {c} : call'[d] = call[d],
           \A b \in Builds : /\ held'[b] \in {held[b], NoCaller, c}
                             /\ held[b] \notin {NoCaller, c} => held'[b] = held[b]
                             /\ held'[b] = c => call'[c].pc \in Locked \cup {"delete"},
           slot' \in {slot, NoCaller, c}, slot \notin {NoCaller, c} => slot' = slot,
           slot' = c => call'[c].pc \in Storing,
           CallOK(c)'
    PROVE  Promoting'
<1>1. PromotionsTypeOK'
  BY DEF Promoting, PromotionsTypeOK, CallRecords
<1>2. ASSUME NEW d \in Callers \ {c} PROVE CallOK(d)'
  <2>1. Respects(d)
    BY PromotionsAssumption DEF Respects, RowsStay, Unpromoted, Promoting, PromotionsTypeOK
  <2> QED  BY <2>1, OtherCalls
<1>3. LocksOK'
  BY LocksStay
<1>4. PromotedOnce' /\ \A p \in Promos : RowOK(p)'
  BY DEF Promoting, PromotedOnce, RowOK
<1> QED  BY <1>1, <1>2, <1>3, <1>4 DEF Promoting

(* A call begins. *)
LEMMA NewCallStep == ASSUME Promoting, NEW c \in Callers, NewCall(c) PROVE Promoting'
<1>0. /\ call \in [Callers -> CallRecords] /\ env.approval \in BOOLEAN /\ call[c].pc = "idle"
      /\ \A p \in Promos : promos[p].build \in Builds \cup {NoBuild}
  BY DEF Promoting, PromotionsTypeOK, CallRecords, NewCall, RequestPromotion,
         DecidePromotion, UpdateEnvironment, DeleteEnvironment
<1>1. UNCHANGED <<env, promos, rel, changed, held, slot>>
  BY DEF NewCall, RequestPromotion, DecidePromotion, UpdateEnvironment, DeleteEnvironment,
         KeepLocks
<1>2. (\A b \in Builds : held[b] # c) /\ slot # c
  BY <1>0, PromotionsAssumption DEF Promoting, PromotionsTypeOK, LocksOK, Locked, Storing
<1>3. ASSUME NEW s \in CallRecords, call' = [call EXCEPT ![c] = s], CallOK(c)'
      PROVE  Promoting'
  BY <1>0, <1>1, <1>2, <1>3, CallOnly DEF Promoting, PromotionsTypeOK
<1>4. ASSUME NEW b \in Builds, RequestPromotion(c, b) PROVE Promoting'
  <2> DEFINE s == [Idle EXCEPT !.pc = "lock", !.op = "request", !.build = b,
                               !.approval = env.approval]
  <2>1. s \in CallRecords /\ call' = [call EXCEPT ![c] = s]
    BY <1>0, <1>4, IdleTyped DEF CallRecords, RequestPromotion
  <2>2. s.pc = "lock" /\ s.op = "request" /\ s.build = b /\ s.promo = NoPromo /\ s.todo = {}
    BY DEF Idle
  <2> HIDE DEF s
  <2>3. call'[c] = s
    BY <1>0, <2>1
  <2>4. CallOK(c)'
    BY <2>2, <2>3 DEF CallOK, Locked, Executing, Storing
  <2> QED  BY <1>3, <2>1, <2>4
<1>5. ASSUME NEW p \in Promos, NEW op \in {"approve", "reject"}, DecidePromotion(c, p, op)
      PROVE  Promoting'
  <2> DEFINE s == [Idle EXCEPT !.pc = "lock", !.op = op, !.promo = p,
                               !.build = promos[p].build]
  <2>1. s \in CallRecords /\ call' = [call EXCEPT ![c] = s]
    BY <1>0, <1>5, IdleTyped DEF CallRecords, DecidePromotion
  <2>2. s.pc = "lock" /\ s.op = op /\ s.build = promos[p].build /\ s.promo = p /\ s.todo = {}
    BY DEF Idle
  <2> HIDE DEF s
  <2>3. call'[c] = s
    BY <1>0, <2>1
  <2>4. promos[p].state # "absent" /\ promos[p].build \in Builds
    BY <1>5 DEF DecidePromotion, Promoting, RowOK
  <2>5. CallOK(c)'
    BY <1>1, <2>2, <2>3, <2>4, PromotionsAssumption DEF CallOK, Locked, Executing, Storing
  <2> QED  BY <1>3, <2>1, <2>5
<1>6. ASSUME NEW a \in BOOLEAN, UpdateEnvironment(c, a) PROVE Promoting'
  <2> DEFINE s == [Idle EXCEPT !.pc = "update", !.op = "update", !.approval = a]
  <2>1. s \in CallRecords /\ call' = [call EXCEPT ![c] = s]
    BY <1>6, IdleTyped DEF CallRecords, UpdateEnvironment
  <2>2. s.pc = "update" /\ s.promo = NoPromo /\ s.todo = {}
    BY DEF Idle
  <2> HIDE DEF s
  <2>3. CallOK(c)'
    BY <1>0, <2>1, <2>2 DEF CallOK, Locked, Executing, Storing
  <2> QED  BY <1>3, <2>1, <2>3
<1>7. CASE DeleteEnvironment(c)
  <2> DEFINE open == UNION {Open(b) : b \in Builds}
             s == [Idle EXCEPT !.pc = "delete", !.op = "delete", !.todo = open]
  <2>1. open \subseteq Promos /\ \A q \in open : promos[q].state # "absent"
    BY DEF Open
  <2>2. call' = [call EXCEPT ![c] = s]
    BY <1>7 DEF DeleteEnvironment
  <2> HIDE DEF open
  <2>3. s \in CallRecords
    BY <2>1, IdleTyped DEF CallRecords
  <2>4. s.pc = "delete" /\ s.promo = NoPromo /\ s.todo = open
    BY DEF Idle
  <2> HIDE DEF s
  <2>5. CallOK(c)'
    BY <1>0, <1>1, <2>1, <2>2, <2>4 DEF CallOK, Locked, Executing, Storing
  <2> QED  BY <1>3, <2>2, <2>3, <2>5
<1> QED  BY <1>4, <1>5, <1>6, <1>7 DEF NewCall

(* A call ends without a write, or having written the environment only.     *)
LEMMA QuietReturn ==
    ASSUME Promoting, NEW c \in Callers, Return(c), UNCHANGED <<promos, rel, changed>>,
           env' \in [state : {"none", "there", "deleted"}, approval : BOOLEAN],
           env.state = "deleted" => env'.state = "deleted"
    PROVE  Promoting'
<1>1. PromotionsTypeOK
  BY DEF Promoting
<1>2. CallOK(c)'
  BY <1>1, ReturnFacts, IdleCall
<1> QED  BY <1>1, <1>2, ReturnFacts, CallOnly, PromotionsAssumption
         DEF PromotionsTypeOK

(* The two locks are taken only when they are free. *)
LEMMA LockSteps ==
    ASSUME Promoting, NEW c \in Callers, TakeLock(c) \/ TakeSlot(c) PROVE Promoting'
<1>0. PromotionsTypeOK /\ CallOK(c) /\ UNCHANGED <<env, promos, rel, changed>>
  BY DEF Promoting, TakeLock, TakeSlot
<1>1. CASE TakeLock(c)
  <2> DEFINE b == call[c].build
             pc == IF call[c].op = "request" THEN "ensure" ELSE "decide"
  <2>1. /\ call[c].pc = "lock" /\ b \in Builds /\ held[b] = NoCaller
        /\ held' = [held EXCEPT ![b] = c] /\ Goto(c, pc) /\ slot' = slot
    BY <1>0, <1>1 DEF TakeLock, CallOK
  <2>2. pc \in {"ensure", "decide"} /\ pc \in Locked
    BY DEF Locked
  <2>3. /\ call' \in [Callers -> CallRecords]
        /\ \A d \in Callers \ {c} : call'[d] = call[d]
        /\ call'[c].pc = pc /\ call'[c].op = call[c].op /\ call'[c].build = call[c].build
        /\ call'[c].promo = call[c].promo /\ call'[c].todo = call[c].todo
    BY <1>0, <2>1, <2>2, GotoFacts
  <2>4. slot # c
    BY <2>1, PromotionsAssumption DEF Promoting, LocksOK, Storing
  <2>5. /\ held' \in [Builds -> Callers \cup {NoCaller}] /\ held'[b] = c
        /\ \A a \in Builds \ {b} : held'[a] = held[a]
    BY <1>0, <2>1 DEF PromotionsTypeOK
  <2>6. CallOK(c)'
    BY <1>0, <2>1, <2>3, <2>5 DEF CallOK, Locked, Executing, Storing
  <2> HIDE DEF b, pc
  <2> QED  BY <1>0, <2>1, <2>2, <2>3, <2>4, <2>5, <2>6, CallOnly DEF PromotionsTypeOK
<1>2. CASE TakeSlot(c)
  <2>1. /\ call[c].pc = "slot" /\ (SharedSlot => slot = NoCaller)
        /\ slot' = (IF SharedSlot THEN c ELSE slot) /\ Goto(c, "store") /\ held' = held
    BY <1>2 DEF TakeSlot, FreeSlot
  <2>2. /\ call' \in [Callers -> CallRecords]
        /\ \A d \in Callers \ {c} : call'[d] = call[d]
        /\ call'[c].pc = "store" /\ call'[c].op = call[c].op /\ call'[c].build = call[c].build
        /\ call'[c].promo = call[c].promo /\ call'[c].todo = call[c].todo
    BY <1>0, <2>1, GotoFacts DEF Locked
  <2>3. CallOK(c)'
    BY <1>0, <2>1, <2>2 DEF CallOK, Locked, Executing, Storing, Unpromoted
  <2> QED  BY <1>0, <2>1, <2>2, <2>3, CallOnly DEF PromotionsTypeOK, Locked, Storing
<1> QED  BY <1>1, <1>2

-----------------------------------------------------------------------------
(* The steps that write rows, releases or the store. *)

(* What is to be shown of a step of call c. *)
LEMMA CallWrites ==
    ASSUME Promoting, NEW c \in Callers, PromotionsTypeOK',
           \A d \in Callers \ {c} : Respects(d), CallOK(c)',
           \A b \in Builds : /\ held'[b] \in {held[b], NoCaller, c}
                             /\ held'[b] = c => call'[c].pc \in Locked \cup {"delete"},
           slot' \in {slot, NoCaller, c}, slot' = c => call'[c].pc \in Storing,
           \A p \in Promos : RowOK(p)', PromotedOnce'
    PROVE  Promoting'
<1>1. LocksOK'
  BY LocksStay DEF Respects
<1>2. \A d \in Callers : CallOK(d)'
  BY OtherCalls
<1> QED  BY <1>1, <1>2 DEF Promoting

(* A call that returns: its locks go, nobody else's do. *)
LEMMA ReturnWrites ==
    ASSUME Promoting, NEW c \in Callers, Return(c),
           env' \in [state : {"none", "there", "deleted"}, approval : BOOLEAN],
           promos' \in [Promos -> [state : PromotionStates, build : Builds \cup {NoBuild}]],
           rel' \in [ReleaseIds -> [state : {"none", "live", "halted", "failed"}, inEnv : BOOLEAN]],
           changed \subseteq changed', changed' \subseteq Promos, RowsStay,
           \A p \in Promos : promos[p].state = "promoting" /\ held[promos[p].build] # c
                    => promos'[p].state \in {"promoting", "deleted"},
           \A b \in Builds : held[b] # c /\ Unpromoted(b) => Unpromoted(b)',
           \A p \in Promos : RowOK(p)', PromotedOnce'
    PROVE  Promoting'
<1>1. PromotionsTypeOK
  BY DEF Promoting
<1>2. PromotionsTypeOK'
  BY <1>1, ReturnFacts DEF PromotionsTypeOK, CallRecords
<1>3. CallOK(c)'
  BY <1>1, ReturnFacts, IdleCall
<1>4. ASSUME NEW d \in Callers \ {c} PROVE Respects(d)
  <2>1. /\ call'[d] = call[d] /\ \A b \in Builds : held[b] = d => held'[b] = d
        /\ slot = d => slot' = d
    BY <1>1, ReturnFacts
  <2> QED  BY <2>1 DEF Respects
<1>5. /\ \A b \in Builds : held'[b] \in {held[b], NoCaller, c} /\ held'[b] # c
      /\ slot' \in {slot, NoCaller, c} /\ slot' # c
  BY <1>1, ReturnFacts, PromotionsAssumption
<1> QED  BY <1>2, <1>3, <1>4, <1>5, CallWrites

(* Failing promotions of a build whose lock c holds. *)
LEMMA FailOwn ==
    ASSUME Promoting, NEW c \in Callers, NEW ps \in SUBSET Promos, MarkFailed(ps),
           UNCHANGED <<env, rel>>, changed' \subseteq Promos, changed \subseteq changed',
           \A p \in ps : /\ held[promos[p].build] = c
                         /\ promos[p].state \in {"pending", "promoting", "deleted"},
           \A p \in changed' \ changed : promos[p].state \in {"promoting", "deleted"}
    PROVE  /\ promos' \in [Promos -> [state : PromotionStates, build : Builds \cup {NoBuild}]]
           /\ RowsStay
           /\ \A p \in Promos : promos[p].state = "promoting" /\ held[promos[p].build] # c
                    => promos'[p].state \in {"promoting", "deleted"}
           /\ \A b \in Builds : Unpromoted(b) => Unpromoted(b)'
           /\ \A p \in Promos : RowOK(p)'
           /\ PromotedOnce'
<1>1. /\ promos' \in [Promos -> [state : PromotionStates, build : Builds \cup {NoBuild}]]
      /\ \A p \in Promos :
            /\ promos'[p].build = promos[p].build
            /\ promos'[p].state = IF p \in ps /\ promos[p].state \notin {"absent", "deleted"}
                                  THEN "failed" ELSE promos[p].state
  BY MarkFailedFacts DEF Promoting
<1>2. RowsStay
  BY <1>1 DEF RowsStay
<1>3. \A b \in Builds : Unpromoted(b) => Unpromoted(b)'
  BY <1>1 DEF Unpromoted
<1>4. \A p \in Promos : RowOK(p)'
  BY <1>1 DEF RowOK, Promoting
<1>5. PromotedOnce'
  BY <1>1 DEF PromotedOnce, Promoting
<1>6. \A p \in Promos : promos[p].state = "promoting" /\ held[promos[p].build] # c
                    => promos'[p].state \in {"promoting", "deleted"}
  BY <1>1
<1> QED  BY <1>1, <1>2, <1>3, <1>4, <1>5, <1>6

(* ensure_not_promoted: what it finds is true of every later step of the    *)
(* call, because the build is locked.                                       *)
LEMMA EnsureStep ==
    ASSUME Promoting, NEW c \in Callers, EnsureNotPromoted(c) PROVE Promoting'
<1> DEFINE p == call[c].promo
           b == call[c].build
<1>0. /\ PromotionsTypeOK /\ CallOK(c) /\ call[c].pc = "ensure"
      /\ UNCHANGED <<env, rel, changed>>
  BY DEF Promoting, EnsureNotPromoted
<1>1. /\ b \in Builds /\ held[b] = c /\ p \in Promos \cup {NoPromo}
      /\ call[c].op \in {"request", "approve"}
      /\ call[c].op = "approve" => /\ p \in Promos /\ promos[p].build = b
                                   /\ promos[p].state \in {"promoting", "deleted"}
  BY <1>0 DEF CallOK, Locked, PromotionsTypeOK
<1>2. CASE /\ ~Refused(c)
           /\ MarkFailed(Open(b) \ {p})
           /\ Goto(c, IF call[c].op = "request" THEN "insert" ELSE "slot")
           /\ KeepLocks
  <2> DEFINE pc == IF call[c].op = "request" THEN "insert" ELSE "slot"
             ps == Open(b) \ {p}
  <2>1. /\ ps \in SUBSET Promos
        /\ \A q \in ps : promos[q].build = b /\ promos[q].state \in {"pending", "promoting"}
    BY DEF Open
  <2>2. pc \in {"insert", "slot"} /\ pc \in Locked /\ (pc = "slot" => call[c].op = "approve")
    BY <1>1 DEF Locked
  <2>3. MarkFailed(ps) /\ Goto(c, pc) /\ held' = held /\ slot' = slot /\ p \notin ps
    BY <1>2 DEF KeepLocks
  <2>4. Unpromoted(b)
    <3>1. ASSUME NEW q \in Promos, promos[q].build = b
          PROVE  ~rel[q].inEnv \/ rel[q].state = "failed"
      <4>1. q \in ReleaseIds /\ BuildOf(q) = b
        BY <3>1, PromotionsAssumption DEF ReleaseIds, BuildOf
      <4>2. rel[q].state \in {"none", "failed"} \/ ~rel[q].inEnv
        BY <1>2, <4>1 DEF Refused, InEnvironment
      <4> QED  BY <4>2 DEF Promoting, RowOK
    <3> QED  BY <3>1 DEF Unpromoted
  <2> HIDE DEF ps, pc
  <2>5. /\ promos' \in [Promos -> [state : PromotionStates, build : Builds \cup {NoBuild}]]
        /\ RowsStay
        /\ \A q \in Promos : promos[q].state = "promoting" /\ held[promos[q].build] # c
                    => promos'[q].state \in {"promoting", "deleted"}
        /\ \A a \in Builds : Unpromoted(a) => Unpromoted(a)'
        /\ \A q \in Promos : RowOK(q)'
        /\ PromotedOnce'
    BY <1>0, <1>1, <2>1, <2>3, FailOwn DEF PromotionsTypeOK
  <2>6. p \in Promos => promos'[p] = promos[p]
    BY <1>0, <2>3 DEF MarkFailed
  <2>7. /\ call' \in [Callers -> CallRecords]
        /\ \A d \in Callers \ {c} : call'[d] = call[d]
        /\ call'[c].pc = pc /\ call'[c].op = call[c].op /\ call'[c].build = b
        /\ call'[c].promo = p /\ call'[c].todo = call[c].todo
    BY <1>0, <2>2, <2>3, GotoFacts
  <2>8. PromotionsTypeOK'
    BY <1>0, <2>3, <2>5, <2>7 DEF PromotionsTypeOK, CallRecords
  <2>9. call[c].todo \subseteq Promos
    BY <1>0 DEF PromotionsTypeOK
  <2>10. CallOK(c)'
    <3>1. Unpromoted(call[c].build)'
      BY <1>1, <2>4, <2>5, <2>7 DEF Unpromoted
    <3>2. \A q \in call'[c].todo : promos'[q].state # "absent"
      BY <1>0, <2>5, <2>7, <2>9 DEF CallOK, RowsStay
    <3>3. p # NoPromo => promos'[p].state # "absent" /\ promos'[p].build = b
      BY <1>0, <1>1, <2>6 DEF CallOK
    <3> QED  BY <1>0, <1>1, <2>2, <2>3, <2>6, <2>7, <3>1, <3>2, <3>3
             DEF CallOK, Locked, Executing, Storing
  <2>11. ASSUME NEW d \in Callers \ {c} PROVE Respects(d)
    BY <1>0, <2>3, <2>5, <2>7 DEF Respects
  <2>12. slot # c
    BY <1>0, PromotionsAssumption DEF Promoting, LocksOK, Storing
  <2> QED  BY <2>2, <2>3, <2>5, <2>7, <2>8, <2>10, <2>11, <2>12, CallWrites
<1>3. CASE /\ MarkFailed(IF call[c].op = "approve" THEN {p} ELSE {})
           /\ Return(c)
  <2> DEFINE ps == IF call[c].op = "approve" THEN {p} ELSE {}
  <2>1. /\ ps \in SUBSET Promos
        /\ \A q \in ps : promos[q].build = b /\ promos[q].state \in {"promoting", "deleted"}
    BY <1>1
  <2>2. MarkFailed(ps) /\ Return(c)
    BY <1>3
  <2> HIDE DEF ps
  <2>3. /\ promos' \in [Promos -> [state : PromotionStates, build : Builds \cup {NoBuild}]]
        /\ RowsStay
        /\ \A q \in Promos : promos[q].state = "promoting" /\ held[promos[q].build] # c
                    => promos'[q].state \in {"promoting", "deleted"}
        /\ \A a \in Builds : Unpromoted(a) => Unpromoted(a)'
        /\ \A q \in Promos : RowOK(q)'
        /\ PromotedOnce'
    BY <1>0, <1>1, <2>1, <2>2, FailOwn DEF PromotionsTypeOK
  <2> QED  BY <1>0, <2>2, <2>3, ReturnWrites DEF PromotionsTypeOK
<1> QED  BY <1>2, <1>3 DEF EnsureNotPromoted

(* The INSERT: the new row has no release yet. *)
LEMMA InsertStep ==
    ASSUME Promoting, NEW c \in Callers, InsertPromotion(c) PROVE Promoting'
<1> DEFINE b == call[c].build
<1>0. /\ PromotionsTypeOK /\ CallOK(c) /\ call[c].pc = "insert"
      /\ UNCHANGED <<env, rel, changed>>
  BY DEF Promoting, InsertPromotion
<1>1. b \in Builds /\ held[b] = c /\ Unpromoted(b) /\ slot # c
  BY <1>0, PromotionsAssumption DEF CallOK, Locked, Executing, Promoting, LocksOK, Storing
<1>2. CASE Return(c) /\ UNCHANGED promos
  BY <1>0, <1>2, QuietReturn DEF PromotionsTypeOK
<1>3. ASSUME NEW p \in Promos, promos[p].state = "absent",
             NEW state \in {"pending", "promoting"},
             promos' = [promos EXCEPT ![p] = [state |-> state, build |-> b]],
             \/ Return(c)
             \/ /\ state = "promoting"
                /\ call' = [call EXCEPT ![c].pc = "slot", ![c].promo = p]
                /\ UNCHANGED <<held, slot>>
      PROVE  Promoting'
  <2>1. /\ promos' \in [Promos -> [state : PromotionStates, build : Builds \cup {NoBuild}]]
        /\ promos'[p].state = state /\ promos'[p].build = b
        /\ \A q \in Promos \ {p} : promos'[q] = promos[q]
    BY <1>0, <1>1, <1>3 DEF PromotionsTypeOK, PromotionStates
  <2>2. RowOK(p) /\ p \notin changed /\ ~rel[p].inEnv /\ rel[p].state = "none"
    BY <1>3 DEF Promoting, RowOK
  <2>3. RowsStay
    BY <1>3, <2>1 DEF RowsStay
  <2>4. \A a \in Builds : Unpromoted(a) => Unpromoted(a)'
    BY <1>0, <2>1, <2>2 DEF Unpromoted
  <2>5. \A q \in Promos : RowOK(q)'
    BY <1>0, <1>1, <1>3, <2>1, <2>2 DEF RowOK, Promoting
  <2>6. PromotedOnce'
    BY <1>0, <2>1, <2>2 DEF PromotedOnce, Promoting
  <2>7. \A q \in Promos : promos[q].state = "promoting"
                    => promos'[q].state \in {"promoting", "deleted"}
    BY <1>3, <2>1
  <2>8. CASE Return(c)
    BY <1>0, <2>1, <2>3, <2>4, <2>5, <2>6, <2>7, <2>8, ReturnWrites DEF PromotionsTypeOK
  <2>9. CASE /\ state = "promoting"
             /\ call' = [call EXCEPT ![c].pc = "slot", ![c].promo = p]
             /\ UNCHANGED <<held, slot>>
    <3>1. /\ call' \in [Callers -> CallRecords]
          /\ \A d \in Callers \ {c} : call'[d] = call[d]
          /\ call'[c].pc = "slot" /\ call'[c].build = b
          /\ call'[c].promo = p /\ call'[c].todo = call[c].todo
      BY <1>0, <2>9 DEF PromotionsTypeOK, CallRecords
    <3>2. PromotionsTypeOK'
      BY <1>0, <2>1, <2>9, <3>1 DEF PromotionsTypeOK, CallRecords
    <3>3. CallOK(c)'
      <4>1. Unpromoted(call[c].build)'
        BY <1>1, <2>4, <3>1 DEF Unpromoted
      <4>2. \A q \in call'[c].todo : promos'[q].state # "absent"
        BY <1>0, <2>3, <3>1 DEF CallOK, RowsStay, PromotionsTypeOK
      <4> QED  BY <1>1, <1>3, <2>1, <2>9, <3>1, <4>1, <4>2, PromotionsAssumption
               DEF CallOK, Locked, Executing, Storing
    <3>4. ASSUME NEW d \in Callers \ {c} PROVE Respects(d)
      BY <1>0, <2>3, <2>4, <2>7, <2>9, <3>1 DEF Respects
    <3> QED  BY <1>1, <2>5, <2>6, <2>9, <3>1, <3>2, <3>3, <3>4, CallWrites DEF Locked
  <2> QED  BY <1>3, <2>8, <2>9
<1>4. ASSUME NEW p \in Promos, promos[p].state = "absent",
             promos' = [promos EXCEPT ![p] =
                    [state |-> IF call[c].approval THEN "pending" ELSE "promoting",
                     build |-> b]],
             \/ call[c].approval /\ Return(c)
             \/ /\ ~call[c].approval
                /\ call' = [call EXCEPT ![c].pc = "slot", ![c].promo = p]
                /\ UNCHANGED <<held, slot>>
      PROVE  Promoting'
  BY <1>3, <1>4
<1> QED  BY <1>2, <1>4 DEF InsertPromotion

(* The guarded UPDATE: only a pending promotion is approved or rejected,    *)
(* and a pending one never reached the store.                               *)
LEMMA DecideStep == ASSUME Promoting, NEW c \in Callers, Decide(c) PROVE Promoting'
<1> DEFINE p == call[c].promo
           b == call[c].build
<1>0. /\ PromotionsTypeOK /\ CallOK(c) /\ call[c].pc = "decide"
      /\ UNCHANGED <<env, rel, changed>>
  BY DEF Promoting, Decide
<1>1. b \in Builds /\ held[b] = c /\ p \in Promos /\ promos[p].build = b /\ slot # c
  BY <1>0, PromotionsAssumption
     DEF CallOK, Locked, Executing, Promoting, LocksOK, Storing, PromotionsTypeOK
<1>2. CASE Return(c) /\ UNCHANGED promos
  BY <1>0, <1>2, QuietReturn DEF PromotionsTypeOK
<1>3. ASSUME promos[p].state = "pending", NEW state \in {"promoting", "rejected"},
             promos' = [promos EXCEPT ![p].state = state],
             \/ Return(c)
             \/ /\ state = "promoting" /\ call[c].op = "approve" /\ Goto(c, "ensure")
                /\ UNCHANGED <<held, slot>>
      PROVE  Promoting'
  <2>1. /\ promos' \in [Promos -> [state : PromotionStates, build : Builds \cup {NoBuild}]]
        /\ promos'[p].state = state /\ promos'[p].build = b
        /\ \A q \in Promos \ {p} : promos'[q] = promos[q]
    BY <1>0, <1>1, <1>3 DEF PromotionsTypeOK, PromotionStates
  <2>2. p \notin changed
    BY <1>1, <1>3 DEF Promoting, RowOK
  <2>3. RowsStay
    BY <1>1, <1>3, <2>1 DEF RowsStay
  <2>4. \A a \in Builds : Unpromoted(a) => Unpromoted(a)'
    BY <1>0, <1>1, <2>1 DEF Unpromoted
  <2>5. \A q \in Promos : RowOK(q)'
    BY <1>0, <1>1, <1>3, <2>1, <2>2 DEF RowOK, Promoting
  <2>6. PromotedOnce'
    BY <1>0, <1>1, <2>1 DEF PromotedOnce, Promoting
  <2>7. \A q \in Promos : promos[q].state = "promoting"
                    => promos'[q].state \in {"promoting", "deleted"}
    BY <1>3, <2>1
  <2>8. CASE Return(c)
    BY <1>0, <2>1, <2>3, <2>4, <2>5, <2>6, <2>7, <2>8, ReturnWrites DEF PromotionsTypeOK
  <2>9. CASE /\ state = "promoting" /\ call[c].op = "approve" /\ Goto(c, "ensure")
             /\ UNCHANGED <<held, slot>>
    <3>1. /\ call' \in [Callers -> CallRecords]
          /\ \A d \in Callers \ {c} : call'[d] = call[d]
          /\ call'[c].pc = "ensure" /\ call'[c].build = b /\ call'[c].op = "approve"
          /\ call'[c].promo = p /\ call'[c].todo = call[c].todo
      BY <1>0, <2>9, GotoFacts DEF Locked
    <3>2. PromotionsTypeOK'
      BY <1>0, <2>1, <2>9, <3>1 DEF PromotionsTypeOK, CallRecords
    <3>3. CallOK(c)'
      <4>1. \A q \in call'[c].todo : promos'[q].state # "absent"
        BY <1>0, <2>3, <3>1 DEF CallOK, RowsStay, PromotionsTypeOK
      <4> QED  BY <1>0, <1>1, <2>1, <2>9, <3>1, <4>1, PromotionsAssumption
               DEF CallOK, Locked, Executing, Storing
    <3>4. ASSUME NEW d \in Callers \ {c} PROVE Respects(d)
      BY <1>0, <2>3, <2>4, <2>7, <2>9, <3>1 DEF Respects
    <3> QED  BY <1>1, <2>5, <2>6, <2>9, <3>1, <3>2, <3>3, <3>4, CallWrites DEF Locked
  <2> QED  BY <1>3, <2>8, <2>9
<1>4. CASE /\ StillPending(p) /\ call[c].op = "approve"
           /\ promos' = [promos EXCEPT ![p].state = "promoting"]
           /\ Goto(c, "ensure") /\ UNCHANGED <<held, slot>>
  BY <1>3, <1>4 DEF StillPending
<1>5. CASE /\ StillPending(p) /\ promos' = [promos EXCEPT ![p].state = "rejected"] /\ Return(c)
  BY <1>3, <1>5 DEF StillPending
<1> QED  BY <1>2, <1>4, <1>5 DEF Decide

(* The store call and the recorded outcome. *)
LEMMA StoreStep == ASSUME Promoting, NEW c \in Callers, StorePromote(c) PROVE Promoting'
<1> DEFINE p == call[c].promo
           b == call[c].build
<1>0. /\ PromotionsTypeOK /\ CallOK(c) /\ call[c].pc = "store"
      /\ UNCHANGED <<env, rel>> /\ changed' \in {changed, changed \cup {p}}
  BY DEF Promoting, StorePromote
<1>1. /\ b \in Builds /\ held[b] = c /\ p \in Promos /\ promos[p].build = b
      /\ promos[p].state \in {"promoting", "deleted"}
  BY <1>0 DEF CallOK, Locked, Executing, PromotionsTypeOK
<1>2. changed' \subseteq Promos /\ changed \subseteq changed' /\ changed' \ changed \subseteq {p}
  BY <1>0, <1>1 DEF PromotionsTypeOK
<1>3. CASE p \in changed' /\ Goto(c, "record") /\ UNCHANGED <<promos, held, slot>>
  <2>1. /\ call' \in [Callers -> CallRecords]
        /\ \A d \in Callers \ {c} : call'[d] = call[d]
        /\ call'[c].pc = "record" /\ call'[c].build = b
        /\ call'[c].promo = p /\ call'[c].todo = call[c].todo
    BY <1>0, <1>3, GotoFacts DEF Locked
  <2>2. PromotionsTypeOK'
    BY <1>0, <1>2, <1>3, <2>1 DEF PromotionsTypeOK, CallRecords
  <2>3. CallOK(c)'
    BY <1>0, <1>1, <1>3, <2>1, PromotionsAssumption
       DEF CallOK, Locked, Executing, Storing, Unpromoted
  <2>4. ASSUME NEW d \in Callers \ {c} PROVE Respects(d)
    BY <1>0, <1>2, <1>3, <2>1 DEF Respects, RowsStay, Unpromoted
  <2>5. \A q \in Promos : RowOK(q)'
    BY <1>0, <1>1, <1>2, <1>3 DEF Promoting, RowOK
  <2>6. PromotedOnce'
    BY <1>0, <1>3 DEF Promoting, PromotedOnce
  <2> QED  BY <1>3, <2>1, <2>2, <2>3, <2>4, <2>5, <2>6, CallWrites DEF Locked, Storing
<1>4. CASE MarkFailed({p}) /\ Return(c)
  <2>1. /\ promos' \in [Promos -> [state : PromotionStates, build : Builds \cup {NoBuild}]]
        /\ RowsStay
        /\ \A q \in Promos : promos[q].state = "promoting" /\ held[promos[q].build] # c
                    => promos'[q].state \in {"promoting", "deleted"}
        /\ \A a \in Builds : Unpromoted(a) => Unpromoted(a)'
        /\ \A q \in Promos : RowOK(q)'
        /\ PromotedOnce'
    <3>1. {p} \in SUBSET Promos /\ \A q \in {p} : /\ held[promos[q].build] = c
                                                  /\ promos[q].state \in {"promoting", "deleted"}
      BY <1>1
    <3>2. \A q \in changed' \ changed : promos[q].state \in {"promoting", "deleted"}
      BY <1>1, <1>2
    <3> HIDE DEF p, b
    <3> QED  BY <1>0, <1>2, <1>4, <3>1, <3>2, FailOwn
  <2> QED  BY <1>0, <1>2, <1>4, <2>1, ReturnWrites DEF PromotionsTypeOK
<1> QED  BY <1>3, <1>4 DEF StorePromote

(* The release is the first one of its build that did not fail: nobody else *)
(* recorded one since ensure_not_promoted looked.                           *)
LEMMA RecordStep == ASSUME Promoting, NEW c \in Callers, RecordPromotion(c) PROVE Promoting'
<1> DEFINE p == call[c].promo
           b == call[c].build
<1>0. /\ PromotionsTypeOK /\ CallOK(c) /\ call[c].pc = "record"
      /\ UNCHANGED <<env, changed>> /\ Return(c)
  BY DEF Promoting, RecordPromotion
<1>1. /\ b \in Builds /\ held[b] = c /\ p \in Promos /\ promos[p].build = b
      /\ promos[p].state \in {"promoting", "deleted"} /\ p \in changed /\ Unpromoted(b)
  BY <1>0 DEF CallOK, Locked, Executing, PromotionsTypeOK
<1>2. CASE /\ env.state = "there"
           /\ rel' = [rel EXCEPT ![p] = [state |-> "live", inEnv |-> TRUE]]
           /\ promos' = [promos EXCEPT ![p].state = "completed"]
  <2>1. promos[p].state = "promoting"
    BY <1>1, <1>2 DEF Promoting, RowOK
  <2>2. /\ promos' \in [Promos -> [state : PromotionStates, build : Builds \cup {NoBuild}]]
        /\ promos'[p].state = "completed" /\ promos'[p].build = b
        /\ \A q \in Promos \ {p} : promos'[q] = promos[q]
    BY <1>0, <1>1, <1>2 DEF PromotionsTypeOK, PromotionStates
  <2>3. /\ rel' \in [ReleaseIds -> [state : {"none", "live", "halted", "failed"}, inEnv : BOOLEAN]]
        /\ rel'[p].state = "live" /\ \A q \in Promos \ {p} : rel'[q] = rel[q]
    <3>1. p \in ReleaseIds /\ [state |-> "live", inEnv |-> TRUE] \in
                [state : {"none", "live", "halted", "failed"}, inEnv : BOOLEAN]
      BY <1>1 DEF ReleaseIds
    <3> QED  BY <1>0, <1>2, <3>1 DEF PromotionsTypeOK, ReleaseIds
  <2>4. RowsStay
    BY <1>1, <2>1, <2>2 DEF RowsStay
  <2>5. \A a \in Builds : held[a] # c /\ Unpromoted(a) => Unpromoted(a)'
    BY <1>1, <2>2, <2>3 DEF Unpromoted
  <2>6. \A q \in Promos : RowOK(q)'
    BY <1>0, <1>1, <2>2, <2>3 DEF RowOK, Promoting
  <2>7. PromotedOnce'
    BY <1>1, <2>2, <2>3 DEF PromotedOnce, Unpromoted, Promoting
  <2>8. \A q \in Promos : promos[q].state = "promoting" /\ held[promos[q].build] # c
                    => promos'[q].state \in {"promoting", "deleted"}
    BY <1>1, <2>2
  <2> HIDE DEF p, b
  <2> QED  BY <1>0, <2>2, <2>3, <2>4, <2>5, <2>6, <2>7, <2>8, ReturnWrites DEF PromotionsTypeOK
<1>3. CASE MarkFailed({p}) /\ UNCHANGED rel
  <2>1. {p} \in SUBSET Promos /\ \A q \in {p} : /\ held[promos[q].build] = c
                                                /\ promos[q].state \in {"promoting", "deleted"}
    BY <1>1
  <2> HIDE DEF p, b
  <2>2. /\ promos' \in [Promos -> [state : PromotionStates, build : Builds \cup {NoBuild}]]
        /\ RowsStay
        /\ \A q \in Promos : promos[q].state = "promoting" /\ held[promos[q].build] # c
                    => promos'[q].state \in {"promoting", "deleted"}
        /\ \A a \in Builds : Unpromoted(a) => Unpromoted(a)'
        /\ \A q \in Promos : RowOK(q)'
        /\ PromotedOnce'
    BY <1>0, <1>3, <2>1, FailOwn DEF PromotionsTypeOK
  <2> QED  BY <1>0, <1>3, <2>2, ReturnWrites DEF PromotionsTypeOK
<1> QED  BY <1>0, <1>2, <1>3 DEF RecordPromotion

(* delete_environment closes open promotions of builds nobody has locked. *)
LEMMA CloseStep == ASSUME Promoting, NEW c \in Callers, CloseOpenPromotion(c) PROVE Promoting'
<1>0. /\ PromotionsTypeOK /\ CallOK(c) /\ call[c].pc = "delete"
      /\ UNCHANGED <<env, rel, changed>>
  BY DEF Promoting, CloseOpenPromotion
<1>1. CASE Return(c) /\ UNCHANGED promos
  BY <1>0, <1>1, QuietReturn DEF PromotionsTypeOK
<1>2. ASSUME NEW p \in call[c].todo, held[promos[p].build] = NoCaller,
             held' = [held EXCEPT ![promos[p].build] = c],
             call' = [call EXCEPT ![c].todo = @ \ {p}],
             promos' = [promos EXCEPT ![p].state =
                    CASE @ = "pending" -> "rejected" [] @ = "promoting" -> "failed" [] OTHER -> @],
             UNCHANGED slot
      PROVE  Promoting'
  <2> DEFINE b == promos[p].build
             state == CASE promos[p].state = "pending" -> "rejected"
                        [] promos[p].state = "promoting" -> "failed"
                        [] OTHER -> promos[p].state
  <2>1. p \in Promos /\ promos[p].state # "absent" /\ b \in Builds
    BY <1>0, <1>2 DEF CallOK, PromotionsTypeOK, Promoting, RowOK
  <2>2. /\ state \in PromotionStates /\ state # "absent"
        /\ promos[p].state \in PromotionStates
        /\ promos[p].state \notin {"pending", "promoting"} => state = promos[p].state
        /\ promos[p].state = "pending" => state = "rejected"
        /\ promos[p].state = "promoting" => state = "failed"
    BY <1>0, <2>1 DEF PromotionsTypeOK, PromotionStates
  <2>3. promos' = [promos EXCEPT ![p].state = state]
    BY <1>0, <1>2, <2>1 DEF PromotionsTypeOK
  <2> HIDE DEF state
  <2>4. /\ promos' \in [Promos -> [state : PromotionStates, build : Builds \cup {NoBuild}]]
        /\ promos'[p].state = state /\ promos'[p].build = b
        /\ \A q \in Promos \ {p} : promos'[q] = promos[q]
    BY <1>0, <2>1, <2>2, <2>3 DEF PromotionsTypeOK
  <2>5. /\ call' \in [Callers -> CallRecords]
        /\ \A d \in Callers \ {c} : call'[d] = call[d]
        /\ call'[c].pc = "delete" /\ call'[c].build = call[c].build
        /\ call'[c].promo = call[c].promo /\ call'[c].todo \subseteq call[c].todo
    <3> DEFINE n == [call[c] EXCEPT !.todo = @ \ {p}]
    <3>1. call[c] \in CallRecords /\ call \in [Callers -> CallRecords]
      BY <1>0 DEF PromotionsTypeOK, CallRecords
    <3>2. /\ n \in CallRecords /\ n.pc = "delete" /\ n.build = call[c].build
          /\ n.promo = call[c].promo /\ n.todo \subseteq call[c].todo
      BY <1>0, <3>1 DEF CallRecords
    <3>3. call' = [call EXCEPT ![c] = n]
      BY <1>2, <3>1
    <3> HIDE DEF n
    <3> QED  BY <3>1, <3>2, <3>3
  <2>6. /\ held' \in [Builds -> Callers \cup {NoCaller}] /\ held'[b] = c /\ held[b] = NoCaller
        /\ \A a \in Builds \ {b} : held'[a] = held[a]
    BY <1>0, <1>2, <2>1 DEF PromotionsTypeOK
  <2> HIDE DEF b
  <2>7. PromotionsTypeOK'
    BY <1>0, <1>2, <2>4, <2>5, <2>6 DEF PromotionsTypeOK, CallRecords
  <2>8. RowsStay
    BY <2>1, <2>2, <2>4 DEF RowsStay, b
  <2>9. CallOK(c)'
    BY <1>0, <2>5, <2>8 DEF CallOK, Locked, Executing, Storing, RowsStay, PromotionsTypeOK
  <2>10. ASSUME NEW d \in Callers \ {c} PROVE Respects(d)
    <3>1. \A a \in Builds : held[a] = d => held'[a] = d
      BY <2>6, PromotionsAssumption
    <3>2. \A q \in Promos : promos[q].state = "promoting" /\ held[promos[q].build] = d
            => promos'[q].state \in {"promoting", "deleted"}
      BY <1>2, <2>4, PromotionsAssumption
    <3>3. \A a \in Builds : Unpromoted(a) => Unpromoted(a)'
      BY <1>0, <2>1, <2>4 DEF Unpromoted, b
    <3> QED  BY <1>0, <1>2, <2>5, <2>8, <3>1, <3>2, <3>3 DEF Respects
  <2>11. slot # c
    BY <1>0, PromotionsAssumption DEF Promoting, LocksOK, Storing
  <2>12. \A q \in Promos : RowOK(q)'
    BY <1>0, <2>1, <2>2, <2>4 DEF RowOK, Promoting, PromotionStates, b
  <2>13. PromotedOnce'
    BY <1>0, <2>1, <2>4 DEF PromotedOnce, Promoting, b
  <2> QED  BY <1>2, <2>5, <2>6, <2>7, <2>9, <2>10, <2>11, <2>12, <2>13, CallWrites
<1> QED  BY <1>1, <1>2 DEF CloseOpenPromotion

(* The DELETE of the environment takes its promotions and links with it. *)
LEMMA DeleteRowStep == ASSUME Promoting, NEW c \in Callers, DeleteRow(c) PROVE Promoting'
<1>0. /\ PromotionsTypeOK /\ UNCHANGED changed /\ Return(c)
      /\ env' = [env EXCEPT !.state = "deleted"]
      /\ promos' = [p \in Promos |-> IF promos[p].state = "absent" THEN promos[p]
                                     ELSE [promos[p] EXCEPT !.state = "deleted"]]
      /\ rel' = [r \in ReleaseIds |-> [rel[r] EXCEPT !.inEnv = FALSE]]
  BY DEF Promoting, DeleteRow
<1>1. /\ env' \in [state : {"none", "there", "deleted"}, approval : BOOLEAN]
      /\ env'.state = "deleted"
  BY <1>0 DEF PromotionsTypeOK
<1>2. /\ promos' \in [Promos -> [state : PromotionStates, build : Builds \cup {NoBuild}]]
      /\ \A p \in Promos : /\ promos'[p].build = promos[p].build
                           /\ promos'[p].state = IF promos[p].state = "absent" THEN "absent"
                                                 ELSE "deleted"
  BY <1>0 DEF PromotionsTypeOK, PromotionStates
<1>3. /\ rel' \in [ReleaseIds -> [state : {"none", "live", "halted", "failed"}, inEnv : BOOLEAN]]
      /\ \A p \in Promos : ~rel'[p].inEnv /\ rel'[p].state = rel[p].state
  <2>1. \A r \in ReleaseIds : [rel[r] EXCEPT !.inEnv = FALSE]
                \in [state : {"none", "live", "halted", "failed"}, inEnv : BOOLEAN]
    <3>1. ASSUME NEW r \in ReleaseIds, NEW no \in BOOLEAN
          PROVE  [rel[r] EXCEPT !.inEnv = no]
                    \in [state : {"none", "live", "halted", "failed"}, inEnv : BOOLEAN]
      BY <1>0 DEF PromotionsTypeOK
    <3> QED  BY <3>1
  <2>2. \A p \in Promos : p \in ReleaseIds
    BY DEF ReleaseIds
  <2> QED  BY <1>0, <2>1, <2>2 DEF PromotionsTypeOK
<1>4. RowsStay
  BY <1>2 DEF RowsStay
<1>5. \A b \in Builds : Unpromoted(b)'
  BY <1>3 DEF Unpromoted
<1>6. \A p \in Promos : RowOK(p)'
  BY <1>0, <1>1, <1>2, <1>3 DEF RowOK, Promoting
<1>7. PromotedOnce'
  BY <1>3 DEF PromotedOnce
<1> QED  BY <1>0, <1>1, <1>2, <1>3, <1>4, <1>5, <1>6, <1>7, ReturnWrites DEF PromotionsTypeOK

(* A restart fails some of what was promoting and forgets every call and    *)
(* lock.                                                                    *)
LEMMA RestartStep == ASSUME Promoting, Restart PROVE Promoting'
<1>0. /\ PromotionsTypeOK /\ UNCHANGED <<env, rel, changed>>
      /\ call' = [c \in Callers |-> Idle] /\ held' = [b \in Builds |-> NoCaller]
      /\ slot' = NoCaller
  BY DEF Promoting, Restart
<1>1. PICK ps \in SUBSET Interrupted : MarkFailed(ps)
  BY DEF Restart
<1>2. /\ promos' \in [Promos -> [state : PromotionStates, build : Builds \cup {NoBuild}]]
      /\ \A p \in Promos :
            /\ promos'[p].build = promos[p].build
            /\ \/ promos'[p].state = promos[p].state
               \/ promos[p].state = "promoting" /\ promos'[p].state = "failed"
  BY <1>0, <1>1, MarkFailedFacts DEF Interrupted
<1>3. PromotionsTypeOK'
  BY <1>0, <1>2, IdleTyped DEF PromotionsTypeOK, CallRecords
<1>4. \A c \in Callers : CallOK(c)'
  BY <1>0, IdleCall
<1>5. \A p \in Promos : RowOK(p)'
  BY <1>0, <1>2 DEF RowOK, Promoting
<1>6. LocksOK' /\ PromotedOnce'
  BY <1>0, <1>2 DEF LocksOK, PromotedOnce, Promoting
<1> QED  BY <1>3, <1>4, <1>5, <1>6 DEF Promoting

(* The steps of no call: the environment is created, a release is uploaded, *)
(* or moves on; a failed release stays failed.                              *)
LEMMA OutsideSteps ==
    ASSUME Promoting,
           \/ \E a \in BOOLEAN : CreateEnvironment(a)
           \/ \E b \in Builds, here \in BOOLEAN : UploadRelease(b, here)
           \/ \E r \in ReleaseIds, s \in {"live", "halted", "failed"} : ReleaseMoves(r, s)
    PROVE  Promoting'
<1>0. PromotionsTypeOK /\ UNCHANGED <<promos, changed, call, held, slot>>
  BY DEF Promoting, CreateEnvironment, UploadRelease, ReleaseMoves
<1>1. /\ env' \in [state : {"none", "there", "deleted"}, approval : BOOLEAN]
      /\ env.state = "deleted" => env'.state = "deleted"
  BY <1>0 DEF CreateEnvironment, UploadRelease, ReleaseMoves, PromotionsTypeOK
<1>2. rel' \in [ReleaseIds -> [state : {"none", "live", "halted", "failed"}, inEnv : BOOLEAN]]
  <2>1. ASSUME NEW b \in Builds, NEW here \in BOOLEAN, UploadRelease(b, here)
        PROVE  <1>2
    <3>1. [state |-> "live", inEnv |-> here]
                \in [state : {"none", "live", "halted", "failed"}, inEnv : BOOLEAN]
      BY <2>1
    <3> QED  BY <1>0, <2>1, <3>1 DEF UploadRelease, PromotionsTypeOK
  <2>2. ASSUME NEW r \in ReleaseIds, NEW s \in {"live", "halted", "failed"}, ReleaseMoves(r, s)
        PROVE  <1>2
    BY <1>0, <2>2 DEF ReleaseMoves, PromotionsTypeOK
  <2>3. CASE UNCHANGED rel
    BY <1>0, <2>3 DEF PromotionsTypeOK
  <2> QED  BY <2>1, <2>2, <2>3 DEF CreateEnvironment
<1>3. \A p \in Promos : /\ rel'[p].inEnv = rel[p].inEnv
                        /\ rel[p].state \in {"none", "failed"} => rel'[p].state = rel[p].state
                        /\ rel[p].state # "none" => rel'[p].state # "none"
  <2>1. ASSUME NEW b \in Builds, NEW here \in BOOLEAN, UploadRelease(b, here)
        PROVE  <1>3
    <3>1. \A p \in Promos : p # b /\ p \in ReleaseIds
      BY PromotionsAssumption DEF ReleaseIds
    <3>2. \A p \in Promos : rel'[p] = rel[p]
      BY <1>0, <2>1, <3>1 DEF UploadRelease, PromotionsTypeOK
    <3> QED  BY <3>2
  <2>2. ASSUME NEW r \in ReleaseIds, NEW s \in {"live", "halted", "failed"}, ReleaseMoves(r, s)
        PROVE  <1>3
    <3>1. \A p \in Promos : p \in ReleaseIds
      BY DEF ReleaseIds
    <3> QED  BY <1>0, <2>2, <3>1 DEF ReleaseMoves, PromotionsTypeOK
  <2>3. CASE UNCHANGED rel
    BY <2>3
  <2> QED  BY <2>1, <2>2, <2>3 DEF CreateEnvironment
<1>4. PromotionsTypeOK'
  BY <1>0, <1>1, <1>2 DEF PromotionsTypeOK
<1>5. \A d \in Callers : Respects(d)
  BY <1>0, <1>3 DEF Respects, RowsStay, Unpromoted
<1>6. \A p \in Promos : RowOK(p)'
  BY <1>0, <1>1, <1>3 DEF Promoting, RowOK
<1>7. PromotedOnce'
  <2>1. \A p \in Promos : rel[p].state = "failed" => rel'[p].state = "failed"
    BY <1>3
  <2> QED  BY <1>0, <1>3, <2>1 DEF Promoting, PromotedOnce
<1>8. LocksOK'
  BY <1>0 DEF Promoting, LocksOK
<1> QED  BY <1>4, <1>5, <1>6, <1>7, <1>8, OtherCalls DEF Promoting

-----------------------------------------------------------------------------
(* The theorems. *)

(* No call, row or release is there at first. *)
LEMMA InitPromoting == PromotionsInit => Promoting
<1> SUFFICES ASSUME PromotionsInit PROVE Promoting
  OBVIOUS
<1>1. PromotionsTypeOK
  <2>1. /\ [state |-> "none", approval |-> FALSE]
                \in [state : {"none", "there", "deleted"}, approval : BOOLEAN]
        /\ [state |-> "none", inEnv |-> FALSE]
                \in [state : {"none", "live", "halted", "failed"}, inEnv : BOOLEAN]
    OBVIOUS
  <2> QED  BY <2>1, IdleTyped DEF PromotionsInit, PromotionsTypeOK, CallRecords, PromotionStates
<1>2. \A c \in Callers : CallOK(c)
  BY DEF PromotionsInit, CallOK, Idle, Locked, Executing, Storing
<1>3. \A p \in Promos : p \in ReleaseIds /\ ~rel[p].inEnv /\ rel[p].state = "none"
  BY DEF PromotionsInit, ReleaseIds
<1>4. \A p \in Promos : RowOK(p)
  BY <1>3 DEF PromotionsInit, RowOK
<1>5. LocksOK /\ PromotedOnce
  BY <1>3 DEF PromotionsInit, LocksOK, PromotedOnce
<1> QED  BY <1>1, <1>2, <1>4, <1>5 DEF Promoting

(* Every step keeps the invariant. *)
LEMMA PromotingStep == Promoting /\ [PromotionsNext]_promotionVars => Promoting'
<1> SUFFICES ASSUME Promoting, [PromotionsNext]_promotionVars PROVE Promoting'
  OBVIOUS
<1>1. ASSUME NEW c \in Callers, CallStep(c) PROVE Promoting'
  <2>1. CASE WriteEnvironment(c)
    <3>1. /\ Return(c) /\ UNCHANGED <<promos, rel, changed>>
          /\ env' \in [state : {"none", "there", "deleted"}, approval : BOOLEAN]
          /\ env.state = "deleted" => env'.state = "deleted"
      BY <2>1 DEF WriteEnvironment, Promoting, PromotionsTypeOK
    <3> QED  BY <3>1, QuietReturn
  <2> QED  BY <1>1, <2>1, LockSteps, EnsureStep, InsertStep, DecideStep, StoreStep, RecordStep,
              CloseStep, DeleteRowStep DEF CallStep
<1>2. ASSUME NEW c \in Callers, CutShort(c) PROVE Promoting'
  BY <1>2, QuietReturn DEF CutShort, Promoting, PromotionsTypeOK
<1>3. CASE UNCHANGED promotionVars
  BY <1>3 DEF promotionVars, Promoting, PromotionsTypeOK, CallOK, RowOK, LocksOK, PromotedOnce,
              Unpromoted
<1> QED  BY <1>1, <1>2, <1>3, NewCallStep, OutsideSteps, RestartStep DEF PromotionsNext

(* The inductive invariant holds in every reachable state. *)
THEOREM PromotingAlways == PromotionsSpec => []Promoting
BY InitPromoting, PromotingStep, PTL DEF PromotionsSpec

(* A build is promoted into the environment at most once: no order of       *)
(* requests, approvals, lost store answers, deletions and restarts leaves   *)
(* two promotions of one build that did not fail.                           *)
THEOREM BuildsPromotedOnce == PromotionsSpec => []PromotedOnce
<1>1. Promoting => PromotedOnce
  BY DEF Promoting
<1> QED  BY <1>1, PromotingAlways, PTL

(* Store calls keep apart, and some call can always move on: the two locks  *)
(* are taken in one order only (promotion_lock, then store_slot_lock).      *)
THEOREM CallsKeepApart == PromotionsSpec => []CallsApart
<1>1. ASSUME Promoting PROVE CallsApart
  <2> DEFINE storing == {c \in Callers : call[c].pc \in {"store", "record"}}
             waiting == {c \in Callers :
                            \/ call[c].pc = "lock" /\ held[call[c].build] # NoCaller
                            \/ call[c].pc = "slot" /\ SharedSlot /\ slot # NoCaller}
  <2>1. ASSUME NEW c \in storing, NEW d \in storing, c # d
        PROVE  call[c].build # call[d].build /\ ~SharedSlot
    <3>1. CallOK(c) /\ CallOK(d)
      BY <1>1 DEF Promoting
    <3> QED  BY <2>1, <3>1 DEF CallOK, Locked, Storing
  <2>2. slot # NoCaller => slot \in Callers /\ call[slot].pc \in Storing
    BY <1>1 DEF Promoting, PromotionsTypeOK, LocksOK
  <2>3. ASSUME NEW w \in waiting PROVE \E c \in Callers \ waiting : call[c].pc # "idle"
    <3>1. CASE call[w].pc = "slot" /\ SharedSlot /\ slot # NoCaller
      BY <2>2, <3>1 DEF Storing
    <3>2. CASE call[w].pc = "lock" /\ held[call[w].build] # NoCaller
      <4> DEFINE h == held[call[w].build]
      <4>1. call[w].build \in Builds
        BY <1>1, <3>2 DEF Promoting, CallOK
      <4>2. h \in Callers /\ call[h].pc \in Locked \cup {"delete"}
        BY <1>1, <3>2, <4>1 DEF Promoting, PromotionsTypeOK, LocksOK
      <4>3. CASE h \in waiting
        <5>1. slot # NoCaller
          BY <4>2, <4>3 DEF Locked
        <5> QED  BY <2>2, <5>1 DEF Storing
      <4>4. CASE h \notin waiting
        BY <4>2, <4>4 DEF Locked
      <4> QED  BY <4>3, <4>4
    <3> QED  BY <2>3, <3>1, <3>2
  <2> QED  BY <2>1, <2>3 DEF CallsApart
<1> QED  BY <1>1, PromotingAlways, PTL

(* Outcomes are final: mark_failed is only reached for rows that are still  *)
(* promoting, or went with their environment.                               *)
LEMMA OutcomesStay ==
    ASSUME Promoting, PromotionsNext, NEW p \in Promos,
           promos[p].state \in {"completed", "failed", "rejected"}
    PROVE  promos'[p].state \in {promos[p].state, "deleted"} /\ (p \in changed' <=> p \in changed)
<1> DEFINE Stays == promos'[p].state \in {promos[p].state, "deleted"}
                    /\ (p \in changed' <=> p \in changed)
<1>0. PromotionsTypeOK
  BY DEF Promoting
<1>1. ASSUME NEW ps, MarkFailed(ps), p \notin ps, UNCHANGED changed PROVE Stays
  BY <1>0, <1>1, MarkFailedFacts
<1>2. ASSUME NEW c \in Callers, CallStep(c) PROVE Stays
  <2> DEFINE q == call[c].promo
  <2>0. /\ CallOK(c) /\ q \in Promos \cup {NoPromo}
        /\ call[c].todo \subseteq Promos /\ call[c].build \in Builds \cup {NoBuild}
    BY <1>0 DEF Promoting, PromotionsTypeOK
  <2>1. CASE TakeLock(c) \/ TakeSlot(c) \/ WriteEnvironment(c)
    BY <2>1 DEF TakeLock, TakeSlot, WriteEnvironment
  <2>2. CASE EnsureNotPromoted(c)
    <3>1. UNCHANGED changed /\ call[c].pc = "ensure"
          /\ (MarkFailed(Open(call[c].build) \ {q})
              \/ MarkFailed(IF call[c].op = "approve" THEN {q} ELSE {}))
      BY <2>2 DEF EnsureNotPromoted
    <3>2. p \notin Open(call[c].build) \ {q}
      BY DEF Open
    <3>3. p \notin (IF call[c].op = "approve" THEN {q} ELSE {})
      BY <2>0, <3>1 DEF CallOK
    <3> QED  BY <1>1, <3>1, <3>2, <3>3
  <2>3. CASE InsertPromotion(c)
    <3>1. UNCHANGED changed
      BY <2>3 DEF InsertPromotion
    <3>2. promos'[p] = promos[p]
      <4>1. CASE UNCHANGED promos
        BY <4>1
      <4>2. ASSUME NEW n \in Promos, promos[n].state = "absent", NEW row,
                   promos' = [promos EXCEPT ![n] = row]
            PROVE  promos'[p] = promos[p]
        BY <1>0, <4>2 DEF PromotionsTypeOK
      <4> QED  BY <2>3, <4>1, <4>2 DEF InsertPromotion
    <3> QED  BY <3>1, <3>2
  <2>4. CASE Decide(c)
    <3>1. UNCHANGED changed /\ call[c].pc = "decide" /\ q \in Promos
      BY <2>0, <2>4 DEF Decide, CallOK
    <3>2. \/ UNCHANGED promos
          \/ /\ promos[q].state = "pending"
             /\ \E s \in PromotionStates : promos' = [promos EXCEPT ![q].state = s]
      BY <2>4 DEF Decide, StillPending, PromotionStates
    <3> QED  BY <1>0, <3>1, <3>2 DEF PromotionsTypeOK
  <2>5. CASE StorePromote(c)
    <3>1. call[c].pc = "store" /\ q \in Promos /\ promos[q].state \in {"promoting", "deleted"}
      BY <2>0, <2>5 DEF StorePromote, CallOK, Executing
    <3>2. p # q /\ changed' \in {changed, changed \cup {q}}
      BY <2>5, <3>1 DEF StorePromote
    <3>3. UNCHANGED promos \/ MarkFailed({q})
      BY <2>5 DEF StorePromote
    <3>4. promos'[p].state = promos[p].state
      BY <1>0, <3>2, <3>3, MarkFailedFacts
    <3> QED  BY <3>2, <3>4
  <2>6. CASE RecordPromotion(c)
    <3>1. call[c].pc = "record" /\ q \in Promos /\ promos[q].state \in {"promoting", "deleted"}
      BY <2>0, <2>6 DEF RecordPromotion, CallOK, Executing
    <3>2. p # q /\ UNCHANGED changed
      BY <2>6, <3>1 DEF RecordPromotion
    <3>3. promos' = [promos EXCEPT ![q].state = "completed"] \/ MarkFailed({q})
      BY <2>6 DEF RecordPromotion
    <3>4. promos'[p].state = promos[p].state
      BY <1>0, <3>1, <3>2, <3>3, MarkFailedFacts DEF PromotionsTypeOK
    <3> QED  BY <3>2, <3>4
  <2>7. CASE CloseOpenPromotion(c)
    <3>1. UNCHANGED changed
      BY <2>7 DEF CloseOpenPromotion
    <3>2. CASE UNCHANGED promos
      BY <3>1, <3>2
    <3>3. ASSUME NEW n \in call[c].todo,
                 promos' = [promos EXCEPT ![n].state =
                    CASE @ = "pending" -> "rejected" [] @ = "promoting" -> "failed" [] OTHER -> @]
          PROVE  Stays
      BY <1>0, <2>0, <3>1, <3>3 DEF PromotionsTypeOK
    <3> QED  BY <2>7, <3>2, <3>3 DEF CloseOpenPromotion
  <2>8. CASE DeleteRow(c)
    BY <1>0, <2>8 DEF DeleteRow, PromotionsTypeOK
  <2> QED  BY <1>2, <2>1, <2>2, <2>3, <2>4, <2>5, <2>6, <2>7, <2>8 DEF CallStep
<1>3. CASE Restart
  <2>1. PICK ps \in SUBSET Interrupted : MarkFailed(ps)
    BY <1>3 DEF Restart
  <2> QED  BY <1>1, <1>3, <2>1 DEF Restart, Interrupted
<1>4. CASE \/ \E c \in Callers : NewCall(c) \/ CutShort(c)
           \/ \E a \in BOOLEAN : CreateEnvironment(a)
           \/ \E b \in Builds, here \in BOOLEAN : UploadRelease(b, here)
           \/ \E r \in ReleaseIds, s \in {"live", "halted", "failed"} : ReleaseMoves(r, s)
  <2>1. UNCHANGED <<promos, changed>>
    BY <1>4 DEF NewCall, RequestPromotion, DecidePromotion, UpdateEnvironment, DeleteEnvironment,
                CutShort, CreateEnvironment, UploadRelease, ReleaseMoves
  <2> QED  BY <2>1
<1> QED  BY <1>2, <1>3, <1>4 DEF PromotionsNext

(* Promotion rows tell what happened in the store, and their outcomes are   *)
(* final, also when a restart leaves some promoting                         *)
(* (environment_promotions.state, fail_interrupted_promotions).             *)
THEOREM RowsTell == PromotionsSpec => RowsTellTheStore
<1> DEFINE Tell == /\ \A p \in changed' :
                        promos'[p].state \in {"promoting", "completed", "failed", "deleted"}
                   /\ \A p \in Promos : promos'[p].state = "completed"
                        => p \in changed' /\ rel'[p].state # "none"
                   /\ \A p \in Promos : promos[p].state \in {"completed", "failed", "rejected"}
                        => promos'[p].state \in {promos[p].state, "deleted"}
                            /\ (p \in changed' <=> p \in changed)
<1>1. ASSUME Promoting, Promoting', PromotionsNext PROVE Tell
  <2>1. (\A p \in Promos : RowOK(p)') /\ changed' \subseteq Promos
    BY <1>1 DEF Promoting, PromotionsTypeOK
  <2>2. ASSUME NEW p \in Promos, promos[p].state \in {"completed", "failed", "rejected"}
        PROVE  promos'[p].state \in {promos[p].state, "deleted"} /\ (p \in changed' <=> p \in changed)
    BY <1>1, <2>2, OutcomesStay
  <2>3. ASSUME NEW p \in changed'
        PROVE  promos'[p].state \in {"promoting", "completed", "failed", "deleted"}
    <3>1. RowOK(p)' /\ p \in Promos
      BY <2>1, <2>3
    <3> QED  BY <3>1, <2>3 DEF RowOK
  <2>4. ASSUME NEW p \in Promos, promos'[p].state = "completed"
        PROVE  p \in changed' /\ rel'[p].state # "none"
    <3>1. RowOK(p)'
      BY <2>1
    <3> QED  BY <3>1, <2>4 DEF RowOK
  <2> QED  BY <2>2, <2>3, <2>4
<1>2. Promoting /\ [PromotionsNext]_promotionVars => [Tell]_promotionVars
  BY <1>1, PromotingStep
<1> QED  BY <1>2, PromotingAlways, PTL DEF PromotionsSpec, RowsTellTheStore
=============================================================================
