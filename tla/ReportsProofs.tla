--------------------------- MODULE ReportsProofs ----------------------------
(***************************************************************************)
(* Theorems about the two reporters of builds, for every set of builds and *)
(* channels, every number of platforms, attempts and permits.              *)
(*                                                                         *)
(* Notifications: a scan's reading of "not told yet" cannot go stale,      *)
(* because only the scan itself records what was told (TellOK), and an     *)
(* attempt under way on a delivery keeps it from being due (SendOK).       *)
(*                                                                         *)
(* Commit checks: the status is read twice and the older reading is        *)
(* written back.  This is sound because statuses only move on: what a      *)
(* check shows lies between the status the column says was reported and    *)
(* the status of the build (ShownOK), and the two ends meet when the       *)
(* column says what the build is.                                          *)
(***************************************************************************)
EXTENDS Reports, TLAPS

OutboxRows == [state : {"absent", "pending", "delivered", "failed"}, tries : Nat, due : BOOLEAN,
               copies : Nat]
Attempts == [pc : {"idle", "claim", "channel", "send", "ok", "error", "off"}, nth : Nat]
ScanRows == [b : Builds, s : Terminal, news : BOOLEAN]
Scans == [on : BOOLEAN, rows : SUBSET ScanRows, fresh : SUBSET Keys]

NotifyShape ==
    /\ notified \in [Builds -> BuildStatuses \cup {"none"}]
    /\ outbox \in [Keys -> OutboxRows]
    /\ scan \in Scans
    /\ attempt \in [Keys \X Starters -> Attempts]
    /\ status \in [Builds -> RowStates]

(* What the scan read is still so: a build it is about to tell of was told  *)
(* of by nobody else.                                                       *)
TellOK ==
    /\ \A k \in Keys : outbox[k].state # "absent" => notified[k[1]] \in Terminal
    /\ \A k \in Keys : outbox[k].state = "absent" => outbox[k].copies = 0
    /\ \A r \in scan.rows : r.news => notified[r.b] \notin Terminal
    /\ \A r, q \in scan.rows : r.b = q.b => r = q
    /\ ToldOneEnd

(* An attempt under way is at a delivery that was told of, unless the build *)
(* is gone, and the delivery is not due.                                    *)
SendOK ==
    /\ \A k \in Keys, t \in Starters :
        InFlight(<<k, t>>) =>
            /\ notified[k[1]] \in Terminal \/ status[k[1]] = "deleted"
            /\ ChannelOf(k) \notin Slow => ~outbox[k].due
    /\ SendsApart

-----------------------------------------------------------------------------
(* How far a build has come, as the source shows it. *)
Rank(s) == IF Phase(s) = "queued" THEN 0 ELSE IF s = "running" THEN 1
           ELSE IF s = "expired" THEN 3 ELSE 2
Later(s, t) == Phase(s) = Phase(t) \/ Rank(s) < Rank(t)

(* The newest build of the commit, and no other was deleted. *)
Newest(b) ==
    \A c \in Builds \ {b} : status[c] = "absent" \/ (There(c) /\ CreatedAt[c] < CreatedAt[b])

(* What a check can show. *)
Faces == RowStates \cup {"none", "cancelled"}

PassRows == [b : Builds, s : BuildStatuses, was : BuildStatuses \cup {"none"}, n : Nat]
Passes == [pc : {"idle", "next", "report", "record", "finish"},
           rows : SUBSET PassRows, row : PassRows \cup {NoBuild},
           seen : RowStates \cup {"none"}, at : Nat \ {0},
           res : {"none", "quiet", "told", "kept", "untold", "error", "refused"}]

ChecksShape ==
    /\ reported \in [Builds -> BuildStatuses \cup {"none"}]
    /\ failures \in [Builds -> Nat]
    /\ missed \subseteq Builds
    /\ owner \in [1..Platforms -> Builds \cup {0}]
    /\ check \in [1..Platforms -> [b : Builds \cup {0}, phase : Faces]]
    /\ pass \in Passes
    /\ status \in [Builds -> RowStates]

Working == pass.pc \in {"report", "record", "finish"}

(* A selected row: its build exists or existed, and what was read of it     *)
(* lies behind what it is now.                                              *)
RowOK(r) ==
    /\ r.b \in Builds /\ status[r.b] # "absent"
    /\ There(r.b) => /\ r.was = reported[r.b]
                     /\ r.was # "none" => Later(r.was, r.s)
                     /\ Later(r.s, status[r.b])

RowsOK ==
    /\ \A b \in Builds : /\ status[b] = "absent" => reported[b] = "none"
                         /\ There(b) /\ reported[b] # "none" => Later(reported[b], status[b])
    /\ \A r \in pass.rows : RowOK(r)
    /\ \A r, q \in pass.rows : r.b = q.b => r = q
    /\ Working => pass.row \in PassRows /\ RowOK(pass.row) /\ \A r \in pass.rows : r.b # pass.row.b

(* The check of platform p shows build b with status t, and b owns it. *)
Shows(p, b, t) == owner[p] = b /\ check[p].b = b /\ check[p].phase = Shown(t)

Counts(b) == Newest(b) /\ There(b) /\ status[b] # "expired"

(* A deleted build owns no check. *)
OwnersOK == \A p \in 1..Platforms : owner[p] # 0 => There(owner[p])

(* The status told lies between the one selected and the one there is. *)
SeenOK ==
    Working /\ pass.res \in {"told", "kept"} =>
        /\ pass.seen \in BuildStatuses
        /\ There(pass.row.b) => /\ Later(pass.row.s, pass.seen)
                                /\ Later(pass.seen, status[pass.row.b])

(* How far a report is. *)
StageOK ==
    /\ pass.pc \in {"report", "record"} => pass.res \in {"told", "kept"}
    /\ pass.pc = "record" => /\ pass.at \in 1..Platforms
                             /\ ~NewerOwns(pass.row.b, pass.at)
    /\ pass.pc = "record" /\ pass.res = "told" => /\ check[pass.at].b = pass.row.b
                                                  /\ check[pass.at].phase = Shown(pass.seen)
    /\ pass.pc = "finish" => /\ pass.res # "none"
                             /\ pass.res = "told" => pass.at > Platforms

(* What a report has set so far. *)
SetOK ==
    Working /\ pass.res = "told" /\ Counts(pass.row.b) =>
        \A p \in 1..Platforms : p < pass.at => Shows(p, pass.row.b, pass.seen)

(* Why a quiet report had nothing to set. *)
QuietOK ==
    pass.pc = "finish" /\ pass.res = "quiet" /\ Counts(pass.row.b) =>
        pass.row.was # "none" /\ Phase(pass.row.was) = Phase(pass.row.s)

ReportOK == OwnersOK /\ SeenOK /\ StageOK /\ SetOK /\ QuietOK

(* The checks show what was reported of the newest build, or something      *)
(* later, and never more than it is.                                        *)
ShownOK ==
    \A b \in Builds :
        Counts(b) /\ b \notin missed /\ reported[b] # "none" =>
            \A p \in 1..Platforms :
                \E t \in BuildStatuses : /\ Shows(p, b, t)
                                         /\ Later(reported[b], t) /\ Later(t, status[b])

Reporting ==
    /\ slice \in Slices /\ NotifyShape /\ TellOK /\ SendOK
    /\ ChecksShape /\ RowsOK /\ ReportOK /\ ShownOK

-----------------------------------------------------------------------------
(* Notifications. *)

(* A delivery is known by its build, channel and event type. *)
LEMMA KeyParts ==
    /\ \A k \in Keys : k[1] \in Builds /\ k[2] \in Channels /\ k[3] \in Terminal
    /\ \A k, l \in Keys : k[1] = l[1] /\ k[2] = l[2] /\ k[3] = l[3] => k = l
BY DEF Keys

(* The initial rows are rows. *)
LEMMA NoRowShape ==
    NoRow \in OutboxRows /\ NoRow.state = "absent" /\ ~NoRow.due /\ NoRow.copies = 0
<1> DEFINE r(b) == [state |-> "absent", tries |-> 0, due |-> b, copies |-> 0]
<1>1. ASSUME NEW b \in BOOLEAN
      PROVE  r(b) \in OutboxRows /\ r(b).state = "absent" /\ r(b).due = b /\ r(b).copies = 0
  BY DEF OutboxRows
<1>2. NoRow = r(FALSE) /\ FALSE \in BOOLEAN
  BY Zenon DEF NoRow
<1> HIDE DEF r
<1> QED  BY <1>1, <1>2, Zenon

(* A scan at rest. *)
LEMMA IdleScanShape == IdleScan \in Scans /\ IdleScan.rows = {} /\ IdleScan.fresh = {}
<1> DEFINE r(b) == [on |-> b, rows |-> {}, fresh |-> {}]
<1>1. ASSUME NEW b \in BOOLEAN
      PROVE  r(b) \in Scans /\ r(b).rows = {} /\ r(b).fresh = {}
  BY DEF Scans
<1>2. IdleScan = r(FALSE) /\ FALSE \in BOOLEAN
  BY Zenon DEF IdleScan
<1> HIDE DEF r
<1> QED  BY <1>1, <1>2, Zenon

(* No attempt, and one that waits for its claim. *)
LEMMA IdleAttempts ==
    /\ NoAttempt \in Attempts /\ NoAttempt.pc = "idle"
    /\ [NoAttempt EXCEPT !.pc = "claim"] \in Attempts
    /\ [NoAttempt EXCEPT !.pc = "claim"].pc = "claim"
BY DEF NoAttempt, Attempts

(* No row is added for an event. *)
NoCopy(k) ==
    \/ outbox'[k] = NoRow
    \/ /\ outbox'[k].copies = outbox[k].copies
       /\ outbox'[k].state = "absent" => outbox[k].state = "absent"

(* What the notification half of the invariant needs of a step in which no  *)
(* delivery is recorded or claimed: rows only disappear, none becomes due,  *)
(* no attempt gets under way, and builds told of stay told of or go.        *)
Quieter ==
    /\ NotifyShape'
    /\ \A k \in Keys :
        /\ outbox'[k].state # "absent" => outbox[k].state # "absent"
        /\ outbox'[k].due => outbox[k].due
        /\ NoCopy(k)
        /\ \A t \in Starters : InFlight(<<k, t>>)' => InFlight(<<k, t>>)
        /\ notified'[k[1]] = notified[k[1]] \/ /\ outbox'[k] = NoRow
                                               /\ status'[k[1]] = "deleted"
        /\ status[k[1]] = "deleted" => status'[k[1]] = "deleted"
    /\ scan'.rows \subseteq scan.rows
    /\ \A b \in Builds : notified'[b] = notified[b] \/ notified'[b] = "none"

(* A step of that kind keeps the notification half. *)
LEMMA QuieterKeeps ==
    ASSUME NotifyShape, TellOK, SendOK, Quieter
    PROVE  NotifyShape' /\ TellOK' /\ SendOK'
<1>1. \A k \in Keys : outbox'[k].state # "absent" => notified'[k[1]] \in Terminal
  BY NoRowShape DEF Quieter, TellOK
<1>2. \A r \in scan'.rows : r.news => notified'[r.b] \notin Terminal
  <2>1. \A r \in scan'.rows : r \in scan.rows /\ r.b \in Builds
    BY DEF Quieter, NotifyShape, Scans, ScanRows
  <2> QED  BY <2>1 DEF Quieter, TellOK, Terminal
<1>3. \A r, q \in scan'.rows : r.b = q.b => r = q
  BY DEF Quieter, TellOK
<1>4. ToldOneEnd' /\ \A k \in Keys : outbox'[k].state = "absent" => outbox'[k].copies = 0
  BY NoRowShape DEF Quieter, NoCopy, TellOK, ToldOneEnd
<1>5. ASSUME NEW k \in Keys, NEW t \in Starters, InFlight(<<k, t>>)'
      PROVE  /\ notified'[k[1]] \in Terminal \/ status'[k[1]] = "deleted"
             /\ ChannelOf(k) \notin Slow => ~outbox'[k].due
  BY <1>5 DEF Quieter, SendOK
<1>6. SendsApart'
  BY DEF Quieter, SendOK, SendsApart, Starters
<1> QED  BY <1>1, <1>2, <1>3, <1>4, <1>5, <1>6 DEF Quieter, TellOK, SendOK

(* Steps that leave the notifications and the statuses alone. *)
LEMMA NotifyUntouched ==
    ASSUME NotifyShape, TellOK, SendOK, UNCHANGED <<notified, outbox, scan, attempt, status>>
    PROVE  NotifyShape' /\ TellOK' /\ SendOK'
BY DEF NotifyShape, TellOK, SendOK, ToldOneEnd, SendsApart, InFlight

(* A build that is gone stays gone, and one without a row only appears. *)
LEMMA BuildMoves ==
    ASSUME status \in [Builds -> RowStates], NEW b \in Builds, NEW s, MoveBuild(b, s)
    PROVE  /\ status' \in [Builds -> RowStates]
           /\ status'[b] = s /\ s \in RowStates \ {"absent"} /\ status[b] # "deleted"
           /\ \A c \in Builds \ {b} : status'[c] = status[c]
           /\ s = "deleted" => status[b] \in Terminal
           /\ status[b] = "absent" => s = "queued"
           /\ status[b] # "absent" /\ s # "deleted" => Later(status[b], s)
           /\ status[b] = "expired" => s = "deleted"
<1>1. s \in Moves(status[b]) /\ status' = [status EXCEPT ![b] = s] /\ status[b] \in RowStates
  BY DEF MoveBuild
<1>2. /\ s \in RowStates \ {"absent"} /\ status[b] # "deleted"
      /\ s = "deleted" => status[b] \in Terminal
      /\ status[b] = "absent" => s = "queued"
      /\ status[b] = "expired" => s = "deleted"
  BY <1>1 DEF Moves, ValidTransitions, RowStates, BuildStatuses, Terminal
<1>3. status[b] # "absent" /\ s # "deleted" => Later(status[b], s)
  BY <1>1 DEF Moves, ValidTransitions, RowStates, BuildStatuses, Terminal, Later, Rank, Phase
<1> QED  BY <1>1, <1>2, <1>3

(* A transaction of the builds table: a deleted build takes its deliveries. *)
LEMMA BuildStepNotifies ==
    ASSUME slice \in Slices, NotifyShape, TellOK, SendOK, NEW b \in slice.builds, BuildStep(b)
    PROVE  NotifyShape' /\ TellOK' /\ SendOK'
<1>0. b \in Builds
  BY SlicesAssumption
<1>1. PICK s \in slice.statuses :
        /\ MoveBuild(b, s)
        /\ IF s = "deleted" THEN DropDeliveries(b) ELSE UNCHANGED <<notified, outbox>>
        /\ UNCHANGED <<scan, attempt>>
  BY DEF BuildStep
<1>2. /\ status' \in [Builds -> RowStates] /\ status'[b] = s /\ status[b] # "deleted"
      /\ \A c \in Builds \ {b} : status'[c] = status[c]
  BY <1>0, <1>1, BuildMoves DEF NotifyShape
<1>3. CASE s = "deleted"
  <2>1. /\ notified' = [notified EXCEPT ![b] = "none"]
        /\ outbox' = [k \in Keys |-> IF BuildOf(k) = b THEN NoRow ELSE outbox[k]]
    BY <1>1, <1>3 DEF DropDeliveries
  <2>2. NotifyShape'
    BY <1>1, <1>2, <2>1, NoRowShape DEF NotifyShape
  <2>3. ASSUME NEW k \in Keys
        PROVE  /\ outbox'[k].state # "absent" => outbox[k].state # "absent"
               /\ outbox'[k].due => outbox[k].due
               /\ NoCopy(k)
               /\ \A t \in Starters : InFlight(<<k, t>>)' => InFlight(<<k, t>>)
               /\ notified'[k[1]] = notified[k[1]] \/ /\ outbox'[k] = NoRow
                                                      /\ status'[k[1]] = "deleted"
               /\ status[k[1]] = "deleted" => status'[k[1]] = "deleted"
    <3>1. k[1] \in Builds
      BY KeyParts
    <3>2. /\ outbox'[k].state # "absent" => outbox[k].state # "absent"
          /\ outbox'[k].due => outbox[k].due
          /\ NoCopy(k)
      BY <2>1, NoRowShape DEF NoCopy
    <3>3. /\ notified'[k[1]] = notified[k[1]] \/ /\ outbox'[k] = NoRow
                                                 /\ status'[k[1]] = "deleted"
          /\ status[k[1]] = "deleted" => status'[k[1]] = "deleted"
      BY <1>2, <1>3, <2>1, <3>1 DEF BuildOf, NotifyShape
    <3>4. \A t \in Starters : InFlight(<<k, t>>)' => InFlight(<<k, t>>)
      BY <1>1 DEF InFlight
    <3> QED  BY <3>2, <3>3, <3>4
  <2>4. scan'.rows \subseteq scan.rows
    BY <1>1
  <2>5. \A c \in Builds : notified'[c] = notified[c] \/ notified'[c] = "none"
    BY <2>1 DEF NotifyShape
  <2>6. Quieter
    BY <2>2, <2>3, <2>4, <2>5 DEF Quieter
  <2> QED  BY <2>6, QuieterKeeps
<1>4. CASE s # "deleted"
  <2>1. UNCHANGED <<notified, outbox, scan, attempt>>
    BY <1>1, <1>4
  <2>2. NotifyShape'
    BY <1>2, <2>1 DEF NotifyShape
  <2>3. \A k \in Keys : status[k[1]] = "deleted" => status'[k[1]] = "deleted"
    BY <1>2, KeyParts
  <2>4. Quieter
    BY <2>1, <2>2, <2>3 DEF Quieter, NoCopy, InFlight
  <2> QED  BY <2>4, QuieterKeeps
<1> QED  BY <1>3, <1>4

(* The scan selects: what is news is news now, one row per build. *)
LEMMA SelectNotifies ==
    ASSUME NotifyShape, TellOK, SendOK, SelectEnded
    PROVE  NotifyShape' /\ TellOK' /\ SendOK'
<1> DEFINE ended == {b \in Builds : status[b] \in Terminal /\ notified[b] # status[b]}
           rows == {[b |-> b, s |-> status[b], news |-> IsNews(b)] : b \in ended}
<1>1. /\ scan' = [IdleScan EXCEPT !.on = TRUE, !.rows = rows]
      /\ UNCHANGED <<status, notified, outbox, attempt>>
  BY DEF SelectEnded, buildVars
<1>2. ASSUME NEW r \in rows
      PROVE  /\ r \in ScanRows
             /\ r.news => notified[r.b] \notin Terminal
  <2>1. PICK b \in ended : r = [b |-> b, s |-> status[b], news |-> IsNews(b)]
    OBVIOUS
  <2>2. ASSUME NEW e \in BOOLEAN
        PROVE  LET q == [b |-> b, s |-> status[b], news |-> e]
               IN  q \in ScanRows /\ q.news = e /\ q.b = b
    BY <2>1 DEF ScanRows
  <2>3. IsNews(b) \in BOOLEAN
    BY DEF IsNews
  <2>4. r \in ScanRows /\ r.news = IsNews(b) /\ r.b = b
    BY <2>1, <2>2, <2>3, Zenon
  <2> QED  BY <2>4 DEF IsNews
<1>3. ASSUME NEW r \in rows, NEW q \in rows, r.b = q.b PROVE r = q
  <2>1. PICK b \in ended : r = [b |-> b, s |-> status[b], news |-> IsNews(b)]
    OBVIOUS
  <2>2. PICK c \in ended : q = [b |-> c, s |-> status[c], news |-> IsNews(c)]
    OBVIOUS
  <2>3. r.b = b /\ q.b = c
    BY <2>1, <2>2
  <2>4. b = c
    BY <1>3, <2>3
  <2> QED  BY <2>1, <2>2, <2>4, Zenon
<1> HIDE DEF rows
<1>4. scan' \in Scans /\ scan'.rows = rows
  <2>1. rows \subseteq ScanRows
    BY <1>2
  <2>2. ASSUME NEW e \in BOOLEAN
        PROVE  LET q == [IdleScan EXCEPT !.on = e, !.rows = rows]
               IN  q \in Scans /\ q.rows = rows
    BY <2>1, IdleScanShape DEF Scans
  <2> QED  BY <1>1, <2>2, Zenon
<1>5. NotifyShape'
  BY <1>1, <1>4 DEF NotifyShape
<1>6. TellOK'
  BY <1>1, <1>2, <1>3, <1>4 DEF TellOK, ToldOneEnd
<1>7. SendOK'
  BY <1>1 DEF SendOK, SendsApart, InFlight
<1> QED  BY <1>5, <1>6, <1>7

(* A row of the scan: deliveries are recorded only for a build nobody was   *)
(* told of, and then no attempt is under way at any of them.                *)
LEMMA RecordNotifies ==
    ASSUME NotifyShape, TellOK, SendOK, NotifyBuild
    PROVE  NotifyShape' /\ TellOK' /\ SendOK'
<1>1. PICK row \in scan.rows :
        LET marked == status[row.b] = row.s
            K == {k \in Keys : /\ marked /\ row.news /\ k[1] = row.b /\ k[3] = row.s
                               /\ ChannelOf(k) \in enabled /\ row.s \in Wants[ChannelOf(k)]}
        IN  /\ notified' = IF marked THEN [notified EXCEPT ![row.b] = row.s] ELSE notified
            /\ outbox' = [k \in Keys |-> IF k \in K
                            THEN [state |-> "pending", tries |-> 0, due |-> TRUE,
                                  copies |-> outbox[k].copies + 1]
                            ELSE outbox[k]]
            /\ scan' = [scan EXCEPT !.rows = @ \ {row}, !.fresh = @ \cup K]
            /\ UNCHANGED <<status, attempt>>
  BY DEF NotifyBuild, buildVars
<1> DEFINE marked == status[row.b] = row.s
           K == {k \in Keys : /\ marked /\ row.news /\ k[1] = row.b /\ k[3] = row.s
                              /\ ChannelOf(k) \in enabled /\ row.s \in Wants[ChannelOf(k)]}
           fresh(k) == [state |-> "pending", tries |-> 0, due |-> TRUE,
                        copies |-> outbox[k].copies + 1]
<1>2. row \in ScanRows /\ row.b \in Builds /\ row.s \in Terminal
  BY <1>1 DEF NotifyShape, Scans, ScanRows
<1>3. K \subseteq Keys /\ \A k \in K : marked /\ row.news /\ k[1] = row.b /\ k[3] = row.s
  OBVIOUS
<1>4. /\ notified' = IF marked THEN [notified EXCEPT ![row.b] = row.s] ELSE notified
      /\ outbox' = [k \in Keys |-> IF k \in K THEN fresh(k) ELSE outbox[k]]
      /\ scan' = [scan EXCEPT !.rows = @ \ {row}, !.fresh = @ \cup K]
      /\ UNCHANGED <<status, attempt>>
  BY <1>1
<1> HIDE DEF K
<1>5. ASSUME NEW k \in Keys
      PROVE  /\ fresh(k) \in OutboxRows /\ fresh(k).state = "pending"
             /\ fresh(k).copies = outbox[k].copies + 1
  <2>1. ASSUME NEW e \in BOOLEAN, NEW n \in Nat
        PROVE  LET q == [state |-> "pending", tries |-> 0, due |-> e, copies |-> n]
               IN  q \in OutboxRows /\ q.state = "pending" /\ q.copies = n
    BY DEF OutboxRows
  <2>2. outbox[k].copies + 1 \in Nat
    BY DEF NotifyShape, OutboxRows
  <2> QED  BY <2>1, <2>2, Zenon
<1> HIDE DEF fresh
<1>6. scan' \in Scans /\ scan'.rows = scan.rows \ {row}
  BY <1>3, <1>4 DEF NotifyShape, Scans
<1>7. notified' \in [Builds -> BuildStatuses \cup {"none"}]
  BY <1>2, <1>4 DEF NotifyShape, Terminal, BuildStatuses
<1>8. NotifyShape'
  BY <1>4, <1>5, <1>6, <1>7 DEF NotifyShape
<1>9. \A b \in Builds : \/ notified'[b] = notified[b]
                        \/ b = row.b /\ marked /\ notified'[b] = row.s
  BY <1>4 DEF NotifyShape
<1>10. K # {} => marked /\ notified'[row.b] = row.s /\ notified[row.b] \notin Terminal
  BY <1>2, <1>3, <1>4, <1>1 DEF TellOK, NotifyShape
<1>11. \A k \in Keys : k \in K => \A l \in Keys : l[1] = k[1] => outbox[l].state = "absent"
  BY <1>3, <1>10 DEF TellOK
<1>12. TellOK'
  <2>1. ASSUME NEW k \in Keys, outbox'[k].state # "absent" PROVE notified'[k[1]] \in Terminal
    <3>1. CASE k \in K
      BY <1>2, <1>3, <1>10, <3>1
    <3>2. CASE k \notin K
      <4>1. notified[k[1]] \in Terminal /\ k[1] \in Builds
        BY <1>4, <2>1, <3>2, KeyParts DEF TellOK
      <4> QED  BY <1>2, <1>9, <4>1
    <3> QED  BY <3>1, <3>2
  <2>2. ASSUME NEW r \in scan'.rows, r.news PROVE notified'[r.b] \notin Terminal
    <3>1. r \in scan.rows /\ r # row /\ r.b \in Builds
      BY <1>6 DEF NotifyShape, Scans, ScanRows
    <3>2. r.b # row.b
      BY <1>1, <3>1 DEF TellOK
    <3>3. notified'[r.b] = notified[r.b]
      BY <1>9, <3>1, <3>2
    <3> QED  BY <2>2, <3>1, <3>3 DEF TellOK
  <2>3. \A r, q \in scan'.rows : r.b = q.b => r = q
    BY <1>6 DEF TellOK
  <2>4. ASSUME NEW k \in Keys, NEW l \in Keys, outbox'[k].state # "absent",
               outbox'[l].state # "absent", k[1] = l[1], k[2] = l[2]
        PROVE  k = l
    <3>1. CASE k \in K /\ l \in K
      BY <1>3, <2>4, <3>1, KeyParts
    <3>2. CASE k \notin K /\ l \notin K
      BY <1>4, <2>4, <3>2 DEF TellOK, ToldOneEnd
    <3>3. CASE k \in K /\ l \notin K
      BY <1>4, <1>11, <2>4, <3>3
    <3>4. CASE k \notin K /\ l \in K
      BY <1>4, <1>11, <2>4, <3>4
    <3> QED  BY <3>1, <3>2, <3>3, <3>4
  <2>5. ASSUME NEW k \in Keys
        PROVE  /\ outbox'[k].copies <= 1
               /\ outbox'[k].state = "absent" => outbox'[k].copies = 0
    <3>1. CASE k \in K
      <4>1. outbox[k].copies = 0
        BY <1>11, <3>1 DEF TellOK
      <4>2. outbox'[k] = fresh(k)
        BY <1>4, <3>1
      <4> QED  BY <1>5, <4>1, <4>2
    <3>2. CASE k \notin K
      BY <1>4, <3>2 DEF TellOK, ToldOneEnd
    <3> QED  BY <3>1, <3>2
  <2> QED  BY <2>1, <2>2, <2>3, <2>4, <2>5 DEF TellOK, ToldOneEnd
<1>13. SendOK'
  <2>1. ASSUME NEW k \in Keys, NEW t \in Starters, InFlight(<<k, t>>)'
        PROVE  /\ notified'[k[1]] \in Terminal \/ status'[k[1]] = "deleted"
               /\ ChannelOf(k) \notin Slow => ~outbox'[k].due
    <3>1. InFlight(<<k, t>>)
      BY <1>4, <2>1 DEF InFlight
    <3>2. k[1] \in Builds /\ (notified[k[1]] \in Terminal \/ status[k[1]] = "deleted")
      BY <3>1, KeyParts DEF SendOK
    <3>3. k \notin K
      <4>1. ASSUME k \in K PROVE FALSE
        <5>1. k[1] = row.b /\ status[row.b] = row.s /\ notified[row.b] \notin Terminal
          BY <1>3, <1>10, <4>1
        <5> QED  BY <1>2, <3>2, <5>1 DEF Terminal
      <4> QED  BY <4>1
    <3>4. ChannelOf(k) \notin Slow => ~outbox'[k].due
      BY <1>4, <3>1, <3>3 DEF SendOK
    <3>5. notified'[k[1]] \in Terminal \/ status'[k[1]] = "deleted"
      BY <1>2, <1>4, <1>9, <3>2
    <3> QED  BY <3>4, <3>5
  <2>2. SendsApart'
    BY <1>4 DEF SendOK, SendsApart, InFlight
  <2> QED  BY <2>1, <2>2 DEF SendOK
<1> QED  BY <1>8, <1>12, <1>13

(* The delivery claimed was due, so nobody is at it; the claim keeps the    *)
(* others out.                                                              *)
LEMMA ClaimNotifies ==
    ASSUME NotifyShape, TellOK, SendOK, NEW a \in Keys \X Starters, ClaimDelivery(a)
    PROVE  NotifyShape' /\ TellOK' /\ SendOK'
<1>1. PICK k \in Keys, u \in Starters : a = <<k, u>>
  OBVIOUS
<1>2. a[1] = k
  BY <1>1
<1>3. CASE outbox[k].state = "pending" /\ outbox[k].due
  <2> DEFINE r == [outbox[k] EXCEPT !.tries = @ + 1, !.due = FALSE]
             m == [pc |-> "channel", nth |-> outbox[k].tries + 1]
  <2>1. /\ outbox' = [outbox EXCEPT ![k] = r] /\ attempt' = [attempt EXCEPT ![a] = m]
        /\ UNCHANGED <<status, notified, scan>>
    BY <1>2, <1>3 DEF ClaimDelivery, Leased, buildVars
  <2>2. outbox[k] \in OutboxRows
    BY DEF NotifyShape
  <2>3. r \in OutboxRows /\ r.state = "pending" /\ ~r.due /\ r.copies = outbox[k].copies
    <3>1. outbox[k].tries + 1 \in Nat
      BY <2>2 DEF OutboxRows
    <3>2. ASSUME NEW e \in BOOLEAN, NEW n \in Nat
          PROVE  LET q == [outbox[k] EXCEPT !.tries = n, !.due = e]
                 IN  /\ q \in OutboxRows /\ q.state = outbox[k].state /\ q.due = e
                     /\ q.copies = outbox[k].copies
      BY <2>2 DEF OutboxRows
    <3>3. r = [outbox[k] EXCEPT !.tries = outbox[k].tries + 1, !.due = FALSE]
      OBVIOUS
    <3>4. /\ r \in OutboxRows /\ r.state = outbox[k].state /\ r.due = FALSE
          /\ r.copies = outbox[k].copies
      BY <3>1, <3>2, <3>3, Zenon
    <3> QED  BY <1>3, <3>4
  <2>4. m \in Attempts
    BY <2>2 DEF OutboxRows, Attempts
  <2> HIDE DEF r, m
  <2>5. NotifyShape'
    BY <2>1, <2>3, <2>4 DEF NotifyShape
  <2>6. \A l \in Keys : /\ outbox'[l].state # "absent" <=> outbox[l].state # "absent"
                        /\ outbox'[l].due => outbox[l].due
                        /\ l = k => ~outbox'[l].due
                        /\ outbox'[l].copies = outbox[l].copies
    BY <1>3, <2>1, <2>3 DEF NotifyShape
  <2>7. TellOK'
    BY <2>1, <2>6 DEF TellOK, ToldOneEnd
  <2>8. \A l \in Keys, t \in Starters : InFlight(<<l, t>>)' => InFlight(<<l, t>>) \/ l = k
    BY <1>1, <2>1 DEF InFlight, NotifyShape
  <2>9. ASSUME NEW l \in Keys, NEW t \in Starters, InFlight(<<l, t>>)'
        PROVE  /\ notified'[l[1]] \in Terminal \/ status'[l[1]] = "deleted"
               /\ ChannelOf(l) \notin Slow => ~outbox'[l].due
    <3>1. CASE l = k
      BY <1>3, <2>1, <2>6, <3>1 DEF TellOK
    <3>2. CASE l # k
      BY <2>1, <2>6, <2>8, <2>9, <3>2 DEF SendOK
    <3> QED  BY <3>1, <3>2
  <2>10. SendsApart'
    <3> SUFFICES ASSUME NEW l \in Keys, ChannelOf(l) \notin Slow
                 PROVE  ~(InFlight(<<l, "scan">>)' /\ InFlight(<<l, "retry">>)')
      BY DEF SendsApart
    <3>1. CASE l = k
      <4>1. \A t \in Starters : ~InFlight(<<k, t>>)
        BY <1>3, <3>1 DEF SendOK
      <4>2. \A t \in Starters : t # u => attempt'[<<k, t>>] = attempt[<<k, t>>]
        BY <1>1, <2>1 DEF NotifyShape
      <4>3. \A t \in Starters : t # u => ~InFlight(<<k, t>>)'
        BY <4>1, <4>2 DEF InFlight
      <4> QED  BY <1>1, <3>1, <4>3 DEF Starters
    <3>2. CASE l # k
      BY <2>8, <3>2 DEF SendOK, SendsApart, Starters
    <3> QED  BY <3>1, <3>2
  <2>11. SendOK'
    BY <2>9, <2>10 DEF SendOK
  <2> QED  BY <2>5, <2>7, <2>11
<1>4. CASE ~(outbox[k].state = "pending" /\ outbox[k].due)
  <2>1. attempt' = [attempt EXCEPT ![a] = NoAttempt] /\ UNCHANGED <<outbox, status, notified, scan>>
    BY <1>2, <1>4 DEF ClaimDelivery, buildVars
  <2>2. NotifyShape'
    BY <2>1, IdleAttempts DEF NotifyShape
  <2>3. \A l \in Keys, t \in Starters : InFlight(<<l, t>>)' => InFlight(<<l, t>>)
    BY <2>1, IdleAttempts DEF InFlight, NotifyShape
  <2>4. Quieter
    BY <2>1, <2>2, <2>3 DEF Quieter, NoCopy
  <2> QED  BY <2>4, QuieterKeeps
<1> QED  BY <1>3, <1>4

(* One attempt goes on or ends, and its delivery is not made due. *)
LEMMA AttemptGoesOn ==
    ASSUME NotifyShape, TellOK, SendOK, NEW a \in Keys \X Starters, NEW m \in Attempts,
           attempt' = [attempt EXCEPT ![a] = m],
           m.pc \notin {"idle", "claim"} => InFlight(a),
           UNCHANGED <<status, notified, scan>>,
           outbox' \in [Keys -> OutboxRows],
           \A k \in Keys : /\ outbox'[k].state # "absent" => outbox[k].state # "absent"
                           /\ outbox'[k].due => outbox[k].due
                           /\ NoCopy(k)
    PROVE  NotifyShape' /\ TellOK' /\ SendOK'
<1>1. NotifyShape'
  BY DEF NotifyShape
<1>2. \A l \in Keys, t \in Starters : InFlight(<<l, t>>)' => InFlight(<<l, t>>)
  BY DEF InFlight, NotifyShape
<1>3. Quieter
  BY <1>1, <1>2 DEF Quieter
<1> QED  BY <1>3, QuieterKeeps

(* A pc alone changes. *)
LEMMA AttemptPc ==
    ASSUME NEW r \in Attempts, NEW w \in {"idle", "claim", "channel", "send", "ok", "error", "off"}
    PROVE  [r EXCEPT !.pc = w] \in Attempts /\ [r EXCEPT !.pc = w].pc = w
BY DEF Attempts

(* The steps of an attempt after its claim. *)
LEMMA AttemptNotifies ==
    ASSUME NotifyShape, TellOK, SendOK, NEW a \in Keys \X Starters,
           LoadChannel(a) \/ Send(a) \/ RecordResult(a) \/ AttemptFails(a)
    PROVE  NotifyShape' /\ TellOK' /\ SendOK'
<1>0. attempt[a] \in Attempts /\ outbox \in [Keys -> OutboxRows] /\ a[1] \in Keys
  BY DEF NotifyShape
<1>1. CASE LoadChannel(a)
  <2> DEFINE w == IF ChannelOf(a[1]) \in enabled THEN "send" ELSE "off"
             m == [attempt[a] EXCEPT !.pc = w]
  <2>1. attempt' = [attempt EXCEPT ![a] = m] /\ UNCHANGED <<status, notified, scan, outbox>>
    BY <1>1 DEF LoadChannel, buildVars
  <2>2. m \in Attempts
    BY <1>0, AttemptPc
  <2>3. InFlight(a)
    BY <1>1 DEF LoadChannel, InFlight
  <2> HIDE DEF m
  <2> QED  BY <1>0, <2>1, <2>2, <2>3, AttemptGoesOn DEF NoCopy
<1>2. CASE Send(a)
  <2>1. PICK w \in {"ok", "error"} : attempt' = [attempt EXCEPT ![a] = [attempt[a] EXCEPT !.pc = w]]
    BY <1>2 DEF Send
  <2> DEFINE m == [attempt[a] EXCEPT !.pc = w]
  <2>2. attempt' = [attempt EXCEPT ![a] = m] /\ UNCHANGED <<status, notified, scan, outbox>>
    BY <1>2, <2>1 DEF Send, buildVars
  <2>3. m \in Attempts
    BY <1>0, <2>1, AttemptPc
  <2>4. InFlight(a)
    BY <1>2 DEF Send, InFlight
  <2> HIDE DEF m
  <2> QED  BY <1>0, <2>2, <2>3, <2>4, AttemptGoesOn DEF NoCopy
<1>3. CASE RecordResult(a)
  <2> DEFINE k == a[1]
             w == IF attempt[a].pc = "ok" THEN "delivered"
                  ELSE IF Retries(a) THEN "pending" ELSE "failed"
             r == [outbox[k] EXCEPT !.state = w, !.due = FALSE]
  <2>1. /\ attempt' = [attempt EXCEPT ![a] = NoAttempt] /\ UNCHANGED <<status, notified, scan>>
        /\ outbox' = IF outbox[k].state = "absent" THEN outbox ELSE [outbox EXCEPT ![k] = r]
    BY <1>3 DEF RecordResult, buildVars
  <2>2. r \in OutboxRows /\ ~r.due /\ r.copies = outbox[k].copies /\ r.state # "absent"
    <3>1. outbox[k] \in OutboxRows /\ w \in {"delivered", "pending", "failed"}
      BY <1>0
    <3> HIDE DEF w
    <3>2. ASSUME NEW e \in BOOLEAN
          PROVE  LET q == [outbox[k] EXCEPT !.state = w, !.due = e]
                 IN  /\ q \in OutboxRows /\ q.due = e /\ q.copies = outbox[k].copies
                     /\ q.state # "absent"
      BY <3>1 DEF OutboxRows
    <3> QED  BY <3>2, Zenon
  <2> HIDE DEF r
  <2>3. outbox' \in [Keys -> OutboxRows]
    BY <1>0, <2>1, <2>2
  <2>4. \A l \in Keys : /\ outbox'[l].state # "absent" => outbox[l].state # "absent"
                        /\ outbox'[l].due => outbox[l].due
                        /\ NoCopy(l)
    BY <1>0, <2>1, <2>2 DEF NoCopy
  <2> QED  BY <2>1, <2>3, <2>4, IdleAttempts, AttemptGoesOn
<1>4. CASE AttemptFails(a)
  <2>1. attempt' = [attempt EXCEPT ![a] = NoAttempt] /\ UNCHANGED <<status, notified, scan, outbox>>
    BY <1>4 DEF AttemptFails
  <2> QED  BY <1>0, <2>1, IdleAttempts, AttemptGoesOn DEF NoCopy
<1> QED  BY <1>1, <1>2, <1>3, <1>4

(* Attempts that are started wait for their claim; attempts of a restart    *)
(* are gone.                                                                *)
LEMMA StartNotifies ==
    ASSUME NotifyShape, TellOK, SendOK, UNCHANGED <<status, notified, outbox>>,
           attempt' \in [Keys \X Starters -> Attempts],
           \A x \in Keys \X Starters :
                attempt'[x] = attempt[x] \/ attempt'[x].pc \in {"idle", "claim"},
           scan' = scan \/ scan' = IdleScan
    PROVE  NotifyShape' /\ TellOK' /\ SendOK'
<1>1. scan' \in Scans /\ scan'.rows \subseteq scan.rows
  BY IdleScanShape DEF NotifyShape
<1>2. NotifyShape'
  BY <1>1 DEF NotifyShape
<1>3. \A l \in Keys, t \in Starters : InFlight(<<l, t>>)' => InFlight(<<l, t>>)
  BY DEF InFlight, NotifyShape
<1>4. Quieter
  BY <1>1, <1>2, <1>3 DEF Quieter, NoCopy
<1> QED  BY <1>4, QuieterKeeps

(* Steps of the notifications. *)
LEMMA NotifyNotifies ==
    ASSUME NotifyShape, TellOK, SendOK, NotifyStep
    PROVE  NotifyShape' /\ TellOK' /\ SendOK'
<1> DEFINE started(A) == [x \in Keys \X Starters |->
                            IF x \in A THEN [NoAttempt EXCEPT !.pc = "claim"] ELSE attempt[x]]
<1>s. ASSUME NEW A, attempt' = started(A)
      PROVE  /\ attempt' \in [Keys \X Starters -> Attempts]
             /\ \A x \in Keys \X Starters :
                    attempt'[x] = attempt[x] \/ attempt'[x].pc \in {"idle", "claim"}
  BY <1>s, IdleAttempts DEF NotifyShape
<1>1. CASE SelectEnded
  BY <1>1, SelectNotifies
<1>2. CASE NotifyBuild
  BY <1>2, RecordNotifies
<1>3. CASE SpawnDeliver
  <2> DEFINE A == {x \in Keys \X Starters : x[1] \in scan.fresh /\ x[2] = "scan"}
  <2>1. attempt' = started(A) /\ scan' = IdleScan /\ UNCHANGED <<status, notified, outbox>>
    BY <1>3 DEF SpawnDeliver, buildVars
  <2> HIDE DEF A, started
  <2> QED  BY <1>s, <2>1, StartNotifies
<1>4. CASE ScanFails
  <2>1. scan' = IdleScan /\ UNCHANGED <<status, notified, outbox, attempt>>
    BY <1>4 DEF ScanFails
  <2>2. attempt' \in [Keys \X Starters -> Attempts] /\ \A x \in Keys \X Starters : attempt'[x] = attempt[x]
    BY <2>1 DEF NotifyShape
  <2> QED  BY <2>1, <2>2, StartNotifies
<1>5. CASE RetryScan
  <2> DEFINE A == {x \in Keys \X Starters : x[1] \in DueDeliveries /\ x[2] = "retry"}
  <2>1. attempt' = started(A) /\ UNCHANGED <<status, notified, outbox, scan>>
    BY <1>5 DEF RetryScan, buildVars
  <2> HIDE DEF A, started
  <2> QED  BY <1>s, <2>1, StartNotifies
<1>6. ASSUME NEW a \in Keys \X Starters, AttemptStep(a) \/ AttemptFails(a)
      PROVE  NotifyShape' /\ TellOK' /\ SendOK'
  BY <1>6, ClaimNotifies, AttemptNotifies DEF AttemptStep
<1>7. ASSUME NEW k \in Keys, BecomeDue(k)
      PROVE  NotifyShape' /\ TellOK' /\ SendOK'
  <2> DEFINE r == [outbox[k] EXCEPT !.due = TRUE]
  <2>1. /\ outbox' = [outbox EXCEPT ![k] = r] /\ UNCHANGED <<status, notified, scan, attempt>>
        /\ outbox[k].state = "pending"
        /\ ChannelOf(k) \in Slow \/ \A t \in Starters : ~InFlight(<<k, t>>)
    BY <1>7 DEF BecomeDue, buildVars
  <2>2. r \in OutboxRows /\ r.state = outbox[k].state /\ r.copies = outbox[k].copies
    <3>1. outbox[k] \in OutboxRows
      BY DEF NotifyShape
    <3>2. ASSUME NEW e \in BOOLEAN
          PROVE  LET q == [outbox[k] EXCEPT !.due = e]
                 IN  /\ q \in OutboxRows /\ q.state = outbox[k].state
                     /\ q.copies = outbox[k].copies
      BY <3>1 DEF OutboxRows
    <3> QED  BY <3>2, Zenon
  <2> HIDE DEF r
  <2>3. NotifyShape'
    BY <2>1, <2>2 DEF NotifyShape
  <2>4. \A l \in Keys : /\ outbox'[l].state = outbox[l].state
                        /\ outbox'[l].copies = outbox[l].copies
                        /\ l # k => outbox'[l] = outbox[l]
    BY <2>1, <2>2 DEF NotifyShape
  <2>5. TellOK'
    BY <2>1, <2>4 DEF TellOK, ToldOneEnd
  <2>6. SendOK'
    BY <2>1, <2>4 DEF SendOK, SendsApart, InFlight
  <2> QED  BY <2>3, <2>5, <2>6
<1>8. ASSUME NEW c \in Channels, ToggleChannel(c)
      PROVE  NotifyShape' /\ TellOK' /\ SendOK'
  BY <1>8, NotifyUntouched DEF ToggleChannel, buildVars
<1>9. ASSUME NEW c \in Channels, DeleteChannel(c)
      PROVE  NotifyShape' /\ TellOK' /\ SendOK'
  <2>1. /\ outbox' = [k \in Keys |-> IF ChannelOf(k) = c THEN NoRow ELSE outbox[k]]
        /\ UNCHANGED <<status, notified, scan, attempt>>
    BY <1>9 DEF DeleteChannel, buildVars
  <2>2. NotifyShape'
    BY <2>1, NoRowShape DEF NotifyShape
  <2>3. \A k \in Keys : /\ outbox'[k].state # "absent" => outbox[k].state # "absent"
                        /\ outbox'[k].due => outbox[k].due
                        /\ NoCopy(k)
    BY <2>1, NoRowShape DEF NoCopy
  <2>4. \A l \in Keys, t \in Starters : InFlight(<<l, t>>)' => InFlight(<<l, t>>)
    BY <2>1 DEF InFlight
  <2>5. Quieter
    BY <2>1, <2>2, <2>3, <2>4 DEF Quieter
  <2> QED  BY <2>5, QuieterKeeps
<1> QED  BY <1>1, <1>2, <1>3, <1>4, <1>5, <1>6, <1>7, <1>8, <1>9 DEF NotifyStep

-----------------------------------------------------------------------------
(* Commit checks. *)

(* Statuses as the source shows them move one way. *)
LEMMA LaterFacts ==
    /\ \A s \in BuildStatuses : Later(s, s)
    /\ \A s, t, u \in BuildStatuses : Later(s, t) /\ Later(t, u) => Later(s, u)
    /\ \A s, t \in BuildStatuses : Later(s, t) /\ Later(t, s) => Phase(s) = Phase(t)
    /\ \A s, t \in BuildStatuses : Phase(s) = Phase(t) => Shown(s) = Shown(t) /\ Rank(s) = Rank(t)
<1>1. \A s \in BuildStatuses : Rank(s) \in 0..3
  BY DEF Rank
<1>2. \A s, t \in BuildStatuses : Phase(s) = Phase(t) => Shown(s) = Shown(t) /\ Rank(s) = Rank(t)
  BY DEF BuildStatuses, Phase, Rank, Shown
<1>3. \A s, t, u \in BuildStatuses : Later(s, t) /\ Later(t, u) => Later(s, u)
  BY <1>1, <1>2 DEF Later
<1>4. \A s, t \in BuildStatuses : Later(s, t) /\ Later(t, s) => Phase(s) = Phase(t)
  BY <1>1, <1>2 DEF Later
<1>5. \A s \in BuildStatuses : Later(s, s)
  BY DEF Later
<1> QED  BY <1>2, <1>3, <1>4, <1>5

(* The reporter at rest, with rows left to do or not. *)
LEMMA RestingPass ==
    ASSUME NEW w \in {"idle", "next"}, NEW R \in SUBSET PassRows
    PROVE  /\ IdlePass \in Passes /\ IdlePass.pc = "idle" /\ IdlePass.rows = {}
           /\ LET n == [IdlePass EXCEPT !.pc = w, !.rows = R]
              IN  n \in Passes /\ n.pc = w /\ n.rows = R
           /\ LET n == [IdlePass EXCEPT !.rows = R, !.pc = w]
              IN  n \in Passes /\ n.pc = w /\ n.rows = R
<1>1. IdlePass \in Passes /\ IdlePass.pc = "idle" /\ IdlePass.rows = {}
  BY DEF IdlePass, Passes
<1>2. LET n == [IdlePass EXCEPT !.pc = w, !.rows = R]
      IN  n \in Passes /\ n.pc = w /\ n.rows = R
  BY <1>1 DEF Passes
<1>3. LET n == [IdlePass EXCEPT !.rows = R, !.pc = w]
      IN  n \in Passes /\ n.pc = w /\ n.rows = R
  BY <1>1 DEF Passes
<1> QED  BY <1>1, <1>2, <1>3

(* What was told keeps its meaning while statuses, columns and checks stay. *)
LEMMA SameTable ==
    ASSUME UNCHANGED <<status, reported, failures, missed, owner, check>>
    PROVE  /\ OwnersOK => OwnersOK'
           /\ ShownOK => ShownOK'
           /\ \A r : RowOK(r) => RowOK(r)'
           /\ \A b : Counts(b)' <=> Counts(b)
           /\ \A p, b, t : Shows(p, b, t)' <=> Shows(p, b, t)
BY DEF OwnersOK, ShownOK, RowOK, Counts, Shows, There, Newest

(* A step that only puts the reporter at rest. *)
LEMMA PassRests ==
    ASSUME ChecksShape, RowsOK, ReportOK, ShownOK,
           UNCHANGED <<status, reported, failures, missed, owner, check>>,
           pass' \in Passes, pass'.pc \in {"idle", "next"},
           \A r \in pass'.rows : RowOK(r),
           \A r, q \in pass'.rows : r.b = q.b => r = q
    PROVE  ChecksShape' /\ RowsOK' /\ ReportOK' /\ ShownOK'
<1>1. ChecksShape'
  BY DEF ChecksShape
<1>2. RowsOK'
  <2>1. \A r \in pass'.rows : RowOK(r)'
    BY SameTable
  <2> QED  BY <2>1 DEF RowsOK, Working, There
<1>3. OwnersOK' /\ ShownOK'
  BY SameTable DEF ReportOK
<1>4. ReportOK'
  BY <1>3 DEF ReportOK, SeenOK, StageOK, SetOK, QuietOK, Working
<1> QED  BY <1>1, <1>2, <1>3, <1>4

(* Steps that leave reporter, columns, checks and statuses alone. *)
LEMMA ChecksUntouched ==
    ASSUME ChecksShape, RowsOK, ReportOK, ShownOK,
           UNCHANGED <<status, reported, failures, missed, owner, check, pass>>
    PROVE  ChecksShape' /\ RowsOK' /\ ReportOK' /\ ShownOK'
<1>1. ChecksShape'
  BY DEF ChecksShape
<1>2. RowsOK'
  BY SameTable DEF RowsOK, Working, There
<1>3. ReportOK' /\ ShownOK'
  BY SameTable DEF ReportOK, SeenOK, StageOK, SetOK, QuietOK, Working, There, NewerOwns
<1> QED  BY <1>1, <1>2, <1>3

(* A transaction of the builds table: statuses move on, and a deleted build *)
(* leaves its columns empty and its checks without an owner.                *)
LEMMA BuildStepChecks ==
    ASSUME slice \in Slices, ChecksShape, RowsOK, ReportOK, ShownOK,
           NEW b \in slice.builds, BuildStep(b)
    PROVE  ChecksShape' /\ RowsOK' /\ ReportOK' /\ ShownOK'
<1>0. b \in Builds
  BY SlicesAssumption
<1>1. PICK s \in slice.statuses :
        /\ MoveBuild(b, s)
        /\ IF s = "deleted" THEN DropReports(b) ELSE UNCHANGED <<columnVars, owner, missed>>
        /\ UNCHANGED <<check, pass>>
  BY DEF BuildStep
<1>2. /\ status' \in [Builds -> RowStates]
      /\ status'[b] = s /\ s \in RowStates \ {"absent"} /\ status[b] # "deleted"
      /\ \A c \in Builds \ {b} : status'[c] = status[c]
      /\ status[b] = "absent" => s = "queued"
      /\ status[b] # "absent" /\ s # "deleted" => Later(status[b], s)
      /\ status[b] = "expired" => s = "deleted"
  BY <1>0, <1>1, BuildMoves DEF ChecksShape
<1>3. /\ ChecksShape'
      /\ reported'[b] = IF s = "deleted" THEN "none" ELSE reported[b]
      /\ \A c \in Builds \ {b} : reported'[c] = reported[c] /\ (c \in missed' <=> c \in missed)
      /\ \A p \in 1..Platforms :
            owner'[p] = IF s = "deleted" /\ owner[p] = b THEN 0 ELSE owner[p]
      /\ s # "deleted" => missed' = missed
  <2>1. CASE s = "deleted"
    <3>1. /\ reported' = [reported EXCEPT ![b] = "none"]
          /\ failures' = [failures EXCEPT ![b] = 0]
          /\ missed' = missed \ {b}
          /\ owner' = [p \in 1..Platforms |-> IF owner[p] = b THEN 0 ELSE owner[p]]
      BY <1>1, <2>1 DEF DropReports
    <3>2. ChecksShape'
      BY <1>0, <1>1, <1>2, <3>1 DEF ChecksShape
    <3>3. reported'[b] = "none" /\ \A c \in Builds \ {b} : reported'[c] = reported[c]
      BY <1>0, <3>1 DEF ChecksShape
    <3> QED  BY <2>1, <3>1, <3>2, <3>3
  <2>2. CASE s # "deleted"
    BY <1>0, <1>1, <1>2, <2>2 DEF columnVars, ChecksShape
  <2> QED  BY <2>1, <2>2
<1>4. UNCHANGED <<check, pass>>
  BY <1>1
<1> HIDE DEF RowStates
<1>5. ASSUME NEW c \in Builds
      PROVE  /\ There(c) => status[c] \in BuildStatuses
             /\ There(c)' => status'[c] \in BuildStatuses
             /\ There(c)' /\ status[c] # "absent" => There(c) /\ Later(status[c], status'[c])
             /\ Newest(c)' => Newest(c)
             /\ status[c] # "absent" => status'[c] # "absent"
             /\ Counts(c)' /\ status[c] # "absent" => Counts(c)
             /\ Counts(c)' /\ c # b => s # "deleted"
  <2>1. status[c] \in RowStates /\ status'[c] \in RowStates
    BY <1>2 DEF ChecksShape
  <2>2. There(c)' /\ status[c] # "absent" => There(c) /\ Later(status[c], status'[c])
    BY <1>2, <2>1, LaterFacts DEF There, RowStates, BuildStatuses
  <2>3. Newest(c)' => Newest(c)
    <3> SUFFICES ASSUME Newest(c)', NEW d \in Builds \ {c}
                 PROVE  status[d] = "absent" \/ (There(d) /\ CreatedAt[d] < CreatedAt[c])
      BY DEF Newest
    <3>1. status'[d] = "absent" \/ (There(d)' /\ CreatedAt[d] < CreatedAt[c])
      BY DEF Newest
    <3>2. status[d] \in RowStates /\ (status[d] # "absent" /\ There(d)' => There(d))
      BY <1>2, <3>1 DEF There, RowStates, ChecksShape
    <3>3. status[d] # "absent" => status'[d] # "absent"
      BY <1>2
    <3> QED  BY <3>1, <3>2, <3>3
  <2>4. status[c] # "absent" => status'[c] # "absent"
    BY <1>2
  <2>5. Counts(c)' /\ status[c] # "absent" => Counts(c)
    <3> SUFFICES ASSUME Counts(c)', status[c] # "absent" PROVE status[c] # "expired"
      BY <2>2, <2>3 DEF Counts
    <3>1. status'[c] \in BuildStatuses /\ status'[c] # "expired"
      BY DEF Counts, There
    <3>2. status'[c] # "deleted"
      BY <3>1 DEF BuildStatuses
    <3> QED  BY <1>2, <3>1, <3>2
  <2>6. Counts(c)' /\ c # b => s # "deleted"
    BY <1>0, <1>2 DEF Counts, Newest, There, BuildStatuses
  <2> QED  BY <2>2, <2>3, <2>4, <2>5, <2>6 DEF There
<1>6. ASSUME NEW r \in PassRows, RowOK(r) PROVE RowOK(r)'
  <2>1. r.b \in Builds /\ status[r.b] # "absent" /\ status'[r.b] # "absent"
        /\ r.s \in BuildStatuses
    BY <1>5, <1>6 DEF RowOK, PassRows
  <2>2. ASSUME There(r.b)'
        PROVE  r.was = reported'[r.b] /\ (r.was # "none" => Later(r.was, r.s))
               /\ Later(r.s, status'[r.b])
    <3>1. There(r.b) /\ Later(status[r.b], status'[r.b])
      BY <1>5, <2>1, <2>2
    <3>2. status[r.b] \in BuildStatuses /\ status'[r.b] \in BuildStatuses
      BY <2>2, <3>1 DEF There
    <3>3. reported'[r.b] = reported[r.b]
      BY <1>2, <1>3, <2>1, <2>2 DEF There, BuildStatuses
    <3> QED  BY <1>6, <2>1, <3>1, <3>2, <3>3, LaterFacts DEF RowOK
  <2> QED  BY <2>1, <2>2 DEF RowOK
<1>7. RowsOK'
  <2>1. ASSUME NEW c \in Builds
        PROVE  /\ status'[c] = "absent" => reported'[c] = "none"
               /\ There(c)' /\ reported'[c] # "none" => Later(reported'[c], status'[c])
    <3>1. status'[c] = "absent" => reported'[c] = "none"
      BY <1>2, <1>3, <1>5 DEF RowsOK
    <3>2. ASSUME There(c)', reported'[c] # "none" PROVE Later(reported'[c], status'[c])
      <4>1. reported'[c] = reported[c] /\ status[c] # "absent"
        BY <1>2, <1>3, <3>2 DEF RowsOK
      <4>2. There(c) /\ Later(status[c], status'[c]) /\ Later(reported[c], status[c])
        BY <1>5, <3>2, <4>1 DEF RowsOK
      <4>3. reported[c] \in BuildStatuses /\ status[c] \in BuildStatuses
            /\ status'[c] \in BuildStatuses
        BY <1>5, <3>2, <4>1, <4>2 DEF ChecksShape
      <4> QED  BY <4>1, <4>2, <4>3, LaterFacts
    <3> QED  BY <3>1, <3>2
  <2>2. pass.rows \subseteq PassRows
    BY DEF ChecksShape, Passes
  <2> QED  BY <1>4, <1>6, <2>1, <2>2 DEF RowsOK, Working
<1>8. ReportOK'
  <2>1. Working => pass.row.b \in Builds /\ status[pass.row.b] # "absent"
                    /\ pass.row.s \in BuildStatuses
    BY DEF RowsOK, RowOK, PassRows
  <2>2. OwnersOK'
    <3> SUFFICES ASSUME NEW p \in 1..Platforms, owner'[p] # 0
                 PROVE  status'[owner'[p]] \in BuildStatuses
      BY DEF OwnersOK, There
    <3>1. owner'[p] = owner[p] /\ owner[p] \in Builds /\ status[owner[p]] \in BuildStatuses
      BY <1>3 DEF ReportOK, OwnersOK, ChecksShape, There
    <3>2. CASE owner[p] = b
      BY <1>0, <1>2, <1>3, <3>1, <3>2 DEF RowStates
    <3>3. CASE owner[p] # b
      BY <1>2, <3>1, <3>3
    <3> QED  BY <3>2, <3>3
  <2>3. SeenOK'
    <3> SUFFICES ASSUME Working, pass.res \in {"told", "kept"}
                 PROVE  /\ pass.seen \in BuildStatuses
                        /\ There(pass.row.b)' => /\ Later(pass.row.s, pass.seen)
                                                 /\ Later(pass.seen, status'[pass.row.b])
      BY <1>4 DEF SeenOK, Working, There
    <3>1. pass.seen \in BuildStatuses
      BY DEF ReportOK, SeenOK
    <3>2. ASSUME There(pass.row.b)' PROVE Later(pass.row.s, pass.seen)
                                          /\ Later(pass.seen, status'[pass.row.b])
      <4>0. status'[pass.row.b] \in BuildStatuses
        BY <1>4, <3>2 DEF There
      <4>1. status[pass.row.b] \in BuildStatuses
            /\ Later(status[pass.row.b], status'[pass.row.b])
        BY <1>2, <2>1, <4>0, LaterFacts DEF ChecksShape, RowStates, BuildStatuses
      <4>2. Later(pass.row.s, pass.seen) /\ Later(pass.seen, status[pass.row.b])
        BY <4>1 DEF ReportOK, SeenOK, There
      <4> QED  BY <3>1, <4>0, <4>1, <4>2, LaterFacts
    <3> QED  BY <3>1, <3>2
  <2>4. StageOK'
    <3>1. pass.pc = "record" => ~NewerOwns(pass.row.b, pass.at)'
      BY <1>3, <1>4 DEF ReportOK, StageOK, NewerOwns
    <3> QED  BY <1>4, <3>1 DEF ReportOK, StageOK, NewerOwns
  <2>c. ASSUME Working, NEW c \in Builds, c = pass.row.b, Counts(c)'
        PROVE  Counts(c) /\ \A p \in 1..Platforms : owner'[p] = owner[p]
    <3>1. Counts(c)
      BY <1>5, <2>1, <2>c
    <3>2. s # "deleted"
      BY <1>2, <1>5, <2>c DEF Counts, There, BuildStatuses
    <3> QED  BY <1>3, <3>1, <3>2
  <2>5. SetOK'
    <3> SUFFICES ASSUME Working, pass.res = "told", Counts(pass.row.b)',
                        NEW p \in 1..Platforms, p < pass.at
                 PROVE  Shows(p, pass.row.b, pass.seen)'
      BY <1>4 DEF SetOK, Working, Counts, There, Newest, Shows
    <3>0. \A c \in Builds : c = pass.row.b => Counts(c)'
      BY <1>4 DEF Counts, There, Newest
    <3>1. Counts(pass.row.b) /\ owner'[p] = owner[p]
      BY <2>1, <2>c, <3>0
    <3>2. Shows(p, pass.row.b, pass.seen)
      BY <3>1 DEF ReportOK, SetOK
    <3> QED  BY <1>4, <3>1, <3>2 DEF Shows
  <2>6. QuietOK'
    <3> SUFFICES ASSUME pass.pc = "finish", pass.res = "quiet", Counts(pass.row.b)'
                 PROVE  pass.row.was # "none" /\ Phase(pass.row.was) = Phase(pass.row.s)
      BY <1>4 DEF QuietOK, Counts, There, Newest
    <3>0. Working /\ \A c \in Builds : c = pass.row.b => Counts(c)'
      BY <1>4 DEF Working, Counts, There, Newest
    <3>1. Counts(pass.row.b)
      BY <2>1, <2>c, <3>0
    <3> QED  BY <3>1 DEF ReportOK, QuietOK
  <2> QED  BY <2>2, <2>3, <2>4, <2>5, <2>6 DEF ReportOK
<1>9. ShownOK'
  <2> SUFFICES ASSUME NEW c \in Builds, Counts(c)', c \notin missed', reported'[c] # "none",
                      NEW p \in 1..Platforms
               PROVE  \E t \in BuildStatuses : /\ Shows(p, c, t)'
                                               /\ Later(reported'[c], t) /\ Later(t, status'[c])
    BY <1>4 DEF ShownOK
  <2>1. s # "deleted"
    BY <1>2, <1>5 DEF Counts, There, BuildStatuses
  <2>2. /\ reported'[c] = reported[c] /\ c \notin missed /\ owner'[p] = owner[p]
    BY <1>3, <2>1
  <2>3. status[c] # "absent"
    BY <2>2 DEF RowsOK
  <2>4. Counts(c) /\ There(c) /\ There(c)' /\ Later(status[c], status'[c])
    BY <1>5, <2>3 DEF Counts
  <2>5. PICK t \in BuildStatuses : Shows(p, c, t) /\ Later(reported[c], t) /\ Later(t, status[c])
    BY <2>2, <2>4 DEF ShownOK
  <2>6. Later(t, status'[c])
    BY <2>4, <2>5, <1>5, LaterFacts
  <2>7. Shows(p, c, t)'
    BY <1>4, <2>2, <2>5 DEF Shows
  <2> QED  BY <2>2, <2>5, <2>6, <2>7
<1> QED  BY <1>3, <1>7, <1>8, <1>9

(* The selection reads every due build as it is. *)
LEMMA SelectChecks ==
    ASSUME ChecksShape, RowsOK, ReportOK, ShownOK, SelectDue
    PROVE  ChecksShape' /\ RowsOK' /\ ReportOK' /\ ShownOK'
<1> DEFINE due == {b \in Builds : There(b) /\ reported[b] # status[b] /\ b \notin backoff}
           row(b) == [b |-> b, s |-> status[b], was |-> reported[b], n |-> failures[b]]
           rows == {row(b) : b \in due}
<1>1. /\ pass' = [IdlePass EXCEPT !.pc = "next", !.rows = rows]
      /\ UNCHANGED <<status, reported, failures, missed, owner, check>>
  BY DEF SelectDue, buildVars, columnVars
<1>2. ASSUME NEW b \in due
      PROVE  row(b) \in PassRows /\ row(b).b = b /\ row(b).s = status[b] /\ row(b).was = reported[b]
  BY DEF PassRows, ChecksShape, There
<1>3. ASSUME NEW b \in due PROVE RowOK(row(b))
  <2>1. b \in Builds /\ status[b] \in BuildStatuses /\ status[b] # "absent"
    BY DEF There, BuildStatuses
  <2> HIDE DEF row
  <2> QED  BY <1>2, <2>1, LaterFacts DEF RowOK, RowsOK, There
<1>4. rows \in SUBSET PassRows
  BY <1>2
<1>5. \A r \in rows : RowOK(r)
  BY <1>3
<1>6. \A r, q \in rows : r.b = q.b => r = q
  BY <1>2
<1> HIDE DEF rows
<1>7. pass' \in Passes /\ pass'.pc = "next" /\ pass'.rows = rows
  BY <1>1, <1>4, RestingPass
<1> QED  BY <1>1, <1>5, <1>6, <1>7, PassRests

(* A report goes on while the table, the columns and the checks stay. *)
LEMMA PassGoesOn ==
    ASSUME ChecksShape, RowsOK, ReportOK, ShownOK,
           UNCHANGED <<status, reported, failures, missed, owner, check>>,
           pass' \in Passes, pass'.rows \subseteq pass.rows,
           pass'.row \in PassRows, RowOK(pass'.row),
           \A r \in pass'.rows : r.b # pass'.row.b,
           SeenOK', StageOK', SetOK', QuietOK'
    PROVE  ChecksShape' /\ RowsOK' /\ ReportOK' /\ ShownOK'
<1>1. ChecksShape'
  BY DEF ChecksShape
<1>2. RowsOK'
  <2>1. \A r \in pass'.rows : RowOK(r)'
    BY SameTable DEF RowsOK
  <2>2. RowOK(pass.row)'
    <3>1. \A r : r = pass'.row => RowOK(r)'
      BY SameTable
    <3> QED  BY <3>1 DEF RowOK, There
  <2> QED  BY <2>1, <2>2 DEF RowsOK, There
<1>3. OwnersOK' /\ ShownOK'
  BY SameTable DEF ReportOK
<1> QED  BY <1>1, <1>2, <1>3 DEF ReportOK

(* A row is taken: told as it is now, or nothing is to be told. *)
LEMMA LoadChecks ==
    ASSUME ChecksShape, RowsOK, ReportOK, ShownOK, NEW row \in pass.rows, LoadContext(row)
    PROVE  ChecksShape' /\ RowsOK' /\ ReportOK' /\ ShownOK'
<1> DEFINE s == status[row.b]
           told == Phase(row.was)
           quiet == \/ ~There(row.b)
                    \/ row.was # "none" /\ told = Phase(s)
                    \/ s = "expired" /\ told \in Terminal
<1>1. PICK res \in {IF quiet THEN "quiet" ELSE IF linked THEN "told" ELSE "untold", "error"} :
        pass' = [pass EXCEPT !.rows = @ \ {row}, !.row = row, !.at = 1, !.res = res,
                             !.pc = IF res = "told" THEN "report" ELSE "finish",
                             !.seen = IF res = "told" THEN s ELSE "none"]
  BY DEF LoadContext
<1>2. UNCHANGED <<status, reported, failures, missed, owner, check>>
  BY DEF LoadContext, buildVars, columnVars
<1>3. row \in PassRows /\ RowOK(row) /\ row.b \in Builds
  BY DEF ChecksShape, Passes, RowsOK, RowOK
<1>4. /\ res \in {"quiet", "told", "untold", "error"}
      /\ res = "told" => ~quiet
      /\ res = "quiet" => quiet
  BY <1>1
<1> HIDE DEF quiet
<1>5. s \in RowStates /\ pass \in Passes
  BY <1>3 DEF ChecksShape
<1>6. /\ pass' \in Passes /\ pass'.rows = pass.rows \ {row} /\ pass'.row = row /\ pass'.at = 1
      /\ pass'.res = res /\ pass'.pc = IF res = "told" THEN "report" ELSE "finish"
      /\ pass'.seen = IF res = "told" THEN s ELSE "none"
  <2> DEFINE w == IF res = "told" THEN "report" ELSE "finish"
             e == IF res = "told" THEN s ELSE "none"
  <2>1. w \in {"report", "finish"} /\ e \in RowStates \cup {"none"}
    BY <1>5
  <2>2. pass' = [pass EXCEPT !.rows = @ \ {row}, !.row = row, !.at = 1, !.res = res,
                             !.pc = w, !.seen = e]
    BY <1>1
  <2> HIDE DEF w, e
  <2>3. /\ pass' \in Passes /\ pass'.rows = pass.rows \ {row} /\ pass'.row = row /\ pass'.at = 1
        /\ pass'.res = res /\ pass'.pc = w /\ pass'.seen = e
    <3> DEFINE R == pass.rows \ {row}
    <3>1. R \in SUBSET PassRows /\ row \in PassRows \cup {NoBuild} /\ 1 \in Nat \ {0}
          /\ res \in {"quiet", "told", "untold", "error"}
      BY <1>3, <1>4, <1>5 DEF Passes
    <3>2. pass' = [pass EXCEPT !.rows = R, !.row = row, !.at = 1, !.res = res,
                               !.pc = w, !.seen = e]
      BY <2>2
    <3> HIDE DEF R
    <3>3. /\ pass'.rows = R /\ pass'.row = row /\ pass'.at = 1
          /\ pass'.res = res /\ pass'.pc = w /\ pass'.seen = e
      BY <1>5, <3>2 DEF Passes
    <3>4. pass' \in Passes
      BY <1>5, <2>1, <3>1, <3>2 DEF Passes
    <3> QED  BY <3>3, <3>4 DEF R
  <2> QED  BY <2>3 DEF w, e
<1>7. \A r \in pass'.rows : r.b # row.b
  BY <1>6 DEF RowsOK
<1>8. SeenOK'
  <2>1. ASSUME res = "told" PROVE s \in BuildStatuses /\ Later(row.s, s) /\ Later(s, s)
    BY <1>3, <1>4, <2>1, LaterFacts DEF quiet, There, RowOK
  <2> QED  BY <1>2, <1>6, <2>1 DEF SeenOK, Working
<1>9. StageOK'
  BY <1>4, <1>6 DEF StageOK
<1>10. SetOK'
  <2>1. \A p \in 1..Platforms : ~(p < 1)
    BY ChecksAssumption
  <2> QED  BY <1>6, <2>1 DEF SetOK
<1>11. QuietOK'
  <2> SUFFICES ASSUME res = "quiet", Counts(row.b)
               PROVE  row.was # "none" /\ Phase(row.was) = Phase(row.s)
    BY <1>2, <1>6, SameTable DEF QuietOK, Counts, There, Newest
  <2>1. There(row.b) /\ s # "expired" /\ s \in BuildStatuses
    BY DEF Counts, There
  <2>2. row.was # "none" /\ told = Phase(s)
    BY <1>4, <2>1 DEF quiet
  <2>3. /\ row.was \in BuildStatuses /\ row.s \in BuildStatuses
        /\ Later(row.was, row.s) /\ Later(row.s, s)
    BY <1>3, <2>1, <2>2 DEF RowOK, PassRows
  <2>4. Later(s, row.was)
    BY <2>2 DEF Later
  <2>5. Later(row.s, row.was)
    BY <2>1, <2>3, <2>4, LaterFacts
  <2> QED  BY <2>2, <2>3, <2>5, LaterFacts
<1> QED  BY <1>2, <1>3, <1>6, <1>7, <1>8, <1>9, <1>10, <1>11, PassGoesOn

(* A check that a report is about to set is not the newest build's, unless  *)
(* the report is that build's own.                                          *)
LEMMA OthersKeepOut ==
    ASSUME ChecksShape, RowsOK, ReportOK, ShownOK, Working, NEW p \in 1..Platforms,
           ~NewerOwns(pass.row.b, p), NEW c \in Builds, c # pass.row.b,
           Counts(c), c \notin missed, reported[c] # "none"
    PROVE  FALSE
<1>1. owner[p] = c
  BY DEF ShownOK, Shows
<1>2. pass.row.b \in Builds /\ status[pass.row.b] # "absent"
  BY DEF RowsOK, RowOK
<1>3. CreatedAt[pass.row.b] < CreatedAt[c]
  BY <1>2 DEF Counts, Newest
<1>4. c # 0 /\ CreatedAt[c] \in Nat /\ CreatedAt[pass.row.b] \in Nat
  BY <1>2, BuildsAssumption, ChecksAssumption
<1> QED  BY <1>1, <1>3, <1>4 DEF NewerOwns

(* A check is set on the source. *)
LEMMA SetChecks ==
    ASSUME ChecksShape, RowsOK, ReportOK, ShownOK, Working, pass.res \in {"told", "kept"},
           pass.at \in 1..Platforms, ~NewerOwns(pass.row.b, pass.at),
           check' = [check EXCEPT ![pass.at] = [b |-> pass.row.b, phase |-> Shown(pass.seen)]],
           UNCHANGED <<status, reported, failures, missed, owner>>
    PROVE  /\ check' \in [1..Platforms -> [b : Builds \cup {0}, phase : Faces]]
           /\ check'[pass.at].b = pass.row.b /\ check'[pass.at].phase = Shown(pass.seen)
           /\ \A p \in 1..Platforms : p # pass.at => check'[p] = check[p]
           /\ ShownOK'
<1> DEFINE b == pass.row.b
           m == [b |-> pass.row.b, phase |-> Shown(pass.seen)]
<1>1. /\ b \in Builds /\ pass.row \in PassRows /\ RowOK(pass.row)
      /\ pass.seen \in BuildStatuses
      /\ There(b) => Later(pass.row.s, pass.seen) /\ Later(pass.seen, status[b])
  BY DEF RowsOK, RowOK, ReportOK, SeenOK
<1>2. Shown(pass.seen) \in Faces
  BY <1>1 DEF Shown, Phase, Faces, RowStates, BuildStatuses
<1>3. m \in [b : Builds \cup {0}, phase : Faces] /\ m.b = b /\ m.phase = Shown(pass.seen)
  BY <1>1, <1>2
<1> HIDE DEF m
<1>4. /\ check' \in [1..Platforms -> [b : Builds \cup {0}, phase : Faces]]
      /\ check'[pass.at] = m /\ \A p \in 1..Platforms : p # pass.at => check'[p] = check[p]
  BY <1>3 DEF ChecksShape, m
<1>5. ShownOK'
  <2> SUFFICES ASSUME NEW c \in Builds, Counts(c), c \notin missed, reported[c] # "none",
                      NEW p \in 1..Platforms
               PROVE  \E t \in BuildStatuses : /\ Shows(p, c, t)'
                                               /\ Later(reported[c], t) /\ Later(t, status[c])
    BY DEF ShownOK, Counts, There, Newest
  <2>1. PICK t \in BuildStatuses : Shows(p, c, t) /\ Later(reported[c], t) /\ Later(t, status[c])
    BY DEF ShownOK
  <2>2. CASE p # pass.at
    <3>1. Shows(p, c, t)'
      BY <1>4, <2>1, <2>2 DEF Shows
    <3> QED  BY <2>1, <3>1
  <2>3. CASE p = pass.at
    <3>1. c = b
      BY <2>3, OthersKeepOut
    <3>2. \A u : u = pass.seen => Shows(p, c, u)'
      BY <1>3, <1>4, <2>1, <2>3, <3>1 DEF Shows
    <3>3. There(b) /\ reported[b] = pass.row.was /\ pass.row.was # "none"
      BY <1>1, <3>1 DEF Counts, RowOK
    <3>4. /\ Later(pass.row.was, pass.row.s) /\ Later(pass.row.s, pass.seen)
          /\ Later(pass.seen, status[b])
      BY <1>1, <3>3 DEF RowOK
    <3>5. pass.row.was \in BuildStatuses /\ pass.row.s \in BuildStatuses
      BY <1>1, <3>3 DEF PassRows
    <3>6. Later(reported[c], pass.seen)
      BY <1>1, <3>1, <3>3, <3>4, <3>5, LaterFacts
    <3> QED  BY <1>1, <3>1, <3>2, <3>4, <3>6
  <2> QED  BY <2>2, <2>3
<1> QED  BY <1>3, <1>4, <1>5

(* The fields a report changes on its way. *)
LEMMA PassFields ==
    ASSUME NEW r \in Passes
    PROVE  /\ LET n == [r EXCEPT !.at = @ + 1]
              IN  n \in Passes /\ n.rows = r.rows /\ n.row = r.row /\ n.seen = r.seen
                  /\ n.pc = r.pc /\ n.res = r.res /\ n.at = r.at + 1
           /\ LET n == [r EXCEPT !.pc = "record"]
              IN  n \in Passes /\ n.rows = r.rows /\ n.row = r.row /\ n.seen = r.seen
                  /\ n.pc = "record" /\ n.res = r.res /\ n.at = r.at
           /\ LET n == [r EXCEPT !.pc = "finish"]
              IN  n \in Passes /\ n.rows = r.rows /\ n.row = r.row /\ n.seen = r.seen
                  /\ n.pc = "finish" /\ n.res = r.res /\ n.at = r.at
<1>1. r.at \in Nat \ {0} /\ r.at + 1 \in Nat \ {0}
  BY DEF Passes
<1>2. LET n == [r EXCEPT !.at = @ + 1]
      IN  n \in Passes /\ n.rows = r.rows /\ n.row = r.row /\ n.seen = r.seen
          /\ n.pc = r.pc /\ n.res = r.res /\ n.at = r.at + 1
  BY <1>1 DEF Passes
<1>3. LET n == [r EXCEPT !.pc = "record"]
      IN  n \in Passes /\ n.rows = r.rows /\ n.row = r.row /\ n.seen = r.seen
          /\ n.pc = "record" /\ n.res = r.res /\ n.at = r.at
  BY DEF Passes
<1>4. LET n == [r EXCEPT !.pc = "finish"]
      IN  n \in Passes /\ n.rows = r.rows /\ n.row = r.row /\ n.seen = r.seen
          /\ n.pc = "finish" /\ n.res = r.res /\ n.at = r.at
  BY DEF Passes
<1> QED  BY <1>2, <1>3, <1>4

(* A report that fails or is refused. *)
LEMMA PassEnds ==
    ASSUME pass \in Passes,
           \E e \in {"error", "refused"} : pass' = [pass EXCEPT !.pc = "finish", !.res = e]
    PROVE  /\ pass' \in Passes /\ pass'.rows = pass.rows /\ pass'.row = pass.row
           /\ pass'.seen = pass.seen /\ pass'.at = pass.at
           /\ pass'.pc = "finish" /\ pass'.res \in {"error", "refused"}
<1>1. PICK e \in {"error", "refused"} : pass' = [pass EXCEPT !.pc = "finish", !.res = e]
  OBVIOUS
<1> QED  BY <1>1 DEF Passes

(* A check is set and the report goes on, or its answer is lost. *)
LEMMA SetSteps ==
    ASSUME ChecksShape, RowsOK, ReportOK, ShownOK, ReportPlatform,
           ~NewerOwns(pass.row.b, pass.at), CallSets
    PROVE  ChecksShape' /\ RowsOK' /\ ReportOK' /\ ShownOK'
<1> DEFINE b == pass.row.b
<1>0. /\ pass.pc = "report" /\ pass.at \in 1..Platforms /\ pass.res \in {"told", "kept"} /\ Working
      /\ pass \in Passes /\ pass.row \in PassRows /\ RowOK(pass.row) /\ b \in Builds
      /\ \A r \in pass.rows : r.b # b
      /\ UNCHANGED <<status, reported, failures, missed, owner>>
  BY ChecksAssumption DEF ReportPlatform, ReportOK, StageOK, Working, RowsOK, RowOK, ChecksShape,
                          Passes, buildVars, columnVars
<1>1. /\ check' \in [1..Platforms -> [b : Builds \cup {0}, phase : Faces]]
      /\ check'[pass.at].b = b /\ check'[pass.at].phase = Shown(pass.seen)
      /\ \A p \in 1..Platforms : p # pass.at => check'[p] = check[p]
      /\ ShownOK'
  BY <1>0, SetChecks DEF CallSets
<1>2. /\ pass' \in Passes /\ pass'.rows = pass.rows /\ pass'.row = pass.row
      /\ pass'.seen = pass.seen /\ pass'.at = pass.at
      /\ \/ pass'.pc = "record" /\ pass'.res = pass.res
         \/ pass'.pc = "finish" /\ pass'.res \in {"error", "refused"}
  <2>1. CASE pass' = [pass EXCEPT !.pc = "record"]
    BY <1>0, <2>1, PassFields
  <2>2. CASE \E e \in {"error", "refused"} : pass' = [pass EXCEPT !.pc = "finish", !.res = e]
    BY <1>0, <2>2, PassEnds
  <2> QED  BY <2>1, <2>2 DEF CallSets
<1>3. ChecksShape'
  BY <1>0, <1>1, <1>2 DEF ChecksShape
<1>4. RowsOK'
  BY <1>0, <1>2 DEF RowsOK, RowOK, There
<1>5. OwnersOK' /\ SeenOK' /\ QuietOK'
  BY <1>0, <1>2 DEF ReportOK, OwnersOK, SeenOK, QuietOK, There, Working
<1>6. StageOK'
  BY <1>0, <1>1, <1>2 DEF StageOK, NewerOwns
<1>7. SetOK'
  <2> SUFFICES ASSUME pass.res = "told", Counts(b), NEW p \in 1..Platforms, p < pass.at
               PROVE  owner[p] = b /\ check'[p].b = b /\ check'[p].phase = Shown(pass.seen)
    BY <1>0, <1>2 DEF SetOK, Shows, Counts, There, Newest
  <2>1. Shows(p, b, pass.seen)
    BY <1>0 DEF ReportOK, SetOK
  <2>2. p # pass.at
    BY <1>0 DEF Passes
  <2> QED  BY <1>1, <2>1, <2>2 DEF Shows
<1> QED  BY <1>1, <1>3, <1>4, <1>5, <1>6, <1>7 DEF ReportOK

(* One platform: left to a newer build, or set on the source. *)
LEMMA PlatformChecks ==
    ASSUME ChecksShape, RowsOK, ReportOK, ShownOK, ReportPlatform
    PROVE  ChecksShape' /\ RowsOK' /\ ReportOK' /\ ShownOK'
<1> DEFINE b == pass.row.b
<1>0. /\ pass.pc = "report" /\ pass.at \in 1..Platforms /\ pass.res \in {"told", "kept"} /\ Working
      /\ pass \in Passes /\ pass.row \in PassRows /\ RowOK(pass.row) /\ b \in Builds
      /\ \A r \in pass.rows : r.b # b
      /\ UNCHANGED <<status, reported, failures, missed, owner>>
  BY ChecksAssumption DEF ReportPlatform, ReportOK, StageOK, Working, RowsOK, RowOK, ChecksShape,
                          Passes, buildVars, columnVars
<1>s. SeenOK /\ SetOK /\ OwnersOK
  BY DEF ReportOK
<1>1. CASE NewerOwns(b, pass.at)
  <2>1. pass' = [pass EXCEPT !.at = @ + 1] /\ UNCHANGED check
    BY <1>1 DEF ReportPlatform
  <2>2. /\ pass' \in Passes /\ pass'.rows = pass.rows /\ pass'.row = pass.row
        /\ pass'.seen = pass.seen /\ pass'.pc = "report" /\ pass'.res = pass.res
    BY <1>0, <2>1, PassFields
  <2>3. ~Counts(b)
    <3>1. owner[pass.at] \in Builds \ {b} /\ There(owner[pass.at])
      BY <1>0, <1>1, <1>s DEF NewerOwns, OwnersOK, ChecksShape
    <3>2. CreatedAt[owner[pass.at]] > CreatedAt[b]
      BY <1>1 DEF NewerOwns
    <3>3. CreatedAt[owner[pass.at]] \in Nat /\ CreatedAt[b] \in Nat
      BY <1>0, <3>1, ChecksAssumption
    <3>4. ASSUME Counts(b) PROVE CreatedAt[owner[pass.at]] < CreatedAt[b]
      BY <3>1, <3>4 DEF Counts, Newest, There, BuildStatuses
    <3> QED  BY <3>2, <3>3, <3>4
  <2>4. SeenOK'
    BY <1>0, <1>s, <2>2 DEF SeenOK, Working, There
  <2>5. StageOK' /\ QuietOK'
    BY <1>0, <2>2 DEF StageOK, QuietOK
  <2>6. SetOK'
    <3>1. \A c : Counts(c)' <=> Counts(c)
      BY <1>0, <2>1, SameTable
    <3>2. ~Counts(pass.row.b)'
      BY <2>2, <2>3, <1>0 DEF Counts, There, Newest
    <3> QED  BY <3>2 DEF SetOK
  <2> QED  BY <1>0, <2>1, <2>2, <2>4, <2>5, <2>6, PassGoesOn
<1>2. CASE ~NewerOwns(b, pass.at) /\ CallFails
  <2>1. UNCHANGED check
        /\ \E e \in {"error", "refused"} : pass' = [pass EXCEPT !.pc = "finish", !.res = e]
    BY <1>2 DEF CallFails
  <2>2. /\ pass' \in Passes /\ pass'.rows = pass.rows /\ pass'.row = pass.row
        /\ pass'.pc = "finish" /\ pass'.res \in {"error", "refused"}
    BY <1>0, <2>1, PassEnds
  <2>3. SeenOK' /\ StageOK' /\ SetOK' /\ QuietOK'
    BY <2>2 DEF SeenOK, StageOK, SetOK, QuietOK
  <2> QED  BY <1>0, <2>1, <2>2, <2>3, PassGoesOn
<1>3. CASE ~NewerOwns(b, pass.at) /\ CallSets
  BY <1>3, SetSteps
<1>4. CASE ~NewerOwns(b, pass.at) /\ CallKept
  <2> DEFINE posted == [b |-> b, phase |-> Shown(pass.seen)]
             res == IF check[pass.at] = posted THEN pass.res ELSE "kept"
  <2>1. pass' = [pass EXCEPT !.pc = "record", !.res = res] /\ UNCHANGED check
    BY <1>4 DEF CallKept
  <2>2. /\ res \in {"told", "kept"}
        /\ res = "told" => /\ pass.res = "told"
                           /\ check[pass.at].b = b /\ check[pass.at].phase = Shown(pass.seen)
    BY <1>0
  <2> HIDE DEF res
  <2>3. /\ pass' \in Passes /\ pass'.rows = pass.rows /\ pass'.row = pass.row
        /\ pass'.seen = pass.seen /\ pass'.at = pass.at /\ pass'.pc = "record" /\ pass'.res = res
    BY <1>0, <2>1, <2>2 DEF Passes
  <2>4. SeenOK'
    BY <1>0, <1>s, <2>2, <2>3 DEF SeenOK, Working, There
  <2>5. StageOK' /\ QuietOK'
    BY <1>0, <1>4, <2>1, <2>2, <2>3 DEF StageOK, QuietOK, NewerOwns
  <2>6. SetOK'
    BY <1>0, <1>s, <2>1, <2>2, <2>3 DEF SetOK, Working, Shows, Counts, There, Newest
  <2> QED  BY <1>0, <2>1, <2>3, <2>4, <2>5, <2>6, PassGoesOn
<1> QED  BY <1>1, <1>2, <1>3, <1>4 DEF ReportPlatform


(* The owner of a check is recorded: the check is the one just set, or the  *)
(* one that was kept, and no newer build's.                                 *)
LEMMA OwnerChecks ==
    ASSUME ChecksShape, RowsOK, ReportOK, ShownOK, RecordOwner
    PROVE  ChecksShape' /\ RowsOK' /\ ReportOK' /\ ShownOK'
<1> DEFINE b == pass.row.b
<1>0. /\ pass.pc = "record" /\ pass.at \in 1..Platforms /\ pass.res \in {"told", "kept"} /\ Working
      /\ ~NewerOwns(b, pass.at)
      /\ pass.res = "told" => check[pass.at].b = b /\ check[pass.at].phase = Shown(pass.seen)
      /\ pass \in Passes /\ pass.row \in PassRows /\ RowOK(pass.row) /\ b \in Builds
      /\ \A r \in pass.rows : r.b # b
      /\ UNCHANGED <<status, reported, failures, missed, check>>
  BY DEF RecordOwner, ReportOK, StageOK, Working, RowsOK, RowOK, ChecksShape, buildVars, columnVars
<1>s. SeenOK /\ SetOK /\ OwnersOK
  BY DEF ReportOK
<1>1. CASE ~There(b)
  <2>1. UNCHANGED owner /\ pass' = [pass EXCEPT !.pc = "finish", !.res = "error"]
    BY <1>1 DEF RecordOwner
  <2>2. /\ pass' \in Passes /\ pass'.rows = pass.rows /\ pass'.row = pass.row
        /\ pass'.pc = "finish" /\ pass'.res \in {"error", "refused"}
    BY <1>0, <2>1, PassEnds
  <2>3. SeenOK' /\ StageOK' /\ SetOK' /\ QuietOK'
    BY <2>2 DEF SeenOK, StageOK, SetOK, QuietOK
  <2> QED  BY <1>0, <2>1, <2>2, <2>3, PassGoesOn
<1>2. CASE There(b)
  <2>1. /\ owner' = [owner EXCEPT ![pass.at] = b]
        /\ pass' = [pass EXCEPT !.pc = "report", !.at = pass.at + 1]
    BY <1>2 DEF RecordOwner
  <2>2. /\ owner' \in [1..Platforms -> Builds \cup {0}] /\ owner'[pass.at] = b
        /\ \A p \in 1..Platforms : p # pass.at => owner'[p] = owner[p]
    BY <1>0, <2>1 DEF ChecksShape
  <2>3. /\ pass' \in Passes /\ pass'.rows = pass.rows /\ pass'.row = pass.row
        /\ pass'.seen = pass.seen /\ pass'.pc = "report" /\ pass'.res = pass.res
        /\ pass'.at = pass.at + 1
    <3>1. pass.at \in Nat \ {0} /\ pass.at + 1 \in Nat \ {0}
      BY <1>0 DEF Passes
    <3> QED  BY <1>0, <2>1, <3>1 DEF Passes
  <2>4. ChecksShape'
    BY <1>0, <2>2, <2>3 DEF ChecksShape
  <2>5. RowsOK'
    BY <1>0, <2>3 DEF RowsOK, RowOK, There
  <2>6. OwnersOK'
    <3> SUFFICES ASSUME NEW p \in 1..Platforms, owner'[p] # 0 PROVE There(owner'[p])
      BY <1>0 DEF OwnersOK, There
    <3> QED  BY <1>2, <1>s, <2>2 DEF OwnersOK
  <2>7. SeenOK' /\ StageOK' /\ QuietOK'
    BY <1>0, <1>s, <2>3 DEF SeenOK, StageOK, QuietOK, There, Working
  <2>8. SetOK'
    <3> SUFFICES ASSUME pass.res = "told", Counts(b), NEW p \in 1..Platforms, p < pass.at + 1
                 PROVE  owner'[p] = b /\ check[p].b = b /\ check[p].phase = Shown(pass.seen)
      BY <1>0, <2>3 DEF SetOK, Shows, Counts, There, Newest
    <3>1. CASE p = pass.at
      BY <1>0, <2>2, <3>1
    <3>2. CASE p # pass.at
      <4>1. p < pass.at
        BY <1>0, <3>2, ChecksAssumption DEF Passes
      <4> QED  BY <1>0, <1>s, <2>2, <3>2, <4>1 DEF SetOK, Shows
    <3> QED  BY <3>1, <3>2
  <2>9. ShownOK'
    <3> SUFFICES ASSUME NEW c \in Builds, Counts(c), c \notin missed, reported[c] # "none",
                        NEW p \in 1..Platforms
                 PROVE  \E t \in BuildStatuses : /\ Shows(p, c, t)'
                                                 /\ Later(reported[c], t) /\ Later(t, status[c])
      BY <1>0 DEF ShownOK, Counts, There, Newest
    <3>1. PICK t \in BuildStatuses : Shows(p, c, t) /\ Later(reported[c], t) /\ Later(t, status[c])
      BY DEF ShownOK
    <3>2. owner'[p] = c
      <4>1. CASE p = pass.at
        BY <1>0, <2>2, <4>1, OthersKeepOut
      <4>2. CASE p # pass.at
        BY <2>2, <3>1, <4>2 DEF Shows
      <4> QED  BY <4>1, <4>2
    <3>3. Shows(p, c, t)'
      BY <1>0, <3>1, <3>2 DEF Shows
    <3> QED  BY <3>1, <3>3
  <2> QED  BY <2>4, <2>5, <2>6, <2>7, <2>8, <2>9 DEF ReportOK
<1> QED  BY <1>1, <1>2

(* Every platform is done. *)
LEMMA AllReportedChecks ==
    ASSUME ChecksShape, RowsOK, ReportOK, ShownOK, AllReported
    PROVE  ChecksShape' /\ RowsOK' /\ ReportOK' /\ ShownOK'
<1>0. /\ pass.pc = "report" /\ pass.at > Platforms /\ pass.res \in {"told", "kept"} /\ Working
      /\ pass \in Passes /\ pass.row \in PassRows /\ RowOK(pass.row)
      /\ \A r \in pass.rows : r.b # pass.row.b
      /\ UNCHANGED <<status, reported, failures, missed, owner, check>>
      /\ pass' = [pass EXCEPT !.pc = "finish"]
  BY DEF AllReported, ReportOK, StageOK, Working, RowsOK, ChecksShape, buildVars, columnVars
<1>1. /\ pass' \in Passes /\ pass'.rows = pass.rows /\ pass'.row = pass.row
      /\ pass'.seen = pass.seen /\ pass'.pc = "finish" /\ pass'.res = pass.res /\ pass'.at = pass.at
  BY <1>0, PassFields
<1>s. SeenOK /\ SetOK
  BY DEF ReportOK
<1>2. SeenOK' /\ StageOK' /\ QuietOK'
  BY <1>0, <1>1, <1>s DEF SeenOK, StageOK, QuietOK, Working, There
<1>3. SetOK'
  BY <1>0, <1>1, <1>s DEF SetOK, Working, Shows, Counts, There, Newest
<1> QED  BY <1>0, <1>1, <1>2, <1>3, PassGoesOn


(* The end of a row.  The selected status is written, which is not later    *)
(* than the one that was told.                                              *)
LEMMA FinishChecks ==
    ASSUME ChecksShape, RowsOK, ReportOK, ShownOK, FinishRow
    PROVE  ChecksShape' /\ RowsOK' /\ ReportOK' /\ ShownOK'
<1> DEFINE row == pass.row
           b == pass.row.b
           giveUp == pass.res # "error" \/ Exhausted(FailuresAfter(row))
           w == IF pass.rows = {} THEN "idle" ELSE "next"
<1>0. /\ pass.pc = "finish" /\ Working /\ pass \in Passes /\ pass.rows \in SUBSET PassRows
      /\ row \in PassRows /\ RowOK(row) /\ b \in Builds /\ \A r \in pass.rows : r.b # b
      /\ row.s \in BuildStatuses /\ row.n \in Nat
      /\ pass.res \in {"quiet", "told", "kept", "untold", "error", "refused"}
      /\ UNCHANGED <<status, owner, check>>
      /\ pass' = [IdlePass EXCEPT !.rows = pass.rows, !.pc = w]
  BY DEF FinishRow, ReportOK, StageOK, Working, RowsOK, RowOK, PassRows, ChecksShape, Passes, buildVars
<1>1. pass' \in Passes /\ pass'.pc \in {"idle", "next"} /\ pass'.rows = pass.rows
  <2>1. w \in {"idle", "next"}
    OBVIOUS
  <2> HIDE DEF w
  <2>2. IdlePass \in Passes
    BY <1>0, <2>1, RestingPass
  <2> QED  BY <1>0, <2>1, <2>2 DEF Passes
<1>2. /\ reported' = IF There(b) /\ giveUp THEN [reported EXCEPT ![b] = row.s] ELSE reported
      /\ failures' \in [Builds -> Nat]
  BY <1>0 DEF FinishRow, MarkedStatus, FailuresAfter, columnVars, ChecksShape
<1>3. /\ reported' \in [Builds -> BuildStatuses \cup {"none"}]
      /\ \A c \in Builds : c # b => reported'[c] = reported[c]
      /\ There(b) /\ giveUp => reported'[b] = row.s
      /\ ~(There(b) /\ giveUp) => reported' = reported
  BY <1>0, <1>2 DEF ChecksShape
<1>4. /\ missed' \subseteq Builds
      /\ \A c \in Builds : c # b => (c \in missed' <=> c \in missed)
      /\ There(b) /\ pass.res \notin {"told", "quiet"} /\ giveUp => b \in missed'
      /\ pass.res = "quiet" \/ ~giveUp => missed' = missed
  <2>1. missed' = IF ~There(b) THEN missed
                  ELSE IF pass.res = "told" THEN missed \ {b}
                  ELSE IF pass.res # "quiet" /\ giveUp THEN missed \cup {b}
                  ELSE missed
    BY DEF FinishRow
  <2>2. missed \subseteq Builds
    BY DEF ChecksShape
  <2> QED  BY <1>0, <2>1, <2>2
<1> HIDE DEF giveUp
<1>5. ChecksShape'
  BY <1>0, <1>1, <1>2, <1>3, <1>4 DEF ChecksShape
<1>6. RowsOK'
  <2>1. ASSUME NEW c \in Builds
        PROVE  /\ status[c] = "absent" => reported'[c] = "none"
               /\ There(c) /\ reported'[c] # "none" => Later(reported'[c], status[c])
    <3>1. CASE c = b
      BY <1>0, <1>3, <3>1 DEF RowsOK, RowOK
    <3>2. CASE c # b
      BY <1>3, <3>2 DEF RowsOK
    <3> QED  BY <3>1, <3>2
  <2>2. ASSUME NEW r \in pass.rows PROVE RowOK(r)'
    <3>1. RowOK(r) /\ reported'[r.b] = reported[r.b]
      BY <1>0, <1>3 DEF RowsOK, RowOK
    <3> QED  BY <1>0, <3>1 DEF RowOK, There
  <2> QED  BY <1>0, <1>1, <2>1, <2>2 DEF RowsOK, Working, There
<1>7. ReportOK'
  <2>1. OwnersOK'
    BY <1>0 DEF ReportOK, OwnersOK, There
  <2> QED  BY <1>1, <2>1 DEF ReportOK, SeenOK, StageOK, SetOK, QuietOK, Working
<1>8. ShownOK'
  <2> SUFFICES ASSUME NEW c \in Builds, Counts(c), c \notin missed', reported'[c] # "none",
                      NEW p \in 1..Platforms
               PROVE  \E t \in BuildStatuses : /\ Shows(p, c, t)
                                               /\ Later(reported'[c], t) /\ Later(t, status[c])
    BY <1>0 DEF ShownOK, Counts, Shows, There, Newest
  <2>0. There(c) /\ status[c] \in BuildStatuses
    BY DEF Counts, There
  <2>1. CASE reported'[c] = reported[c] /\ c \notin missed
    BY <2>1 DEF ShownOK
  <2>2. CASE c = b /\ giveUp /\ pass.res = "told"
    <3>1. /\ pass.seen \in BuildStatuses /\ Later(row.s, pass.seen) /\ Later(pass.seen, status[b])
      BY <1>0, <2>0, <2>2 DEF ReportOK, SeenOK
    <3>2. p < pass.at
      BY <1>0, <2>2, ChecksAssumption DEF ReportOK, StageOK, Passes
    <3>3. Shows(p, b, pass.seen)
      BY <1>0, <2>2, <3>2 DEF ReportOK, SetOK
    <3>4. reported'[b] = row.s
      BY <1>3, <2>0, <2>2
    <3> QED  BY <2>2, <3>1, <3>3, <3>4
  <2>3. CASE c = b /\ giveUp /\ pass.res = "quiet"
    <3>1. reported'[b] = row.s /\ b \notin missed
      BY <1>3, <1>4, <2>0, <2>3
    <3>2. /\ row.was # "none" /\ Phase(row.was) = Phase(row.s) /\ reported[b] = row.was
          /\ row.was \in BuildStatuses
      BY <1>0, <2>0, <2>3 DEF ReportOK, QuietOK, RowOK, PassRows
    <3>3. PICK t \in BuildStatuses : Shows(p, b, t) /\ Later(row.was, t) /\ Later(t, status[b])
      BY <2>3, <3>1, <3>2 DEF ShownOK
    <3>4. Later(row.s, row.was)
      BY <3>2 DEF Later
    <3>5. Later(row.s, t)
      BY <1>0, <3>2, <3>3, <3>4, LaterFacts
    <3> QED  BY <2>3, <3>1, <3>3, <3>5
  <2>4. CASE c = b /\ giveUp /\ pass.res \notin {"told", "quiet"}
    BY <1>4, <2>0, <2>4
  <2>5. CASE c # b \/ ~giveUp
    BY <1>3, <1>4, <2>1, <2>5
  <2> QED  BY <1>0, <2>2, <2>3, <2>4, <2>5
<1> QED  BY <1>5, <1>6, <1>7, <1>8

(* What the reporter, the sources and the clock do keeps the invariant. *)
LEMMA CheckChecks ==
    ASSUME ChecksShape, RowsOK, ReportOK, ShownOK, CheckStep
    PROVE  ChecksShape' /\ RowsOK' /\ ReportOK' /\ ShownOK'
<1>1. CASE ReporterStep
  BY <1>1, SelectChecks, LoadChecks, PlatformChecks, OwnerChecks, AllReportedChecks, FinishChecks
     DEF ReporterStep
<1>2. CASE PassFails
  <2>1. UNCHANGED <<status, reported, failures, missed, owner, check>> /\ pass' = IdlePass
    BY <1>2 DEF PassFails, columnVars
  <2>2. IdlePass \in Passes /\ IdlePass.pc = "idle" /\ IdlePass.rows = {}
    BY RestingPass
  <2> QED  BY <2>1, <2>2, PassRests
<1>3. CASE Unlink \/ Relink
  BY <1>3, ChecksUntouched DEF Unlink, Relink, buildVars, columnVars
<1>4. CASE \E b \in Builds : BackoffEnds(b)
  BY <1>4, ChecksUntouched DEF BackoffEnds, buildVars
<1> QED  BY <1>1, <1>2, <1>3, <1>4 DEF CheckStep


-----------------------------------------------------------------------------
(* Both reporters. *)

(* Nothing is told at the start. *)
LEMMA ReportsInit == Init => Reporting
<1> SUFFICES ASSUME Init PROVE Reporting
  OBVIOUS
<1>0. slice \in Slices /\ BuildsInit /\ NotifyInit /\ ChecksInit
  BY DEF Init
<1>1. NotifyShape
  <2>1. status \in [Builds -> RowStates]
    BY <1>0 DEF BuildsInit, RowStates
  <2>2. notified \in [Builds -> BuildStatuses \cup {"none"}] /\ scan \in Scans
    BY <1>0, IdleScanShape DEF NotifyInit
  <2>3. outbox \in [Keys -> OutboxRows] /\ attempt \in [Keys \X Starters -> Attempts]
    BY <1>0, NoRowShape, IdleAttempts DEF NotifyInit
  <2> QED  BY <2>1, <2>2, <2>3 DEF NotifyShape
<1>2. TellOK
  BY <1>0, NoRowShape, IdleScanShape DEF NotifyInit, TellOK, ToldOneEnd
<1>3. SendOK
  <2>1. \A k \in Keys, t \in Starters : ~InFlight(<<k, t>>)
    BY <1>0, IdleAttempts DEF NotifyInit, InFlight
  <2> QED  BY <2>1 DEF SendOK, SendsApart, Starters
<1>4. pass \in Passes /\ pass.pc = "idle" /\ pass.rows = {}
  BY <1>0, RestingPass DEF ChecksInit
<1>5. ChecksShape
  <2>1. \A p \in 1..Platforms : [b |-> 0, phase |-> "none"] \in [b : Builds \cup {0}, phase : Faces]
    BY DEF Faces
  <2>2. check \in [1..Platforms -> [b : Builds \cup {0}, phase : Faces]]
    BY <1>0, <2>1 DEF ChecksInit
  <2>4. /\ reported \in [Builds -> BuildStatuses \cup {"none"}] /\ failures \in [Builds -> Nat]
        /\ missed \subseteq Builds /\ owner \in [1..Platforms -> Builds \cup {0}]
    BY <1>0 DEF ChecksInit
  <2>5. status \in [Builds -> RowStates]
    BY <1>1 DEF NotifyShape
  <2> QED  BY <1>4, <2>2, <2>4, <2>5 DEF ChecksShape
<1>6. RowsOK
  BY <1>0, <1>4 DEF ChecksInit, RowsOK, Working
<1>7. ReportOK
  BY <1>0, <1>4 DEF ChecksInit, ReportOK, OwnersOK, SeenOK, StageOK, SetOK, QuietOK, Working
<1>8. ShownOK
  BY <1>0 DEF ChecksInit, ShownOK
<1> QED  BY <1>0, <1>1, <1>2, <1>3, <1>5, <1>6, <1>7, <1>8 DEF Reporting

(* The reporters only read the statuses. *)
LEMMA ReadersOnly == NotifyStep \/ CheckStep => UNCHANGED status
<1>1. NotifyStep => UNCHANGED status
  BY DEF NotifyStep, SelectEnded, NotifyBuild, SpawnDeliver, ScanFails, RetryScan, AttemptStep,
         ClaimDelivery, LoadChannel, Send, RecordResult, AttemptFails, BecomeDue, ToggleChannel,
         DeleteChannel, buildVars
<1>2. CheckStep => UNCHANGED status
  BY DEF CheckStep, ReporterStep, SelectDue, LoadContext, ReportPlatform, RecordOwner, AllReported,
         FinishRow, PassFails, Unlink, Relink, BackoffEnds, buildVars
<1> QED  BY <1>1, <1>2

(* Every step keeps the invariant. *)
LEMMA ReportsStep == Reporting /\ [Next]_reportVars => Reporting'
<1> SUFFICES ASSUME Reporting, [Next]_reportVars PROVE Reporting'
  OBVIOUS
<1>0. /\ slice \in Slices /\ NotifyShape /\ TellOK /\ SendOK
      /\ ChecksShape /\ RowsOK /\ ReportOK /\ ShownOK
  BY DEF Reporting
<1>1. ASSUME NEW b \in slice.builds, BuildStep(b) PROVE Reporting'
  <2>1. slice' = slice
    BY <1>1 DEF BuildStep
  <2>2. NotifyShape' /\ TellOK' /\ SendOK'
    BY <1>0, <1>1, BuildStepNotifies
  <2>3. ChecksShape' /\ RowsOK' /\ ReportOK' /\ ShownOK'
    BY <1>0, <1>1, BuildStepChecks
  <2> QED  BY <1>0, <2>1, <2>2, <2>3 DEF Reporting
<1>2. CASE Notify(NotifyStep)
  <2>1. NotifyStep /\ UNCHANGED <<checkVars, slice>>
    BY <1>2 DEF Notify
  <2>2. NotifyShape' /\ TellOK' /\ SendOK'
    BY <1>0, <2>1, NotifyNotifies
  <2>3. UNCHANGED <<status, reported, failures, missed, owner, check, pass>>
    BY <2>1, ReadersOnly DEF checkVars, columnVars
  <2>4. ChecksShape' /\ RowsOK' /\ ReportOK' /\ ShownOK'
    BY <1>0, <2>3, ChecksUntouched
  <2> QED  BY <1>0, <2>1, <2>2, <2>4 DEF Reporting
<1>3. CASE Check(CheckStep)
  <2>1. CheckStep /\ UNCHANGED <<notifyVars, slice>>
    BY <1>3 DEF Check
  <2>2. ChecksShape' /\ RowsOK' /\ ReportOK' /\ ShownOK'
    BY <1>0, <2>1, CheckChecks
  <2>3. UNCHANGED <<notified, outbox, scan, attempt, status>>
    BY <2>1, ReadersOnly DEF notifyVars
  <2>4. NotifyShape' /\ TellOK' /\ SendOK'
    BY <1>0, <2>3, NotifyUntouched
  <2> QED  BY <1>0, <2>1, <2>2, <2>4 DEF Reporting
<1>4. CASE Restart
  <2>1. /\ scan' = IdleScan /\ attempt' = [a \in Keys \X Starters |-> NoAttempt]
        /\ pass' = IdlePass /\ slice' = slice
        /\ UNCHANGED <<status, notified, outbox, reported, failures, missed, owner, check>>
    BY <1>4 DEF Restart, DropNotifyTasks, DropPass, columnVars
  <2>2. /\ attempt' \in [Keys \X Starters -> Attempts]
        /\ \A x \in Keys \X Starters : attempt'[x].pc \in {"idle", "claim"}
    BY <2>1, IdleAttempts
  <2>3. NotifyShape' /\ TellOK' /\ SendOK'
    BY <1>0, <2>1, <2>2, StartNotifies
  <2>4. IdlePass \in Passes /\ IdlePass.pc = "idle" /\ IdlePass.rows = {}
    BY RestingPass
  <2>5. ChecksShape' /\ RowsOK' /\ ReportOK' /\ ShownOK'
    BY <1>0, <2>1, <2>4, PassRests
  <2> QED  BY <1>0, <2>1, <2>3, <2>5 DEF Reporting
<1>5. CASE UNCHANGED reportVars
  <2>1. /\ UNCHANGED <<notified, outbox, scan, attempt, status>>
        /\ UNCHANGED <<status, reported, failures, missed, owner, check, pass>>
        /\ slice' = slice
    BY <1>5 DEF reportVars, buildVars, notifyVars, checkVars, columnVars
  <2>2. NotifyShape' /\ TellOK' /\ SendOK'
    BY <1>0, <2>1, NotifyUntouched
  <2>3. ChecksShape' /\ RowsOK' /\ ReportOK' /\ ShownOK'
    BY <1>0, <2>1, ChecksUntouched
  <2> QED  BY <1>0, <2>1, <2>2, <2>3 DEF Reporting
<1> QED  BY <1>1, <1>2, <1>3, <1>4, <1>5 DEF Next

(* In every behaviour of the reporters what the columns say was told was    *)
(* told, and what the tasks have read is not overtaken.                     *)
THEOREM ReportingAlways == FairSpec => []Reporting
<1>1. Init => Reporting
  BY ReportsInit
<1>2. Reporting /\ [Next]_reportVars => Reporting'
  BY ReportsStep
<1> QED  BY <1>1, <1>2, PTL DEF FairSpec

(* notify_due_builds: a channel hears of one end of a build, for every set  *)
(* of builds and channels, although the scan fails after any of its         *)
(* transactions, the daemon restarts and retention expires the build later. *)
THEOREM ToldOnce == FairSpec => []ToldOneEnd
<1>1. Reporting => ToldOneEnd
  BY DEF Reporting, TellOK
<1> QED  BY <1>1, ReportingAlways, PTL

(* attempt_delivery: the claim keeps a second attempt at a delivery out as  *)
(* long as a send fits in the lease, for every number of permits and        *)
(* attempts.                                                                *)
THEOREM SendsKeptApart == FairSpec => []SendsApart
<1>1. Reporting => SendsApart
  BY DEF Reporting, SendOK
<1> QED  BY <1>1, ReportingAlways, PTL

(* report_due_builds and check_owner: once the newest build's status is     *)
(* marked reported every check shows it, unless the mark was made without   *)
(* telling, for every number of builds and platforms, every order of        *)
(* creation, and a source that goes and comes back at any time.             *)
THEOREM NothingUntold == FairSpec => []NothingLeftUntold
<1>1. Reporting => NothingLeftUntold
  <2> SUFFICES ASSUME Reporting, NEW b \in Builds, b \notin missed,
                      There(b), status[b] # "expired", reported[b] = status[b],
                      \A c \in Builds \ {b} : /\ status[c] # "deleted"
                                              /\ There(c) => CreatedAt[c] < CreatedAt[b],
                      NEW p \in 1..Platforms
               PROVE  check[p] = [b |-> b, phase |-> Shown(status[b])]
    BY DEF NothingLeftUntold
  <2>0. ChecksShape /\ ShownOK
    BY DEF Reporting
  <2>1. Counts(b)
    <3>1. \A c \in Builds : status[c] \in RowStates
      BY <2>0 DEF ChecksShape
    <3> QED  BY <3>1 DEF Counts, Newest, There, RowStates
  <2>2. status[b] \in BuildStatuses /\ reported[b] = status[b] /\ reported[b] # "none"
    BY DEF There, BuildStatuses
  <2>3. PICK t \in BuildStatuses : Shows(p, b, t) /\ Later(reported[b], t) /\ Later(t, status[b])
    BY <2>0, <2>1, <2>2 DEF ShownOK
  <2>4. Shown(t) = Shown(status[b])
    BY <2>2, <2>3, LaterFacts
  <2>5. check[p].b = b /\ check[p].phase = Shown(status[b])
    BY <2>3, <2>4 DEF Shows
  <2>6. check[p] \in [b : Builds \cup {0}, phase : Faces]
    BY <2>0 DEF ChecksShape
  <2> QED  BY <2>5, <2>6
<1> QED  BY <1>1, ReportingAlways, PTL
=============================================================================
