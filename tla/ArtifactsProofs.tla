-------------------------- MODULE ArtifactsProofs --------------------------
(***************************************************************************)
(* Proofs about the artifacts of builds, for any builds, number of files,  *)
(* retention policies and downloads: an artifact people can download has   *)
(* its file, a full cleanup spares the records of releases, a kept outcome *)
(* is kept, and a single-use token serves one download.                    *)
(*                                                                         *)
(* None of the four is inductive.  The invariant Stored adds what the code *)
(* relies on without saying so: the sweep only holds rows it has failed    *)
(* before, a file not reserved yet has no row, the builds a retention pass *)
(* still holds have ended and had no outcome its policy keeps, and a token *)
(* that served a download is used or gone for good.                        *)
(***************************************************************************)
EXTENDS Artifacts, FiniteSetTheorems, TLAPS

Statuses == Outcomes \cup {"running", "expired", "deleted"}
BuildRecords == [status : Statuses, from : Outcomes \cup {"none"}, outcome : Outcomes \cup {"none"}]
Rows == [state : {"none", "pending", "available", "failed", "gone"},
         why : {"none", "aborted", "reservation expired"},
         age : {"fresh", "late", "overdue"},
         due : {"never", "no", "yes"}]
Uploads == [pc : {"idle", "reserved", "putting", "stored", "aborting", "over", "done"},
            i : 1..Files]
PassRecords == [pc : {"idle", "load", "next", "files", "mark"},
                policy : Policies \cup {IdlePass.policy},
                builds : SUBSET Builds, arts : SUBSET Arts, cur : Builds \cup {"none"}]
Tokens == [state : {"none", "row", "gone"}, used : BOOLEAN, revoked : BOOLEAN,
           of : Arts \cup {<<>>}]

StoredShape ==
    /\ build \in [Builds -> BuildRecords]
    /\ rel \in [Builds -> {"none", "active", "over", "lost"}]
    /\ art \in [Arts -> Rows]
    /\ file \in SUBSET Arts
    /\ up \in [Builds -> Uploads]
    /\ sweep \in SUBSET Arts
    /\ ret \in PassRecords
    /\ expiry \in [list : SUBSET Arts, cur : SUBSET Arts]
    /\ token \in Tokens
    /\ dl \in [Downloads -> {"idle", "valid", "served", "refused"}]
    /\ cleaned \in SUBSET Arts

(* Rows and files: what an upload in flight, and the sweep, may rely on. *)
Backed(a) == a \in file \cup cleaned
Unreserved(b, j) == j > up[b].i \/ (j = up[b].i /\ up[b].pc = "idle")
UploadsOK ==
    /\ \A a \in Arts : art[a].state = "available" => Backed(a)
    /\ \A b \in Builds : up[b].pc = "stored" /\ art[Cur(b)].state = "pending" => Backed(Cur(b))
    /\ \A a \in sweep : art[a].state \in {"failed", "gone"}
    /\ \A b \in Builds, j \in 1..Files : Unreserved(b, j) => art[<<b, j>>].state = "none"

(* The three shapes of a build: under way, ended, or expired by retention. *)
OutcomeOK(b) ==
    /\ build[b].status = "running" => build[b].from = "none"
    /\ build[b].status \in Outcomes => build[b].from = "none" /\ build[b].outcome = build[b].status
    /\ build[b].status = "expired" => build[b].from \in Outcomes /\ build[b].outcome = build[b].from

(* A build the retention pass still holds has ended, and its outcome is none  *)
(* the policy of the pass keeps.                                              *)
Spared(b) ==
    /\ build[b].status \in Outcomes \cup {"expired"}
    /\ build[b].outcome \notin ret.policy.keep
InHand == ret.pc \in {"files", "mark"}
RetentionOK ==
    /\ \A b \in Builds : OutcomeOK(b) /\ rel[b] # "lost"
    /\ ret.pc = "idle" => ret.builds = {}
    /\ \A b \in ret.builds : Spared(b)
    /\ InHand => ret.cur \in Builds /\ Spared(ret.cur) /\ ret.cur \notin ret.builds

(* A download was served by the one claim of the token. *)
TokenOK ==
    /\ \A d, e \in Downloads : dl[d] = "served" /\ dl[e] = "served" => d = e
    /\ \A d \in Downloads : dl[d] = "served" => token.state = "gone" \/ (token.state = "row" /\ token.used)
    /\ token.state = "none" => ~token.used

Stored == StoredShape /\ UploadsOK /\ RetentionOK /\ TokenOK


-----------------------------------------------------------------------------
(* The artifacts of a build are its files by number. *)
LEMMA ArtsAre ==
    /\ \A b \in Builds, j \in 1..Files : <<b, j>> \in Arts
    /\ \A a \in Arts : a = <<a[1], a[2]>> /\ a[1] \in Builds /\ a[2] \in 1..Files
BY DEF Arts

(* What moving the upload loop of one build does to the loops. *)
LEMMA GotoFacts ==
    ASSUME StoredShape, NEW b \in Builds, NEW pc, Goto(b, pc),
           pc \in {"idle", "reserved", "putting", "stored", "aborting", "over", "done"}
    PROVE  /\ up' \in [Builds -> Uploads]
           /\ up'[b].pc = pc /\ up'[b].i = up[b].i
           /\ \A c \in Builds : c # b => up'[c] = up[c]
           /\ \A c \in Builds : Cur(c)' = Cur(c)
BY DEF StoredShape, Uploads, Goto, Cur

(* What going on to the next file does to the loops. *)
LEMMA NextFileFacts ==
    ASSUME StoredShape, NEW b \in Builds, NextFile(b)
    PROVE  /\ up' \in [Builds -> Uploads]
           /\ \/ up'[b].pc = "done" /\ up'[b].i = up[b].i
              \/ up'[b].pc = "idle" /\ up'[b].i = up[b].i + 1
           /\ \A c \in Builds : c # b => up'[c] = up[c]
<1> DEFINE n == IF up[b].i = Files THEN [up[b] EXCEPT !.pc = "done"]
                ELSE [pc |-> "idle", i |-> up[b].i + 1]
<1>1. up[b] \in Uploads /\ up \in [Builds -> Uploads]
  BY DEF StoredShape
<1>2. up' = [up EXCEPT ![b] = n]
  BY DEF NextFile
<1>3. n \in Uploads
  BY <1>1, ArtifactsAssumption DEF Uploads
<1>4. \/ n.pc = "done" /\ n.i = up[b].i
      \/ n.pc = "idle" /\ n.i = up[b].i + 1
  BY <1>1 DEF Uploads
<1> HIDE DEF n
<1> QED  BY <1>1, <1>2, <1>3, <1>4

(* The artifact an upload loop is at. *)
LEMMA CurIs == ASSUME StoredShape, NEW b \in Builds PROVE Cur(b) \in Arts /\ Cur(b)[1] = b
<1>1. up[b].i \in 1..Files
  BY DEF StoredShape, Uploads
<1> QED  BY <1>1 DEF Cur, Arts

(* What deleting rows does: rows of S are gone, the others are left. *)
LEMMA DropRowsFacts ==
    ASSUME StoredShape, NEW S, DropRows(S)
    PROVE  /\ art' \in [Arts -> Rows] /\ token' \in Tokens
           /\ \A a \in Arts : art'[a] = art[a] \/ (HasRow(a) /\ art'[a].state = "gone")
           /\ token' = token \/ token' = GoneToken
<1>1. GoneToken \in Tokens /\ GoneToken.state = "gone"
  BY DEF GoneToken, NoToken, Tokens
<1>2. [NoRow EXCEPT !.state = "gone"] \in Rows /\ [NoRow EXCEPT !.state = "gone"].state = "gone"
  BY DEF NoRow, Rows
<1>3. token' = token \/ token' = GoneToken
  BY DEF DropRows
<1>4. token' \in Tokens
  BY <1>1, <1>3 DEF StoredShape
<1>5. \A a \in Arts : art'[a] = art[a] \/ (HasRow(a) /\ art'[a] = [NoRow EXCEPT !.state = "gone"])
  BY DEF DropRows
<1>6. art' \in [Arts -> Rows]
  BY <1>2 DEF DropRows, StoredShape
<1> QED  BY <1>2, <1>3, <1>4, <1>5, <1>6

(* What giving one row other fields does to the rows. *)
LEMMA SetRow ==
    ASSUME StoredShape, NEW a \in Arts, NEW r \in Rows, art' = [art EXCEPT ![a] = r]
    PROVE  art' \in [Arts -> Rows] /\ art'[a] = r /\ \A c \in Arts : c # a => art'[c] = art[c]
BY DEF StoredShape


(* Each part of the invariant is about some of the variables only. *)
LEMMA UploadsFrame == UploadsOK /\ UNCHANGED <<art, file, up, sweep, cleaned>> => UploadsOK'
BY DEF UploadsOK, Backed, Unreserved, Cur

(* The same for what the retention pass holds. *)
LEMMA RetentionFrame == RetentionOK /\ UNCHANGED <<build, rel, ret>> => RetentionOK'
BY DEF RetentionOK, OutcomeOK, Spared, InHand

(* The same for the token and the downloads. *)
LEMMA TokenFrame == TokenOK /\ UNCHANGED tokVars => TokenOK'
BY DEF TokenOK, tokVars

(* A step that moves one loop to a place that promises nothing, and leaves    *)
(* the rows and files alone, keeps what uploads and sweep rely on.            *)
LEMMA MovedOn ==
    ASSUME StoredShape, UploadsOK, NEW b \in Builds, NEW pc,
           pc \in {"reserved", "putting", "aborting", "over", "done"},
           Goto(b, pc), UNCHANGED <<art, file, sweep, cleaned>>
    PROVE  UploadsOK'
<1>1. /\ up'[b].pc = pc /\ up'[b].i = up[b].i
      /\ \A c \in Builds : c # b => up'[c] = up[c]
      /\ \A c \in Builds : Cur(c)' = Cur(c)
  BY GotoFacts
<1>2. (\A a \in Arts : art[a].state = "available" => Backed(a))'
  BY DEF UploadsOK, Backed
<1>3. (\A c \in Builds : up[c].pc = "stored" /\ art[Cur(c)].state = "pending" => Backed(Cur(c)))'
  BY <1>1 DEF UploadsOK, Backed
<1>4. (\A a \in sweep : art[a].state \in {"failed", "gone"})'
  BY DEF UploadsOK
<1>5. (\A c \in Builds, j \in 1..Files : Unreserved(c, j) => art[<<c, j>>].state = "none")'
  BY <1>1 DEF UploadsOK, Unreserved
<1> QED  BY <1>2, <1>3, <1>4, <1>5 DEF UploadsOK

(* What a step does to one row and its file never touches a row that is not   *)
(* reserved yet: the condition under which such a step keeps UploadsOK, while *)
(* the loops and the sweep stay where they are.                               *)
LEMMA RowsMoved ==
    ASSUME StoredShape, UploadsOK, UNCHANGED up, sweep' \subseteq Arts,
           \A a \in Arts : art[a].state = "none" => art'[a].state = "none",
           \A a \in Arts : art'[a].state \in {"pending", "available"} => art'[a].state = art[a].state,
           \A a \in Arts : art'[a].state \in {"pending", "available"} /\ Backed(a) => Backed(a)',
           \A a \in sweep' : art'[a].state \in {"failed", "gone"}
    PROVE  UploadsOK'
<1>1. \A c \in Builds : Cur(c)' = Cur(c) /\ Cur(c) \in Arts
  BY CurIs DEF Cur
<1>2. (\A a \in Arts : art[a].state = "available" => Backed(a))'
  BY DEF UploadsOK
<1>3. (\A c \in Builds : up[c].pc = "stored" /\ art[Cur(c)].state = "pending" => Backed(Cur(c)))'
  <2> SUFFICES ASSUME NEW c \in Builds, up[c].pc = "stored", art'[Cur(c)].state = "pending"
               PROVE  Backed(Cur(c))'
    BY <1>1 DEF Backed
  <2>1. art[Cur(c)].state = "pending"
    BY <1>1
  <2>2. Backed(Cur(c))
    BY <2>1 DEF UploadsOK
  <2>3. \A a \in Arts : a = Cur(c) => Backed(a)'
    BY <2>2
  <2> QED  BY <2>3, <1>1 DEF Backed
<1>4. (\A a \in sweep : art[a].state \in {"failed", "gone"})'
  OBVIOUS
<1>5. (\A c \in Builds, j \in 1..Files : Unreserved(c, j) => art[<<c, j>>].state = "none")'
  BY ArtsAre DEF UploadsOK, Unreserved
<1> QED  BY <1>2, <1>3, <1>4, <1>5 DEF UploadsOK


-----------------------------------------------------------------------------
(* The runner's upload loop, the end of a build and its releases keep the     *)
(* invariant (artifacts.rs create_artifact, complete_artifact,                *)
(* abort_artifact, and the loop that calls them).                             *)
LEMMA RunnerStep ==
    ASSUME Stored, NEW b \in Builds, Runner(b)
    PROVE  Stored'
<1> USE DEF passVars, tokVars, upVars
<1>s. StoredShape /\ UploadsOK /\ RetentionOK /\ TokenOK
  BY DEF Stored
<1>t. Cur(b) \in Arts /\ Cur(b)[1] = b
  BY <1>s, CurIs
<1>1. ASSUME NEW x \in BOOLEAN, Reserve(b, x) PROVE Stored'
  <2> DEFINE r == [NoRow EXCEPT !.state = "pending", !.due = IF x THEN "no" ELSE "never"]
  <2>1. r \in Rows /\ r.state = "pending"
    BY DEF NoRow, Rows
  <2>2. art' = [art EXCEPT ![Cur(b)] = r] /\ Goto(b, "reserved")
    BY <1>1 DEF Reserve
  <2> HIDE DEF r
  <2>3. /\ art' \in [Arts -> Rows] /\ art'[Cur(b)] = r
        /\ \A c \in Arts : c # Cur(b) => art'[c] = art[c]
    BY <1>s, <1>t, <2>1, <2>2, SetRow
  <2>4. /\ up' \in [Builds -> Uploads] /\ up'[b].pc = "reserved" /\ up'[b].i = up[b].i
        /\ \A c \in Builds : c # b => up'[c] = up[c]
        /\ \A c \in Builds : Cur(c)' = Cur(c)
    BY <1>s, <2>2, GotoFacts
  <2>5. art[Cur(b)].state = "none"
    <3>1. Unreserved(b, up[b].i) /\ up[b].i \in 1..Files
      BY <1>1, <1>s DEF Reserve, Unreserved, StoredShape, Uploads
    <3> QED  BY <3>1, <1>s DEF UploadsOK, Cur
  <2>6. UploadsOK'
    <3>1. (\A a \in Arts : art[a].state = "available" => Backed(a))'
      BY <1>1, <1>s, <2>1, <2>3 DEF UploadsOK, Backed, Reserve
    <3>2. (\A c \in Builds : up[c].pc = "stored" /\ art[Cur(c)].state = "pending" => Backed(Cur(c)))'
      <4> SUFFICES ASSUME NEW c \in Builds, up'[c].pc = "stored", art'[Cur(c)].state = "pending"
                   PROVE  Cur(c) \in file \cup cleaned
        BY <1>1, <2>4 DEF Backed, Reserve
      <4>1. c # b /\ up[c].pc = "stored"
        BY <2>4
      <4>2. Cur(c) # Cur(b) /\ Cur(c) \in Arts
        BY <1>s, <1>t, <4>1, CurIs
      <4> QED  BY <1>s, <2>3, <4>1, <4>2 DEF UploadsOK, Backed
    <3>3. (\A a \in sweep : art[a].state \in {"failed", "gone"})'
      BY <1>1, <1>s, <2>3, <2>5 DEF UploadsOK, Reserve, StoredShape
    <3>4. (\A c \in Builds, j \in 1..Files : Unreserved(c, j) => art[<<c, j>>].state = "none")'
      <4> SUFFICES ASSUME NEW c \in Builds, NEW j \in 1..Files, Unreserved(c, j)'
                   PROVE  art'[<<c, j>>].state = "none"
        OBVIOUS
      <4>1. Unreserved(c, j) /\ <<c, j>> # Cur(b)
        BY <1>s, <2>4 DEF Unreserved, Cur, StoredShape, Uploads
      <4> QED  BY <1>s, <2>3, <4>1, ArtsAre DEF UploadsOK
    <3> QED  BY <3>1, <3>2, <3>3, <3>4 DEF UploadsOK
  <2> QED  BY <1>1, <1>s, <2>3, <2>4, <2>6, RetentionFrame, TokenFrame
           DEF Stored, StoredShape, Reserve
<1>2. ASSUME NEW x \in BOOLEAN, Complete(b, x) PROVE Stored'
  <2>1. CASE Finishable(Cur(b)) /\ art' = [art EXCEPT ![Cur(b)].state = "available"]
             /\ (IF x THEN NextFile(b) ELSE Goto(b, "aborting")) /\ UNCHANGED file
    <3> DEFINE r == [art[Cur(b)] EXCEPT !.state = "available"]
    <3>1. r \in Rows /\ r.state = "available"
      BY <1>s, <1>t DEF StoredShape, Rows
    <3>2. art' = [art EXCEPT ![Cur(b)] = r]
      BY <2>1
    <3> HIDE DEF r
    <3>3. /\ art' \in [Arts -> Rows] /\ art'[Cur(b)] = r
          /\ \A c \in Arts : c # Cur(b) => art'[c] = art[c]
      BY <1>s, <1>t, <3>1, <3>2, SetRow
    <3>4. /\ up' \in [Builds -> Uploads]
          /\ \/ up'[b].pc \in {"done", "aborting"} /\ up'[b].i = up[b].i
             \/ up'[b].pc = "idle" /\ up'[b].i = up[b].i + 1
          /\ \A c \in Builds : c # b => up'[c] = up[c]
      BY <1>s, <2>1, GotoFacts, NextFileFacts
    <3>5. UploadsOK'
      <4>1. Cur(b) \in file \cup cleaned
        BY <1>2, <1>s, <2>1 DEF Complete, Finishable, UploadsOK, Backed
      <4>2. (\A a \in Arts : art[a].state = "available" => Backed(a))'
        BY <1>2, <1>s, <2>1, <3>3, <4>1 DEF UploadsOK, Backed, Complete
      <4>3. (\A c \in Builds : up[c].pc = "stored" /\ art[Cur(c)].state = "pending" => Backed(Cur(c)))'
        <5> SUFFICES ASSUME NEW c \in Builds, up'[c].pc = "stored", art'[Cur(c)'].state = "pending"
                     PROVE  Cur(c)' \in file' \cup cleaned'
          BY DEF Backed
        <5>1. c # b /\ up'[c] = up[c]
          BY <3>4
        <5>2. Cur(c)' = Cur(c) /\ Cur(c) # Cur(b) /\ Cur(c) \in Arts
          BY <1>s, <1>t, <5>1, CurIs DEF Cur
        <5> QED  BY <1>2, <1>s, <2>1, <3>3, <5>1, <5>2 DEF UploadsOK, Backed, Complete
      <4>4. (\A a \in sweep : art[a].state \in {"failed", "gone"})'
        BY <1>2, <1>s, <2>1, <3>3 DEF UploadsOK, Complete, StoredShape, Finishable
      <4>5. (\A c \in Builds, j \in 1..Files : Unreserved(c, j) => art[<<c, j>>].state = "none")'
        <5> SUFFICES ASSUME NEW c \in Builds, NEW j \in 1..Files, Unreserved(c, j)'
                     PROVE  art'[<<c, j>>].state = "none"
          OBVIOUS
        <5>1. Unreserved(c, j) /\ <<c, j>> # Cur(b)
          BY <1>s, <3>4 DEF Unreserved, Cur, StoredShape, Uploads
        <5> QED  BY <1>s, <3>3, <5>1, ArtsAre DEF UploadsOK
      <4> QED  BY <4>2, <4>3, <4>4, <4>5 DEF UploadsOK
    <3> QED  BY <1>2, <1>s, <2>1, <3>3, <3>4, <3>5, RetentionFrame, TokenFrame
             DEF Stored, StoredShape, Complete
  <2>2. CASE ~Finishable(Cur(b)) /\ UNCHANGED art /\ Goto(b, "aborting")
             /\ (UNCHANGED file \/ (Abandoned(Cur(b)) /\ file' = file \ {Cur(b)}))
    <3>1. /\ up' \in [Builds -> Uploads] /\ up'[b].pc = "aborting" /\ up'[b].i = up[b].i
          /\ \A c \in Builds : c # b => up'[c] = up[c]
          /\ \A c \in Builds : Cur(c)' = Cur(c)
      BY <1>s, <2>2, GotoFacts
    <3>2. \A a \in Arts : art[a].state \in {"pending", "available"} /\ Backed(a) => Backed(a)'
      BY <1>2, <2>2 DEF Backed, Complete, Abandoned
    <3>3. UploadsOK'
      <4>2. (\A a \in Arts : art[a].state = "available" => Backed(a))'
        BY <1>2, <1>s, <2>2, <3>2 DEF UploadsOK
      <4>3. (\A c \in Builds : up[c].pc = "stored" /\ art[Cur(c)].state = "pending" => Backed(Cur(c)))'
        <5> SUFFICES ASSUME NEW c \in Builds, up'[c].pc = "stored", art[Cur(c)].state = "pending"
                     PROVE  Cur(c) \in file' \cup cleaned'
          BY <2>2, <3>1 DEF Backed
        <5>1. up[c].pc = "stored" /\ Cur(c) \in Arts
          BY <3>1, <1>s, CurIs
        <5> QED  BY <1>s, <3>2, <5>1 DEF UploadsOK, Backed
      <4>4. (\A a \in sweep : art[a].state \in {"failed", "gone"})'
        BY <1>2, <1>s, <2>2 DEF UploadsOK, Complete
      <4>5. (\A c \in Builds, j \in 1..Files : Unreserved(c, j) => art[<<c, j>>].state = "none")'
        BY <1>s, <2>2, <3>1 DEF UploadsOK, Unreserved
      <4> QED  BY <4>2, <4>3, <4>4, <4>5 DEF UploadsOK
    <3> QED  BY <1>2, <1>s, <2>2, <3>1, <3>3, RetentionFrame, TokenFrame
             DEF Stored, StoredShape, Complete
  <2> QED  BY <1>2, <2>1, <2>2 DEF Complete
<1>3. ASSUME NEW x \in BOOLEAN, Abort(b, x) PROVE Stored'
  <2>1. Goto(b, "over") /\ UNCHANGED <<file, build, rel, passVars, tokVars, cleaned>>
    BY <1>3 DEF Abort
  <2>2. /\ up' \in [Builds -> Uploads] /\ up'[b].pc = "over" /\ up'[b].i = up[b].i
        /\ \A c \in Builds : c # b => up'[c] = up[c]
        /\ \A c \in Builds : Cur(c)' = Cur(c)
    BY <1>s, <2>1, GotoFacts
  <2>3. CASE UNCHANGED art
    <3>1. UploadsOK'
      BY <1>s, <2>1, <2>3, MovedOn
    <3> QED  BY <1>s, <2>1, <2>2, <2>3, <3>1, RetentionFrame, TokenFrame DEF Stored, StoredShape
  <2>4. CASE Finishable(Cur(b)) /\ art' = [art EXCEPT ![Cur(b)].state = "failed", ![Cur(b)].why = "aborted"]
    <3> DEFINE r == [art[Cur(b)] EXCEPT !.state = "failed", !.why = "aborted"]
    <3>1. r \in Rows /\ r.state = "failed"
      BY <1>s, <1>t DEF StoredShape, Rows
    <3>2. art' = [art EXCEPT ![Cur(b)] = r]
      BY <2>4, <1>s, <1>t DEF StoredShape
    <3> HIDE DEF r
    <3>3. /\ art' \in [Arts -> Rows] /\ art'[Cur(b)] = r
          /\ \A c \in Arts : c # Cur(b) => art'[c] = art[c]
      BY <1>s, <1>t, <3>1, <3>2, SetRow
    <3>4. UploadsOK'
      <4>2. (\A a \in Arts : art[a].state = "available" => Backed(a))'
        BY <1>s, <2>1, <3>1, <3>3 DEF UploadsOK, Backed
      <4>3. (\A c \in Builds : up[c].pc = "stored" /\ art[Cur(c)].state = "pending" => Backed(Cur(c)))'
        <5> SUFFICES ASSUME NEW c \in Builds, up'[c].pc = "stored", art'[Cur(c)].state = "pending"
                     PROVE  Cur(c) \in file \cup cleaned
          BY <2>1, <2>2 DEF Backed
        <5>1. up[c].pc = "stored" /\ Cur(c) \in Arts
          BY <2>2, <1>s, CurIs
        <5> QED  BY <1>s, <3>1, <3>3, <5>1 DEF UploadsOK, Backed
      <4>4. (\A a \in sweep : art[a].state \in {"failed", "gone"})'
        BY <1>s, <2>1, <3>1, <3>3 DEF UploadsOK, StoredShape
      <4>5. (\A c \in Builds, j \in 1..Files : Unreserved(c, j) => art[<<c, j>>].state = "none")'
        <5> SUFFICES ASSUME NEW c \in Builds, NEW j \in 1..Files, Unreserved(c, j)'
                     PROVE  art'[<<c, j>>].state = "none"
          OBVIOUS
        <5>1. Unreserved(c, j)
          BY <2>2 DEF Unreserved
        <5>2. art[<<c, j>>].state = "none"
          BY <5>1, <1>s DEF UploadsOK
        <5> QED  BY <2>4, <3>3, <5>2, ArtsAre DEF Finishable
      <4> QED  BY <4>2, <4>3, <4>4, <4>5 DEF UploadsOK
    <3> QED  BY <1>s, <2>1, <2>2, <3>3, <3>4, RetentionFrame, TokenFrame DEF Stored, StoredShape
  <2> QED  BY <1>3, <2>3, <2>4 DEF Abort
<1>4. CASE PutEnd(b)
  <2>1. PICK pc \in {"stored", "aborting"} :
           Goto(b, pc) /\ (pc = "stored" => file' = file \cup {Cur(b)}) /\ (pc # "stored" => UNCHANGED file)
    BY <1>4 DEF PutEnd
  <2>2. /\ up' \in [Builds -> Uploads] /\ up'[b].pc = pc /\ up'[b].i = up[b].i
        /\ \A c \in Builds : c # b => up'[c] = up[c]
        /\ \A c \in Builds : Cur(c)' = Cur(c)
    BY <1>s, <2>1, GotoFacts
  <2>3. UploadsOK'
    <3>2. (\A a \in Arts : art[a].state = "available" => Backed(a))'
      BY <1>4, <1>s, <2>1 DEF UploadsOK, Backed, PutEnd
    <3>3. (\A c \in Builds : up[c].pc = "stored" /\ art[Cur(c)].state = "pending" => Backed(Cur(c)))'
      <4> SUFFICES ASSUME NEW c \in Builds, up'[c].pc = "stored", art[Cur(c)].state = "pending"
                   PROVE  Cur(c) \in file' \cup cleaned
        BY <1>4, <2>2 DEF Backed, PutEnd
      <4>1. CASE c = b
        BY <2>1, <2>2, <4>1
      <4>2. CASE c # b
        BY <1>s, <2>1, <2>2, <4>2 DEF UploadsOK, Backed
      <4> QED  BY <4>1, <4>2
    <3>4. (\A a \in sweep : art[a].state \in {"failed", "gone"})'
      BY <1>4, <1>s DEF UploadsOK, PutEnd
    <3>5. (\A c \in Builds, j \in 1..Files : Unreserved(c, j) => art[<<c, j>>].state = "none")'
      BY <1>4, <1>s, <2>1, <2>2 DEF UploadsOK, Unreserved, PutEnd
    <3> QED  BY <3>2, <3>3, <3>4, <3>5 DEF UploadsOK
  <2>4. file' \in SUBSET Arts
    BY <1>s, <1>t, <2>1 DEF StoredShape
  <2> QED  BY <1>4, <1>s, <2>2, <2>3, <2>4, RetentionFrame, TokenFrame
           DEF Stored, StoredShape, PutEnd
<1>5. CASE ReserveRefused(b) \/ PutStart(b) \/ CompleteLost(b) \/ RunnerDies(b)
  <2>1. PICK pc \in {"putting", "aborting", "over"} : Goto(b, pc)
    BY <1>5 DEF ReserveRefused, PutStart, CompleteLost, RunnerDies
  <2>2. UNCHANGED <<build, rel, art, file, passVars, tokVars, cleaned>>
    BY <1>5 DEF ReserveRefused, PutStart, CompleteLost, RunnerDies
  <2>3. UploadsOK' /\ up' \in [Builds -> Uploads]
    BY <1>s, <2>1, <2>2, MovedOn, GotoFacts
  <2> QED  BY <1>s, <2>2, <2>3, RetentionFrame, TokenFrame DEF Stored, StoredShape
<1>6. ASSUME NEW o \in Outcomes, BuildEnds(b, o) PROVE Stored'
  <2> DEFINE n == [build[b] EXCEPT !.status = o, !.outcome = o]
  <2>1. n \in BuildRecords /\ n.status = o /\ n.outcome = o /\ n.from = build[b].from
    BY <1>s, <1>6 DEF StoredShape, BuildRecords, Statuses
  <2>2. build' = [build EXCEPT ![b] = n] /\ build[b].status = "running"
    BY <1>6, <1>s DEF BuildEnds, StoredShape
  <2> HIDE DEF n
  <2>3. /\ build' \in [Builds -> BuildRecords] /\ build'[b] = n
        /\ \A c \in Builds : c # b => build'[c] = build[c]
    BY <1>s, <2>1, <2>2 DEF StoredShape
  <2>4. UNCHANGED <<rel, ret>>
    BY <1>6 DEF BuildEnds
  <2>5. RetentionOK'
    <3>1. \A c \in Builds : OutcomeOK(c)' /\ rel'[c] # "lost"
      BY <1>6, <1>s, <2>1, <2>2, <2>3, <2>4 DEF RetentionOK, OutcomeOK, Outcomes
    <3>2. \A c \in Builds : Spared(c) => Spared(c)'
      BY <2>2, <2>3, <2>4 DEF Spared, Outcomes
    <3>3. \A c \in ret.builds : Spared(c)'
      BY <1>s, <3>2 DEF RetentionOK, StoredShape, PassRecords
    <3> QED  BY <1>s, <2>4, <3>1, <3>2, <3>3 DEF RetentionOK, InHand, Spared
  <2> QED  BY <1>6, <1>s, <2>3, <2>5, UploadsFrame, TokenFrame DEF Stored, StoredShape, BuildEnds
<1>7. CASE ReleaseStart(b) \/ ReleaseEnd(b)
  <2>1. rel' \in [Builds -> {"none", "active", "over", "lost"}] /\ (\A c \in Builds : rel[c] # "lost" => rel'[c] # "lost")
    BY <1>7, <1>s DEF ReleaseStart, ReleaseEnd, StoredShape
  <2>2. UNCHANGED <<build, ret, upVars, passVars, tokVars, cleaned>>
    BY <1>7 DEF ReleaseStart, ReleaseEnd
  <2>3. RetentionOK'
    BY <1>s, <2>1, <2>2 DEF RetentionOK, OutcomeOK, Spared, InHand
  <2> QED  BY <1>s, <2>1, <2>2, <2>3, UploadsFrame, TokenFrame DEF Stored, StoredShape
<1> QED  BY <1>1, <1>2, <1>3, <1>4, <1>5, <1>6, <1>7 DEF Runner


(* The sweep of stale reservations and the expiry of artifacts keep the       *)
(* invariant (background.rs sweep_stale_pending_artifacts,                    *)
(* expired_artifact_monitor).                                                 *)
LEMMA SweepStep ==
    ASSUME Stored,
           \/ SweepMark \/ ExpiryLoad
           \/ \E x \in BOOLEAN : ExpiryRow(x)
           \/ \E a \in Arts, x \in BOOLEAN : SweepDelete(a, x) \/ ExpiryFile(a, x)
    PROVE  Stored'
<1> USE DEF passVars, tokVars, upVars
<1>s. StoredShape /\ UploadsOK /\ RetentionOK /\ TokenOK
  BY DEF Stored
<1>1. CASE SweepMark
  <2>1. \A a \in Arts : IF a \in Stale
                        THEN art'[a] = [art[a] EXCEPT !.state = "failed", !.why = "reservation expired"]
                        ELSE art'[a] = art[a]
    BY <1>1 DEF SweepMark
  <2>2. \A a \in Arts : art[a] \in Rows
    BY <1>s DEF StoredShape
  <2>3. \A a \in Arts : art'[a] \in Rows /\ (a \in Stale => art'[a].state = "failed")
    BY <2>1, <2>2 DEF Rows
  <2>4. art' \in [Arts -> Rows] /\ sweep' \in SUBSET Arts
    BY <1>1, <2>3 DEF SweepMark, Stale
  <2>5. UploadsOK'
    <3>1. \A a \in Arts : art[a].state = "none" => art'[a].state = "none"
      BY <2>1 DEF Stale
    <3>2. \A a \in Arts : art'[a].state \in {"pending", "available"} => art'[a].state = art[a].state
      BY <2>1, <2>3
    <3>3. \A a \in Arts : art'[a].state \in {"pending", "available"} /\ Backed(a) => Backed(a)'
      BY <1>1 DEF SweepMark, Backed
    <3>4. \A a \in sweep' : art'[a].state \in {"failed", "gone"}
      BY <1>1, <2>3, <2>4 DEF SweepMark
    <3> QED  BY <1>1, <1>s, <2>4, <3>1, <3>2, <3>3, <3>4, RowsMoved DEF SweepMark
  <2> QED  BY <1>1, <1>s, <2>4, <2>5, RetentionFrame, TokenFrame DEF Stored, StoredShape, SweepMark
<1>2. ASSUME NEW a \in Arts, NEW x \in BOOLEAN, SweepDelete(a, x) PROVE Stored'
  <2>1. art[a].state \in {"failed", "gone"}
    BY <1>2, <1>s DEF SweepDelete, UploadsOK
  <2>2. \A c \in Arts : art[c].state \in {"pending", "available"} /\ Backed(c) => Backed(c)'
    BY <1>2, <2>1 DEF SweepDelete, Backed
  <2>3. sweep' \subseteq sweep /\ sweep' \subseteq Arts /\ file' \subseteq Arts /\ UNCHANGED <<art, up>>
    BY <1>2, <1>s DEF SweepDelete, StoredShape
  <2>4. UploadsOK'
    <3>1. \A c \in sweep' : art'[c].state \in {"failed", "gone"}
      BY <1>s, <2>3 DEF UploadsOK
    <3> QED  BY <1>s, <2>2, <2>3, <3>1, RowsMoved
  <2> QED  BY <1>2, <1>s, <2>3, <2>4, RetentionFrame, TokenFrame DEF Stored, StoredShape, SweepDelete
<1>3. CASE ExpiryLoad
  <2>1. expiry' \in [list : SUBSET Arts, cur : SUBSET Arts]
    BY <1>3, <1>s DEF ExpiryLoad, StoredShape
  <2> QED  BY <1>3, <1>s, <2>1, UploadsFrame, RetentionFrame, TokenFrame
           DEF Stored, StoredShape, ExpiryLoad
<1>4. ASSUME NEW a \in Arts, NEW x \in BOOLEAN, ExpiryFile(a, x) PROVE Stored'
  <2>1. expiry' \in [list : SUBSET Arts, cur : SUBSET Arts]
    BY <1>4, <1>s DEF ExpiryFile, StoredShape
  <2>2. file' \subseteq Arts /\ cleaned' \subseteq Arts /\ UNCHANGED <<art, up, sweep>>
    BY <1>4, <1>s DEF ExpiryFile, StoredShape
  <2>3. \A c \in Arts : Backed(c) => Backed(c)'
    BY <1>4 DEF ExpiryFile, Backed
  <2>4. UploadsOK'
    BY <1>s, <2>2, <2>3, RowsMoved DEF UploadsOK, StoredShape
  <2> QED  BY <1>4, <1>s, <2>1, <2>2, <2>4, RetentionFrame, TokenFrame DEF Stored, StoredShape, ExpiryFile
<1>5. ASSUME NEW x \in BOOLEAN, ExpiryRow(x) PROVE Stored'
  <2>1. expiry' \in [list : SUBSET Arts, cur : SUBSET Arts]
    BY <1>5, <1>s DEF ExpiryRow, StoredShape
  <2>2. /\ art' \in [Arts -> Rows] /\ token' \in Tokens
        /\ \A a \in Arts : art'[a] = art[a] \/ (HasRow(a) /\ art'[a].state = "gone")
        /\ token' = token \/ token' = GoneToken
    BY <1>5, <1>s, DropRowsFacts DEF ExpiryRow, StoredShape
  <2>3. UNCHANGED <<build, rel, file, up, sweep, ret, dl, cleaned>>
    BY <1>5 DEF ExpiryRow
  <2>4. UploadsOK'
    BY <1>s, <2>2, <2>3, RowsMoved DEF HasRow, UploadsOK, Backed, StoredShape
  <2>5. TokenOK'
    BY <1>s, <2>2, <2>3 DEF TokenOK, GoneToken, NoToken
  <2> QED  BY <1>s, <2>1, <2>2, <2>3, <2>4, <2>5, RetentionFrame DEF Stored, StoredShape
<1> QED  BY <1>1, <1>2, <1>3, <1>4, <1>5

(* The retention cleanup of a project keeps the invariant (background.rs      *)
(* run_retention_cleanup), and so does a restart of the daemon.               *)
LEMMA RetentionStep ==
    ASSUME Stored,
           \/ RetentionLoad \/ RetentionNext \/ RetentionRows \/ RetentionMark \/ Restart
           \/ \E p \in Policies, S \in SUBSET Builds : RetentionPick(p, S)
           \/ \E a \in Arts, x \in BOOLEAN : RetentionFile(a, x)
    PROVE  Stored'
<1> USE DEF passVars, tokVars, upVars
<1>s. StoredShape /\ UploadsOK /\ RetentionOK /\ TokenOK
  BY DEF Stored
<1>t. ret \in PassRecords
  BY <1>s DEF StoredShape
<1>i. IdlePass \in PassRecords /\ IdlePass.pc = "idle" /\ IdlePass.builds = {}
  BY DEF IdlePass, PassRecords
<1>1. CASE RetentionLoad
  <2>1. /\ ret' \in PassRecords /\ ret'.pc = "next" /\ ret'.builds = ret.builds
        /\ ret'.policy = ret.policy /\ UNCHANGED <<build, rel>>
    BY <1>1, <1>t DEF RetentionLoad, PassRecords
  <2>2. RetentionOK'
    BY <1>s, <2>1 DEF RetentionOK, OutcomeOK, Spared, InHand
  <2> QED  BY <1>1, <1>s, <2>1, <2>2, UploadsFrame, TokenFrame DEF Stored, StoredShape, RetentionLoad
<1>2. CASE RetentionNext
  <2>1. CASE ret' = IdlePass
    <3>1. RetentionOK'
      BY <1>2, <1>s, <1>i, <2>1 DEF RetentionNext, RetentionOK, OutcomeOK, Spared, InHand
    <3> QED  BY <1>2, <1>s, <1>i, <2>1, <3>1, UploadsFrame, TokenFrame
             DEF Stored, StoredShape, RetentionNext
  <2>2. ASSUME NEW b \in ret.builds,
               ret' = [ret EXCEPT !.pc = "files", !.builds = ret.builds \ {b}, !.cur = b]
        PROVE  Stored'
    <3>1. /\ ret' \in PassRecords /\ ret'.pc = "files" /\ ret'.builds = ret.builds \ {b}
          /\ ret'.policy = ret.policy /\ ret'.cur = b /\ b \in Builds
      BY <1>t, <2>2 DEF PassRecords
    <3>2. RetentionOK'
      BY <1>2, <1>s, <2>2, <3>1 DEF RetentionNext, RetentionOK, OutcomeOK, Spared, InHand
    <3> QED  BY <1>2, <1>s, <3>1, <3>2, UploadsFrame, TokenFrame
             DEF Stored, StoredShape, RetentionNext
  <2> QED  BY <1>2, <2>1, <2>2 DEF RetentionNext
<1>3. ASSUME NEW p \in Policies, NEW S \in SUBSET Builds, RetentionPick(p, S) PROVE Stored'
  <2>1. /\ ret' \in PassRecords /\ ret'.pc = "load" /\ ret'.builds = S /\ ret'.policy = p
        /\ UNCHANGED <<build, rel>>
    BY <1>3, <1>i DEF RetentionPick, PassRecords, IdlePass
  <2>2. ASSUME NEW b \in S PROVE Spared(b)'
    <3>1. b \in Builds /\ OutcomeOK(b)
      BY <1>3, <2>2, <1>s DEF RetentionOK
    <3>2. build[b].status \in Outcomes \cup {"expired"} /\ OutcomeOf(b) \notin p.keep
      BY <1>3, <2>2 DEF RetentionPick, Eligible
    <3>3. OutcomeOf(b) = build[b].outcome
      BY <3>1, <3>2 DEF OutcomeOf, OutcomeOK, Outcomes
    <3> QED  BY <2>1, <3>2, <3>3 DEF Spared
  <2>3. RetentionOK'
    BY <1>s, <2>1, <2>2 DEF RetentionOK, OutcomeOK, InHand
  <2> QED  BY <1>3, <1>s, <2>1, <2>3, UploadsFrame, TokenFrame DEF Stored, StoredShape, RetentionPick
<1>4. ASSUME NEW a \in Arts, NEW x \in BOOLEAN, RetentionFile(a, x) PROVE Stored'
  <2>1. /\ ret' \in PassRecords /\ ret'.pc \in {"files", "next"} /\ ret'.builds = ret.builds
        /\ ret'.policy = ret.policy /\ ret'.cur = ret.cur /\ UNCHANGED <<build, rel>>
    BY <1>4, <1>t DEF RetentionFile, PassRecords
  <2>2. file' \subseteq Arts /\ cleaned' \subseteq Arts /\ UNCHANGED <<art, up, sweep>>
    BY <1>4, <1>s DEF RetentionFile, StoredShape
  <2>3. \A c \in Arts : Backed(c) => Backed(c)'
    BY <1>4 DEF RetentionFile, Backed
  <2>4. UploadsOK'
    BY <1>s, <2>2, <2>3, RowsMoved DEF UploadsOK, StoredShape
  <2>5. RetentionOK'
    BY <1>4, <1>s, <2>1 DEF RetentionOK, OutcomeOK, Spared, InHand, RetentionFile
  <2> QED  BY <1>4, <1>s, <2>1, <2>2, <2>4, <2>5, TokenFrame DEF Stored, StoredShape, RetentionFile
<1>5. CASE RetentionRows
  <2>1. PICK pc \in {"next", "mark"} : ret' = [ret EXCEPT !.pc = pc] /\ (pc = "mark" => UNCHANGED build)
    BY <1>5 DEF RetentionRows
  <2>2. /\ ret' \in PassRecords /\ ret'.pc = pc /\ ret'.builds = ret.builds
        /\ ret'.policy = ret.policy /\ ret'.cur = ret.cur
    BY <1>t, <2>1 DEF PassRecords
  <2>3. /\ art' \in [Arts -> Rows] /\ token' \in Tokens
        /\ \A a \in Arts : art'[a] = art[a] \/ (HasRow(a) /\ art'[a].state = "gone")
        /\ token' = token \/ token' = GoneToken
    BY <1>5, <1>s, DropRowsFacts DEF RetentionRows, StoredShape
  <2>4. UNCHANGED <<file, up, sweep, expiry, dl, cleaned>>
    BY <1>5 DEF RetentionRows
  <2>5. UploadsOK'
    BY <1>s, <2>3, <2>4, RowsMoved DEF HasRow, UploadsOK, Backed, StoredShape
  <2>6. TokenOK'
    BY <1>s, <2>3, <2>4 DEF TokenOK, GoneToken, NoToken
  <2>7. InHand /\ ret.cur \in Builds /\ ret.cur \notin ret.builds
    BY <1>5, <1>s DEF RetentionRows, RetentionOK, InHand
  <2>8. rel' = rel
    BY <1>5, <1>s DEF RetentionRows, Deletable, StoredShape
  <2>9. CASE build' = [build EXCEPT ![ret.cur].status = "deleted"]
    <3>1. /\ build' \in [Builds -> BuildRecords] /\ build'[ret.cur].status = "deleted"
          /\ \A c \in Builds : c # ret.cur => build'[c] = build[c]
      BY <1>s, <2>7, <2>9 DEF StoredShape, BuildRecords, Statuses
    <3>2. \A c \in Builds : OutcomeOK(c)'
      BY <1>s, <3>1 DEF RetentionOK, OutcomeOK, Outcomes
    <3>3. \A c \in ret.builds : Spared(c)'
      BY <1>s, <1>t, <2>2, <2>7, <3>1 DEF RetentionOK, Spared, PassRecords
    <3>4. pc = "next" \/ UNCHANGED build
      BY <2>1
    <3>5. pc = "mark" => Spared(ret.cur)'
      BY <1>s, <2>2, <2>7, <3>4 DEF RetentionOK, Spared
    <3>6. RetentionOK'
      BY <1>s, <2>2, <2>7, <2>8, <3>2, <3>3, <3>5 DEF RetentionOK, InHand, Spared
    <3> QED  BY <1>s, <2>2, <2>3, <2>4, <2>5, <2>6, <2>8, <3>1, <3>6 DEF Stored, StoredShape
  <2>10. CASE UNCHANGED build
    <3>1. RetentionOK'
      BY <1>s, <2>2, <2>7, <2>8, <2>10 DEF RetentionOK, OutcomeOK, InHand, Spared
    <3> QED  BY <1>s, <2>2, <2>3, <2>4, <2>5, <2>6, <2>8, <2>10, <3>1 DEF Stored, StoredShape
  <2> QED  BY <1>5, <2>9, <2>10 DEF RetentionRows
<1>6. CASE RetentionMark
  <2>1. /\ ret' \in PassRecords /\ ret'.pc = "next" /\ ret'.builds = ret.builds
        /\ ret'.policy = ret.policy
    BY <1>6, <1>t DEF RetentionMark, PassRecords
  <2>2. ret.cur \in Builds /\ Spared(ret.cur) /\ ret.cur \notin ret.builds /\ OutcomeOK(ret.cur)
    BY <1>6, <1>s DEF RetentionMark, RetentionOK, InHand
  <2> DEFINE n == MarkExpired(ret.cur)
  <2>3. n \in BuildRecords /\ n.status = "expired" /\ n.outcome = build[ret.cur].outcome
        /\ n.from = n.outcome /\ n.from \in Outcomes
    BY <1>s, <2>2 DEF MarkExpired, Spared, OutcomeOK, StoredShape, BuildRecords, Statuses, Outcomes
  <2>4. build' = [build EXCEPT ![ret.cur] = n] /\ UNCHANGED rel
    BY <1>6 DEF RetentionMark
  <2> HIDE DEF n
  <2>5. /\ build' \in [Builds -> BuildRecords] /\ build'[ret.cur] = n
        /\ \A c \in Builds : c # ret.cur => build'[c] = build[c]
    BY <1>s, <2>2, <2>3, <2>4 DEF StoredShape
  <2>6. \A c \in Builds : OutcomeOK(c)'
    BY <1>s, <2>3, <2>5 DEF RetentionOK, OutcomeOK, Outcomes
  <2>7. \A c \in ret.builds : Spared(c)'
    BY <1>s, <1>t, <2>1, <2>2, <2>5 DEF RetentionOK, Spared, PassRecords
  <2>8. RetentionOK'
    BY <1>s, <2>1, <2>4, <2>6, <2>7 DEF RetentionOK, InHand, Spared
  <2> QED  BY <1>6, <1>s, <2>1, <2>5, <2>8, UploadsFrame, TokenFrame DEF Stored, StoredShape, RetentionMark
<1>7. CASE Restart
  <2>1. ret' = IdlePass /\ sweep' = {} /\ expiry' = [list |-> {}, cur |-> {}]
        /\ UNCHANGED <<build, rel, art, file, up, token, cleaned>>
    BY <1>7 DEF Restart
  <2>2. RetentionOK'
    BY <1>s, <1>i, <2>1 DEF RetentionOK, OutcomeOK, Spared, InHand
  <2>3. UploadsOK'
    BY <1>s, <2>1, RowsMoved DEF UploadsOK, Backed, StoredShape
  <2>4. /\ dl' \in [Downloads -> {"idle", "valid", "served", "refused"}]
        /\ \A d \in Downloads : dl'[d] = "served" => dl[d] = "served"
    BY <1>7, <1>s DEF Restart, StoredShape
  <2>5. TokenOK'
    BY <1>s, <2>1, <2>4 DEF TokenOK
  <2> QED  BY <1>s, <1>i, <2>1, <2>2, <2>3, <2>4, <2>5 DEF Stored, StoredShape
<1> QED  BY <1>1, <1>2, <1>3, <1>4, <1>5, <1>6, <1>7


(* Time, and the single-use tokens, keep the invariant (artifact_tokens.rs    *)
(* create_scoped_token_handler, claim_single_use_token,                       *)
(* revoke_scoped_token_handler).                                              *)
LEMMA TokenStep ==
    ASSUME Stored,
           \/ \E a \in Arts : Age(a) \/ FallDue(a) \/ CreateToken(a)
           \/ \E d \in Downloads : Validate(d) \/ Claim(d)
           \/ EndToken
    PROVE  Stored'
<1> USE DEF passVars, tokVars, upVars
<1>s. StoredShape /\ UploadsOK /\ RetentionOK /\ TokenOK
  BY DEF Stored
<1>t. token \in Tokens
  BY <1>s DEF StoredShape
<1>1. ASSUME NEW a \in Arts, Age(a) \/ FallDue(a) PROVE Stored'
  <2>1. art[a] \in Rows
    BY <1>s DEF StoredShape
  <2>2. PICK r \in Rows : art' = [art EXCEPT ![a] = r] /\ r.state = art[a].state
    <3>1. CASE Age(a)
      <4> DEFINE r == [art[a] EXCEPT !.age = IF art[a].age = "fresh" THEN "late" ELSE "overdue"]
      <4>1. art' = [art EXCEPT ![a] = r]
        BY <3>1, <1>s DEF Age, StoredShape
      <4>2. r \in Rows /\ r.state = art[a].state
        BY <2>1 DEF Rows
      <4> HIDE DEF r
      <4> QED  BY <4>1, <4>2
    <3>2. CASE FallDue(a)
      <4> DEFINE r == [art[a] EXCEPT !.due = "yes"]
      <4>1. art' = [art EXCEPT ![a] = r]
        BY <3>2, <1>s DEF FallDue, StoredShape
      <4>2. r \in Rows /\ r.state = art[a].state
        BY <2>1 DEF Rows
      <4> HIDE DEF r
      <4> QED  BY <4>1, <4>2
    <3> QED  BY <1>1, <3>1, <3>2
  <2>3. art' \in [Arts -> Rows] /\ \A c \in Arts : art'[c].state = art[c].state
    BY <1>s, <2>2, SetRow
  <2>4. UNCHANGED <<build, rel, file, up, passVars, tokVars, cleaned>>
    BY <1>1 DEF Age, FallDue
  <2>5. UploadsOK'
    BY <1>s, <2>3, <2>4, RowsMoved DEF UploadsOK, Backed, StoredShape
  <2> QED  BY <1>s, <2>3, <2>4, <2>5, RetentionFrame, TokenFrame DEF Stored, StoredShape
<1>2. ASSUME NEW a \in Arts, CreateToken(a) PROVE Stored'
  <2>1. token' \in Tokens /\ token'.state = "row" /\ token.state = "none" /\ UNCHANGED dl
    BY <1>2 DEF CreateToken, NoToken, Tokens
  <2>2. TokenOK'
    BY <1>s, <2>1 DEF TokenOK
  <2> QED  BY <1>2, <1>s, <2>1, <2>2, UploadsFrame, RetentionFrame DEF Stored, StoredShape, CreateToken
<1>3. ASSUME NEW d \in Downloads, Validate(d) PROVE Stored'
  <2>1. /\ dl' \in [Downloads -> {"idle", "valid", "served", "refused"}] /\ UNCHANGED token
        /\ \A e \in Downloads : dl'[e] = "served" => dl[e] = "served"
    BY <1>3, <1>s DEF Validate, StoredShape
  <2>2. TokenOK'
    BY <1>s, <2>1 DEF TokenOK
  <2> QED  BY <1>3, <1>s, <2>1, <2>2, UploadsFrame, RetentionFrame DEF Stored, StoredShape, Validate
<1>4. ASSUME NEW d \in Downloads, Claim(d) PROVE Stored'
  <2>1. CASE Claimable
    <3>1. /\ dl' \in [Downloads -> {"idle", "valid", "served", "refused"}] /\ dl'[d] = "served"
          /\ \A e \in Downloads : e # d => dl'[e] = dl[e]
      BY <1>4, <1>s, <2>1 DEF Claim, StoredShape
    <3>2. token' \in Tokens /\ token'.state = "row" /\ token'.used
      BY <1>4, <1>t, <2>1 DEF Claim, Claimable, Tokens
    <3>3. \A e \in Downloads : dl[e] # "served"
      BY <1>s, <2>1 DEF TokenOK, Claimable
    <3>4. TokenOK'
      BY <3>1, <3>2, <3>3 DEF TokenOK
    <3> QED  BY <1>4, <1>s, <3>1, <3>2, <3>4, UploadsFrame, RetentionFrame
             DEF Stored, StoredShape, Claim
  <2>2. CASE ~Claimable
    <3>1. /\ dl' \in [Downloads -> {"idle", "valid", "served", "refused"}] /\ UNCHANGED token
          /\ \A e \in Downloads : dl'[e] = "served" => dl[e] = "served"
      BY <1>4, <1>s, <2>2 DEF Claim, StoredShape
    <3>2. TokenOK'
      BY <1>s, <3>1 DEF TokenOK
    <3> QED  BY <1>4, <1>s, <3>1, <3>2, UploadsFrame, RetentionFrame
             DEF Stored, StoredShape, Claim
  <2> QED  BY <2>1, <2>2
<1>5. CASE EndToken
  <2>1. token.state = "row" /\ (token' = [token EXCEPT !.revoked = TRUE] \/ token' = GoneToken)
        /\ UNCHANGED dl
    BY <1>5 DEF EndToken
  <2>2. token' \in Tokens /\ (token'.state = "gone" \/ (token'.state = "row" /\ token'.used = token.used))
    BY <1>t, <2>1 DEF Tokens, GoneToken, NoToken
  <2>3. TokenOK'
    BY <1>s, <2>1, <2>2 DEF TokenOK
  <2> QED  BY <1>5, <1>s, <2>2, <2>3, UploadsFrame, RetentionFrame DEF Stored, StoredShape, EndToken
<1> QED  BY <1>1, <1>2, <1>3, <1>4, <1>5

-----------------------------------------------------------------------------
(* The invariant holds at the start. *)
LEMMA StoredInit == Init => Stored
<1> SUFFICES ASSUME Init PROVE Stored
  OBVIOUS
<1>1. StoredShape
  <2>1. NoRow \in Rows /\ NoToken \in Tokens /\ IdlePass \in PassRecords
    BY DEF NoRow, Rows, NoToken, Tokens, IdlePass, PassRecords
  <2>2. [pc |-> "idle", i |-> 1] \in Uploads
    BY ArtifactsAssumption DEF Uploads
  <2>3. [status |-> "running", from |-> "none", outcome |-> "none"] \in BuildRecords
    BY DEF BuildRecords, Statuses
  <2>4. [list |-> {}, cur |-> {}] \in [list : SUBSET Arts, cur : SUBSET Arts]
    OBVIOUS
  <2> QED  BY <2>1, <2>2, <2>3, <2>4 DEF Init, StoredShape
<1>2. UploadsOK
  <2>1. \A a \in Arts : art[a].state = "none"
    BY DEF Init, NoRow
  <2>2. \A b \in Builds : up[b].pc = "idle"
    BY DEF Init
  <2> QED  BY <2>1, <2>2, ArtsAre DEF UploadsOK, Init
<1>3. RetentionOK
  BY DEF Init, RetentionOK, OutcomeOK, IdlePass, InHand, Outcomes
<1>4. TokenOK
  BY DEF Init, TokenOK, NoToken
<1> QED  BY <1>1, <1>2, <1>3, <1>4 DEF Stored

(* Every step keeps the invariant. *)
LEMMA StoredStep == Stored /\ [Next]_vars => Stored'
<1> SUFFICES ASSUME Stored, [Next]_vars PROVE Stored'
  OBVIOUS
<1>1. CASE \E b \in Builds : Runner(b)
  BY <1>1, RunnerStep
<1>2. CASE Passes
  BY <1>2, SweepStep, RetentionStep DEF Passes
<1>3. CASE \/ \E a \in Arts : Age(a) \/ FallDue(a) \/ CreateToken(a)
           \/ \E d \in Downloads : Validate(d) \/ Claim(d)
           \/ EndToken
  BY <1>3, TokenStep
<1>4. CASE UNCHANGED vars
  <2>1. UNCHANGED <<build, rel, art, file, up, sweep, ret, expiry, token, dl, cleaned>>
    BY <1>4 DEF vars
  <2> QED  BY <2>1, UploadsFrame, RetentionFrame, TokenFrame DEF Stored, StoredShape, tokVars
<1> QED  BY <1>1, <1>2, <1>3, <1>4 DEF Next

(* The invariant holds in every state, for any number of builds, files,       *)
(* policies and downloads.                                                    *)
THEOREM StoredAlways == Spec => []Stored
BY StoredInit, StoredStep, PTL DEF Spec

(* An artifact that can be downloaded has its file, unless retention or       *)
(* expiry deleted the file on purpose: the sweep racing complete_artifact, a  *)
(* late PUT and a lost answer leave none without one.                         *)
THEOREM DownloadsHaveFiles == Spec => []AvailableHasFile
<1>1. Stored => AvailableHasFile
  BY DEF Stored, UploadsOK, Backed, AvailableHasFile
<1> QED  BY <1>1, StoredAlways, PTL

(* A full cleanup never deletes a build a release refers to, whenever the     *)
(* release was created (cleanup_build_record).                                *)
THEOREM ReleasesSurvive == Spec => []ReleaseRecordsSurvive
<1>1. Stored => ReleaseRecordsSurvive
  BY DEF Stored, RetentionOK, ReleaseRecordsSurvive
<1> QED  BY <1>1, StoredAlways, PTL

(* Of any number of requests that present a single-use token one is served    *)
(* (claim_single_use_token).                                                  *)
THEOREM TokensServeOnce == Spec => []SingleUse
<1>1. ASSUME Stored PROVE SingleUse
  <2> DEFINE T == {d \in Downloads : dl[d] = "served"}
  <2>1. CASE T = {}
    BY <2>1, FS_EmptySet DEF SingleUse
  <2>2. CASE T # {}
    <3>1. PICK d \in T : TRUE
      BY <2>2
    <3>2. T = {d}
      BY <1>1, <3>1 DEF Stored, TokenOK
    <3>3. Cardinality(T) = 1
      BY <3>2, FS_Singleton
    <3> QED  BY <3>3 DEF SingleUse
  <2> QED  BY <2>1, <2>2
<1> QED  BY <1>1, StoredAlways, PTL

(* A pass expires or deletes a build only if its policy does not keep the     *)
(* outcome the build ended with (collect_retention_candidates, the            *)
(* COALESCE(expired_from, status) of its filter).                             *)
THEOREM OutcomesKept == Spec => KeptOutcomesStay
<1> DEFINE Kept == \A b \in Builds :
                      /\ build'[b].status # build[b].status
                      /\ build'[b].status \in {"expired", "deleted"}
                      => build[b].outcome \notin ret.policy.keep
<1>1. ASSUME Stored, Next PROVE Kept
  <2>s. StoredShape /\ RetentionOK
    BY <1>1 DEF Stored
  <2>1. CASE RetentionRows
    <3>1. InHand /\ Spared(ret.cur)
      BY <2>1, <2>s DEF RetentionRows, RetentionOK, InHand
    <3>2. \A b \in Builds : b # ret.cur => build'[b] = build[b]
      BY <2>1, <2>s DEF RetentionRows, StoredShape
    <3> QED  BY <3>1, <3>2 DEF Spared
  <2>2. CASE RetentionMark
    <3>1. InHand /\ Spared(ret.cur)
      BY <2>2, <2>s DEF RetentionMark, RetentionOK, InHand
    <3>2. \A b \in Builds : b # ret.cur => build'[b] = build[b]
      BY <2>2, <2>s DEF RetentionMark, StoredShape
    <3> QED  BY <3>1, <3>2 DEF Spared
  <2>3. ASSUME NEW b \in Builds, NEW o \in Outcomes, BuildEnds(b, o) PROVE Kept
    <3>1. \A c \in Builds : build'[c].status = build[c].status \/ build'[c].status = o
      BY <2>s, <2>3 DEF BuildEnds, StoredShape, BuildRecords
    <3> QED  BY <2>3, <3>1 DEF Outcomes
  <2>4. CASE UNCHANGED build
    BY <2>4
  <2> QED
    BY <1>1, <2>1, <2>2, <2>3, <2>4
    DEF Next, Runner, Passes, Reserve, Complete, Abort, ReserveRefused, PutStart, PutEnd,
        CompleteLost, RunnerDies, ReleaseStart, ReleaseEnd, SweepMark, RetentionLoad,
        RetentionNext, ExpiryLoad, Restart, RetentionPick, ExpiryRow, SweepDelete,
        RetentionFile, ExpiryFile, Age, FallDue, CreateToken, Validate, Claim, EndToken
<1>2. Stored /\ [Next]_vars => [Kept]_vars
  BY <1>1
<1> QED  BY <1>2, StoredAlways, PTL DEF Spec, KeptOutcomesStay
=============================================================================
