---------------------------- MODULE UpdatesProofs ----------------------------
(***************************************************************************)
(* Proof that an installation without an update left to recover is whole,  *)
(* for any number of update directories, updates and faults.               *)
(*                                                                         *)
(* The property says nothing while a journal is open, so it is far from    *)
(* inductive.  The invariant Journaled says what the journal of the open   *)
(* update stands for at every step of the command, its rollback and its    *)
(* recovery: which files may be mixed, and whether the database can still  *)
(* be opened by the release that the journal would put back.  It holds as  *)
(* long as there was never more than one update to recover; what it says   *)
(* of the database, as long as the database was untouched too.             *)
(***************************************************************************)
EXTENDS Updates, TLAPS

Journals ==
    [phase : Phases, previous : [DOMAIN Files -> Releases], backup : Releases \cup {0},
     database : BOOLEAN]

Undoing == {"undo_db", "undo_files", "undo_load"}
Working == Steps \ ({"idle", "recover", "locked"} \cup Undoing)

(* One release, and a database it can open. *)
Whole ==
    /\ \A f, g \in DOMAIN Files : files[f] = files[g]
    /\ untouched => db <= InstalledDaemon

(* The steps at which an update can be, by the phase its journal is in. *)
StepsOf(phase) ==
    {"idle", "recover", "locked"} \cup
    CASE phase = "staged"       -> {"undo_load", "staged", "stopped", "backed", "rollback", "rb_record"}
      [] phase = "installing"   -> {"undo_files", "undo_load", "install", "rollback", "rb_record"}
      [] phase = "installed"    -> {"undo_load", "activate", "rollback", "rb_record"}
      [] phase = "rolling_back" -> Undoing \cup {"rb_db", "rb_files", "rb_activate"}

(* A journal has a backup that the previous release can open. *)
BackedUp(r) == r.backup \in Releases /\ (untouched => r.backup <= r.previous[2])

(* How far files are put back. *)
PutBack(r) ==
    /\ cmd = "undo_db" => at = 1
    /\ cmd \in {"undo_files", "rb_files"} =>
          \A f \in DOMAIN Files : f < at => files[f] = r.previous[f]
    /\ cmd \in {"undo_load", "rb_activate"} => files = r.previous

JournalOK(r) ==
    /\ r \in Journals
    /\ \A f, g \in DOMAIN Files : r.previous[f] = r.previous[g]
    /\ cmd \in StepsOf(r.phase)
    /\ r.phase # "staged" \/ cmd \in {"backed", "rollback", "rb_record"} => BackedUp(r)
    /\ r.phase = "staged" => Whole /\ files = r.previous
    /\ r.phase = "installing" =>
          /\ PutBack(r)
          /\ cmd = "install" => \A f \in DOMAIN Files : f < at => files[f] = New
    /\ r.phase = "installed" => \A f \in DOMAIN Files : files[f] = New
    /\ r.phase = "rolling_back" =>
          /\ r.database /\ PutBack(r)
          /\ cmd \in {"undo_files", "undo_load", "rb_files", "rb_activate"} =>
                (untouched => db <= r.previous[2])

Journaled ==
    /\ UpdatesTypeOK
    /\ AtMostOneOpen
    /\ untouched => DatabaseIsUntouched
    /\ cmd \in Undoing \cup Working => own \in Open
    /\ cmd \in Undoing \cup {"recover"} => todo \subseteq Open
    /\ \A i \in Open : JournalOK(records[i])
    /\ Open = {} => Whole

(* What a step after which the journal can still be relied on is known by. *)
Relied ==
    /\ AtMostOneOpen'
    /\ untouched' => untouched /\ DatabaseIsUntouched'

-----------------------------------------------------------------------------
(* The installed files are three. *)
LEMMA FilesFacts == DOMAIN Files = 1..3 /\ Len(Files) = 3
BY DEF Files

(* A journal is told from no journal by its phase, and keeps its other      *)
(* fields when one is written.                                              *)
LEMMA JournalFacts ==
    /\ Records = {NoRecord} \cup Journals
    /\ \A r \in Journals : r # NoRecord
    /\ \A r \in Journals, d \in Releases :
          LET n == [r EXCEPT !.backup = d]
          IN  n \in Journals /\ n.phase = r.phase /\ n.previous = r.previous /\ n.backup = d
    /\ \A r \in Journals, p \in Phases :
          LET n == [r EXCEPT !.phase = p]
          IN  n \in Journals /\ n.phase = p /\ n.previous = r.previous /\ n.backup = r.backup
<1>1. Records = {NoRecord} \cup Journals
  BY DEF Records, Journals
<1>2. \A r \in Journals : r # NoRecord
  <2>1. NoRecord.phase = "none"
    BY DEF NoRecord
  <2>2. \A r \in Journals : r.phase # "none"
    BY DEF Journals, Phases
  <2> QED  BY <2>1, <2>2
<1>3. ASSUME NEW r \in Journals, NEW d \in Releases
      PROVE  LET n == [r EXCEPT !.backup = d]
             IN  n \in Journals /\ n.phase = r.phase /\ n.previous = r.previous /\ n.backup = d
  BY DEF Journals
<1>4. ASSUME NEW r \in Journals, NEW p \in Phases
      PROVE  LET n == [r EXCEPT !.phase = p]
             IN  n \in Journals /\ n.phase = p /\ n.previous = r.previous /\ n.backup = r.backup
  BY DEF Journals
<1> QED  BY <1>1, <1>2, <1>3, <1>4

(* The journal of a rollback. *)
LEMMA RollbackJournal ==
    \A r \in Journals :
        LET n == [r EXCEPT !.phase = "rolling_back", !.database = TRUE]
        IN  /\ n \in Journals /\ n.phase = "rolling_back" /\ n.previous = r.previous
            /\ n.backup = r.backup /\ n.database
<1>1. ASSUME NEW r \in Journals, NEW e \in BOOLEAN
      PROVE  LET n == [r EXCEPT !.phase = "rolling_back", !.database = e]
             IN  /\ n \in Journals /\ n.phase = "rolling_back" /\ n.previous = r.previous
                 /\ n.backup = r.backup /\ n.database = e
  BY DEF Journals, Phases
<1>2. TRUE \in BOOLEAN
  OBVIOUS
<1> QED  BY <1>1, <1>2, Zenon

(* What is open is a journal. *)
LEMMA OpenFacts ==
    ASSUME UpdatesTypeOK
    PROVE  /\ Open \subseteq Ids
           /\ \A i \in Open : records[i] \in Journals
           /\ \A i \in Ids : i \notin Open => records[i] = NoRecord
BY JournalFacts DEF UpdatesTypeOK, Open

(* A step that leaves the journals alone. *)
LEMMA SameRecords ==
    ASSUME Journaled, UpdatesTypeOK', Relied, untouched' => untouched, records' = records,
           \A i \in Open : \A r : r = records[i] => JournalOK(r)',
           Open = {} => Whole',
           cmd' \in Undoing \cup Working => own' \in Open,
           cmd' \in Undoing \cup {"recover"} => todo' \subseteq Open
    PROVE  Journaled'
<1>1. Open' = Open
  BY DEF Open
<1>2. \A i \in Open : JournalOK(records[i])'
  BY DEF JournalOK, PutBack
<1> QED  BY <1>1, <1>2 DEF Journaled, Relied

(* A step that writes the journal of the update at hand. *)
LEMMA RecordWritten ==
    ASSUME Journaled, UpdatesTypeOK', Relied, untouched' => untouched, own \in Open, own' = own,
           NEW r \in Journals, records' = [records EXCEPT ![own] = r], JournalOK(r)',
           cmd' \notin Undoing \cup {"recover"}
    PROVE  Journaled'
<1>1. own \in Ids /\ records \in [Ids -> Records]
  BY DEF Journaled, UpdatesTypeOK
<1>2. \A i \in Ids : records'[i] = IF i = own THEN r ELSE records[i]
  BY <1>1
<1>3. Open' = Open
  BY <1>2, JournalFacts DEF Open
<1>4. \A i \in Open : i = own
  BY DEF Journaled, AtMostOneOpen
<1>5. \A i \in Open : JournalOK(records[i])'
  BY <1>1, <1>2, <1>4 DEF JournalOK, PutBack
<1> QED  BY <1>3, <1>4, <1>5 DEF Journaled, Relied

(* A step that removes the journal of the update at hand. *)
LEMMA RecordRemoved ==
    ASSUME Journaled, UpdatesTypeOK', Relied, untouched' => untouched, own \in Open, records' = [records EXCEPT ![own] = NoRecord],
           Whole', cmd' \notin Undoing \cup Working,
           cmd' = "recover" => todo' = {}
    PROVE  Journaled'
<1>1. own \in Ids /\ records \in [Ids -> Records]
  BY DEF Journaled, UpdatesTypeOK
<1>2. \A i \in Open : i = own
  BY DEF Journaled, AtMostOneOpen
<1>3. Open' = {}
  BY <1>1, <1>2 DEF Open
<1>4. "recover" \notin Undoing
  BY DEF Undoing
<1> QED  BY <1>3, <1>4 DEF Journaled, Undoing, Relied

(* What the daemon does to an installation that is whole: it stays whole. *)
LEMMA StartKeepsWhole ==
    ASSUME UpdatesTypeOK, Whole, UNCHANGED files, StartDaemon \/ UNCHANGED db,
           untouched' => untouched
    PROVE  Whole'
<1>1. files[2] \in Nat /\ (untouched => db <= files[2]) /\ (db' = db \/ db' = files[2])
  BY FilesFacts DEF Whole, StartDaemon, InstalledDaemon, UpdatesTypeOK, Releases, Old, New
<1>2. untouched' => db' <= files[2]
  BY <1>1
<1> QED  BY <1>2 DEF Whole, InstalledDaemon

(* A command that ends or waits leaves a journal that says enough. *)
LEMMA Resting ==
    ASSUME UpdatesTypeOK, NEW r, JournalOK(r), cmd' \in {"idle", "recover", "locked"},
           UNCHANGED files, db' = db \/ StartDaemon, untouched' => untouched
    PROVE  JournalOK(r)'
<1>1. /\ r \in Journals /\ \A f, g \in DOMAIN Files : r.previous[f] = r.previous[g]
      /\ r.phase # "staged" => BackedUp(r)'
  BY DEF JournalOK, BackedUp
<1>2. cmd' \in StepsOf(r.phase)
  BY DEF StepsOf
<1>3. r.phase = "staged" => Whole' /\ files' = r.previous
  BY StartKeepsWhole DEF JournalOK
<1>4. PutBack(r)'
  BY DEF PutBack
<1>5. r.phase = "installed" => \A f \in DOMAIN Files : files'[f] = New
  BY DEF JournalOK
<1>6. r.phase = "rolling_back" => r.database
  BY DEF JournalOK
<1> QED  BY <1>1, <1>2, <1>3, <1>4, <1>5, <1>6 DEF JournalOK

(* What the working steps know of the journal at hand. *)
LEMMA MineFacts ==
    ASSUME Journaled, cmd \in Undoing \cup Working
    PROVE  /\ own \in Open /\ Mine \in Journals /\ JournalOK(Mine) /\ cmd \in StepsOf(Mine.phase)
           /\ \A i \in Open : i = own
BY OpenFacts DEF Journaled, Mine, JournalOK, AtMostOneOpen

(* Starting and stopping the daemon. *)
LEMMA DaemonTyped ==
    ASSUME UpdatesTypeOK, StartDaemon \/ StopDaemon \/ DaemonAsIs
    PROVE  db' \in Releases /\ daemon' \in Releases \cup {Off, Failing}
<1>1. files[2] \in Releases /\ db \in Releases /\ daemon \in Releases \cup {Off, Failing}
  BY FilesFacts DEF UpdatesTypeOK
<1> QED  BY <1>1 DEF StartDaemon, StopDaemon, DaemonAsIs, InstalledDaemon

(* Every step keeps the types; a backup that is put back exists. *)
LEMMA UpdateSteps ==
    ASSUME Journaled, Next
    PROVE  UpdatesTypeOK'
<1>0. UpdatesTypeOK
  BY DEF Journaled
<1> USE DEF Next, Step, Recovering, Updating, Goto
<1>1. cmd' \in Steps /\ own' \in Ids
  BY <1>0
     DEF UpdatesTypeOK, Steps, Acquire, RecoverNext, RecoverSkips, AuthorizationRefused,
         RecoveryDone, UndoDatabase, UndoFile, UndoFilesDone, UndoLoad, RecoveryFails, CommandEnds,
         Begin, StartForDrain, DropStaged, NoAnswer, GiveUp, StopForUpdate, Backup, BackupFails,
         InstallRefused, RecordInstalling, InstallFile, RecordInstalled, Activate, InstallFails,
         StopForRollback, RecordRollback, RestoreDatabase, RestoreFile, RestoreFilesDone,
         ActivateRestored, RestoredCannotOpen, RollbackFails, Killed, Restarted
<1>2. todo' \subseteq Ids
  BY <1>0
     DEF UpdatesTypeOK, Open, Acquire, RecoverNext, RecoverSkips, AuthorizationRefused,
         RecoveryDone, UndoDatabase, UndoFile, UndoFilesDone, UndoLoad, RecoveryFails, CommandEnds,
         Begin, StartForDrain, NoAnswer, GiveUp, StopForUpdate, Backup, BackupFails,
         InstallRefused, RecordInstalling, InstallFile, RecordInstalled, Activate, InstallFails,
         StopForRollback, RecordRollback, RestoreDatabase, RestoreFile, RestoreFilesDone,
         ActivateRestored, RestoredCannotOpen, RollbackFails, Killed, Restarted
<1>3. updates' \in 0..MaxUpdates /\ faults' \in 0..MaxFaults
  <2>1. updates' = updates \/ (updates < MaxUpdates /\ updates' = updates + 1)
    BY DEF Acquire, RecoverNext, RecoverSkips, AuthorizationRefused,
         RecoveryDone, UndoDatabase, UndoFile, UndoFilesDone, UndoLoad, RecoveryFails, CommandEnds,
         Begin, StartForDrain, NoAnswer, GiveUp, StopForUpdate, Backup, BackupFails,
         InstallRefused, RecordInstalling, InstallFile, RecordInstalled, Activate, InstallFails,
         StopForRollback, RecordRollback, RestoreDatabase, RestoreFile, RestoreFilesDone,
         ActivateRestored, RestoredCannotOpen, RollbackFails, Killed, Restarted
  <2>2. faults' = faults \/ (faults < MaxFaults /\ faults' = faults + 1)
    BY DEF Fault, Acquire, RecoverNext, RecoverSkips, AuthorizationRefused,
         RecoveryDone, UndoDatabase, UndoFile, UndoFilesDone, UndoLoad, RecoveryFails, CommandEnds,
         Begin, StartForDrain, NoAnswer, GiveUp, StopForUpdate, Backup, BackupFails,
         InstallRefused, RecordInstalling, InstallFile, RecordInstalled, Activate, InstallFails,
         StopForRollback, RecordRollback, RestoreDatabase, RestoreFile, RestoreFilesDone,
         ActivateRestored, RestoredCannotOpen, RollbackFails, Killed, Restarted
  <2> QED  BY <1>0, <2>1, <2>2, UpdatesAssumption DEF UpdatesTypeOK
<1>4. db' \in Releases /\ daemon' \in Releases \cup {Off, Failing}
  <2>1. \/ StartDaemon \/ StopDaemon \/ DaemonAsIs
        \/ cmd \in {"undo_db", "rb_db"} /\ db' = Mine.backup /\ (daemon' = Off \/ daemon' = daemon)
    BY DEF DaemonAsIs, Acquire, RecoverNext, RecoverSkips, AuthorizationRefused,
         RecoveryDone, UndoDatabase, UndoFile, UndoFilesDone, UndoLoad, RecoveryFails, CommandEnds,
         Begin, StartForDrain, NoAnswer, GiveUp, StopForUpdate, Backup, BackupFails,
         InstallRefused, RecordInstalling, InstallFile, RecordInstalled, Activate, InstallFails,
         StopForRollback, RecordRollback, RestoreDatabase, RestoreFile, RestoreFilesDone,
         ActivateRestored, RestoredCannotOpen, RollbackFails, Killed, Restarted
  <2>2. ASSUME cmd \in {"undo_db", "rb_db"}, db' = Mine.backup, daemon' = Off \/ daemon' = daemon
        PROVE  db' \in Releases /\ daemon' \in Releases \cup {Off, Failing}
    <3>1. cmd \in Undoing \cup Working
      BY <2>2 DEF Undoing, Working, Steps
    <3>2. Mine.phase \in Phases /\ cmd \in StepsOf(Mine.phase)
      BY <3>1, MineFacts DEF Journals
    <3>3. Mine.phase # "staged"
      BY <2>2, <3>2 DEF StepsOf
    <3>4. BackedUp(Mine)
      BY <3>1, <3>3, MineFacts DEF JournalOK
    <3> QED  BY <1>0, <2>2, <3>4 DEF BackedUp, UpdatesTypeOK
  <2> QED  BY <1>0, <2>1, <2>2, DaemonTyped
<1>5. files' \in [DOMAIN Files -> Releases] /\ at' \in 1..(Len(Files) + 1)
  <2>1. \/ files' = files /\ (at' = at \/ at' = 1)
        \/ cmd = "install" /\ ~AllReplaced /\ ReplaceFiles([f \in DOMAIN Files |-> New])
        \/ cmd \in {"undo_files", "rb_files"} /\ ~AllReplaced /\ ReplaceFiles(Mine.previous)
    BY DEF Acquire, RecoverNext, RecoverSkips, AuthorizationRefused,
         RecoveryDone, UndoDatabase, UndoFile, UndoFilesDone, UndoLoad, RecoveryFails, CommandEnds,
         Begin, StartForDrain, NoAnswer, GiveUp, StopForUpdate, Backup, BackupFails,
         InstallRefused, RecordInstalling, InstallFile, RecordInstalled, Activate, InstallFails,
         StopForRollback, RecordRollback, RestoreDatabase, RestoreFile, RestoreFilesDone,
         ActivateRestored, RestoredCannotOpen, RollbackFails, Killed, Restarted
  <2>2. CASE files' = files /\ (at' = at \/ at' = 1)
    BY <1>0, <2>2, FilesFacts DEF UpdatesTypeOK
  <2>3. ASSUME NEW p \in [DOMAIN Files -> Releases], ~AllReplaced, ReplaceFiles(p)
        PROVE  files' \in [DOMAIN Files -> Releases] /\ at' \in 1..(Len(Files) + 1)
    BY <1>0, <2>3, FilesFacts DEF UpdatesTypeOK, AllReplaced, ReplaceFiles
  <2>4. [f \in DOMAIN Files |-> New] \in [DOMAIN Files -> Releases]
    BY DEF Releases
  <2>5. cmd \in {"undo_files", "rb_files"} => Mine.previous \in [DOMAIN Files -> Releases]
    BY MineFacts DEF Undoing, Working, Steps, Journals
  <2> QED  BY <2>1, <2>2, <2>3, <2>4, <2>5
<1>6. records' \in [Ids -> Records]
  <2>1. ASSUME NEW i \in Ids, NEW r \in Records, Put(i, r)
        PROVE  records' \in [Ids -> Records]
    BY <1>0, <2>1 DEF UpdatesTypeOK, Put
  <2>2. /\ own \in Ids /\ NoRecord \in Records
        /\ \A r : r \in Journals => r \in Records
    BY <1>0, JournalFacts DEF UpdatesTypeOK
  <2>3. \/ records' = records
        \/ Put(own, NoRecord)
        \/ Backup \/ RecordInstalling \/ RecordInstalled \/ RecordRollback \/ Begin
    BY DEF Acquire, RecoverNext, RecoverSkips, AuthorizationRefused,
         RecoveryDone, UndoDatabase, UndoFile, UndoFilesDone, UndoLoad, RecoveryFails, CommandEnds,
         StartForDrain, DropStaged, NoAnswer, GiveUp, StopForUpdate, BackupFails,
         InstallRefused, InstallFile, Activate, InstallFails,
         StopForRollback, RestoreDatabase, RestoreFile, RestoreFilesDone,
         ActivateRestored, RestoredCannotOpen, RollbackFails, Killed, Restarted
  <2>m. cmd \in {"stopped", "backed", "install", "rb_record"} => Mine \in Journals
    BY MineFacts DEF Undoing, Working, Steps
  <2>4. CASE Backup
    <3>1. cmd = "stopped" /\ Put(own, [Mine EXCEPT !.backup = db]) /\ db \in Releases
      BY <1>0, <2>4 DEF Backup, UpdatesTypeOK
    <3>2. [Mine EXCEPT !.backup = db] \in Journals
      BY <2>m, <3>1, JournalFacts
    <3> QED  BY <2>1, <2>2, <3>1, <3>2
  <2>5. CASE RecordInstalling \/ RecordInstalled
    <3>1. PICK p \in Phases : /\ cmd \in {"backed", "install"}
                              /\ Put(own, [Mine EXCEPT !.phase = p])
      BY <2>5 DEF RecordInstalling, RecordInstalled, Record, Phases
    <3>2. [Mine EXCEPT !.phase = p] \in Journals
      BY <2>m, <3>1, JournalFacts
    <3> QED  BY <2>1, <2>2, <3>1, <3>2
  <2>6. CASE RecordRollback
    <3>1. /\ cmd = "rb_record"
          /\ Put(own, [Mine EXCEPT !.phase = "rolling_back", !.database = TRUE])
      BY <2>6 DEF RecordRollback
    <3>2. Mine \in Journals
      BY <2>m, <3>1
    <3>3. [Mine EXCEPT !.phase = "rolling_back", !.database = TRUE] \in Journals
      BY <3>2, RollbackJournal, Zenon
    <3> QED  BY <2>1, <2>2, <3>1, <3>3
  <2>7. CASE Begin
    <3> DEFINE r(e) == [phase |-> "staged", previous |-> files, backup |-> 0, database |-> e]
    <3>1. PICK i \in Ids : Put(i, r(FALSE))
      BY <2>7 DEF Begin
    <3>2. \A e \in BOOLEAN : r(e) \in Journals
      BY <1>0 DEF Journals, UpdatesTypeOK, Phases
    <3> HIDE DEF r
    <3>3. r(FALSE) \in Records
      BY <2>2, <3>2, Zenon
    <3> QED  BY <2>1, <3>1, <3>3
  <2> QED  BY <1>0, <2>1, <2>2, <2>3, <2>4, <2>5, <2>6, <2>7 DEF UpdatesTypeOK
<1>7. alone' \in BOOLEAN /\ untouched' \in BOOLEAN
  BY Zenon DEF Remember
<1> QED  BY <1>1, <1>2, <1>3, <1>4, <1>5, <1>6, <1>7 DEF UpdatesTypeOK


-----------------------------------------------------------------------------
(* The command ends, waits for its next directory or is cut short. *)
LEMMA CommandRests ==
    ASSUME Journaled, UpdatesTypeOK', Relied, untouched' => untouched, UNCHANGED <<files, records>>,
           cmd' \in {"idle", "recover", "locked"},
           cmd' = "recover" => todo' \subseteq Open,
           db' = db \/ StartDaemon
    PROVE  Journaled'
<1>0. UpdatesTypeOK
  BY DEF Journaled
<1>1. ASSUME NEW i \in Open, NEW r, r = records[i] PROVE JournalOK(r)'
  <2>1. JournalOK(r)
    BY <1>1 DEF Journaled
  <2> QED  BY <1>0, <2>1, Resting
<1>2. Open = {} => Whole'
  BY <1>0, StartKeepsWhole DEF Journaled
<1>3. cmd' \notin Undoing \cup Working
  BY DEF Undoing, Working
<1> QED  BY <1>1, <1>2, <1>3, SameRecords

(* Steps of that kind, failures of the recovery and the rollback, and a     *)
(* restart of the Mac.                                                      *)
LEMMA RestSteps ==
    ASSUME Journaled, UpdatesTypeOK', Relied, untouched' => untouched,
           \/ Acquire \/ RecoverSkips \/ AuthorizationRefused \/ RecoveryDone \/ RecoveryFails
           \/ CommandEnds \/ RestoredCannotOpen \/ RollbackFails \/ Killed \/ Restarted
    PROVE  Journaled'
<1> USE DEF Goto
<1>1. CASE Acquire \/ RecoverSkips \/ AuthorizationRefused \/ RecoveryDone \/ CommandEnds \/ Killed
  <2>1. /\ UNCHANGED <<files, records>> /\ db' = db /\ cmd' \in {"idle", "recover", "locked"}
        /\ cmd' = "recover" => todo' = Open \/ (cmd = "recover" /\ todo' \subseteq todo)
    BY <1>1 DEF Acquire, RecoverSkips, AuthorizationRefused, RecoveryDone, CommandEnds, Killed
  <2>2. cmd = "recover" => todo \subseteq Open
    BY DEF Journaled
  <2> QED  BY <2>1, <2>2, CommandRests
<1>2. CASE RecoveryFails
  <2>1. /\ cmd \in Undoing /\ UNCHANGED <<files, records>> /\ cmd' = "recover" /\ todo' \subseteq todo
        /\ db' = db \/ StartDaemon
    BY <1>2 DEF RecoveryFails, DaemonAsIs, StopDaemon, Undoing
  <2>2. todo \subseteq Open
    BY <2>1 DEF Journaled
  <2> QED  BY <2>1, <2>2, CommandRests
<1>3. CASE RestoredCannotOpen \/ RollbackFails \/ Restarted
  <2>1. UNCHANGED <<files, records>> /\ cmd' = "idle" /\ (db' = db \/ StartDaemon)
    BY <1>3 DEF RestoredCannotOpen, RollbackFails, Restarted, DaemonAsIs
  <2> QED  BY <2>1, CommandRests
<1> QED  BY <1>1, <1>2, <1>3

(* The journal at hand, and what it must say after the step. *)
LEMMA StepAtHand ==
    ASSUME Journaled, UpdatesTypeOK', Relied, untouched' => untouched, cmd \in Undoing \cup Working, own' = own,
           records' = records, \A r : r = Mine => JournalOK(r)', todo' = todo,
           cmd' \in Undoing => cmd \in Undoing, cmd' # "recover"
    PROVE  Journaled'
<1>1. own \in Open /\ \A i \in Open : i = own
  BY MineFacts
<1>2. cmd' \in Undoing \cup {"recover"} => todo' \subseteq Open
  BY DEF Journaled, Undoing
<1>3. \A i \in Open : \A r : r = records[i] => JournalOK(r)'
  BY <1>1 DEF Mine
<1> QED  BY <1>1, <1>2, <1>3, SameRecords

(* The phases a step can find. *)
LEMMA PhaseOfStep ==
    ASSUME NEW p \in Phases, cmd \in StepsOf(p)
    PROVE  /\ cmd \in {"undo_db", "rb_db", "rb_files", "rb_activate"} => p = "rolling_back"
           /\ cmd = "undo_files" => p \in {"installing", "rolling_back"}
           /\ cmd \in {"staged", "stopped", "backed"} => p = "staged"
           /\ cmd = "install" => p = "installing"
           /\ cmd = "activate" => p = "installed"
           /\ cmd \in {"rollback", "rb_record"} => p \in {"staged", "installing", "installed"}
<1>1. CASE p = "staged"
  BY <1>1 DEF StepsOf
<1>2. CASE p = "installing"
  BY <1>2 DEF StepsOf
<1>3. CASE p = "installed"
  BY <1>3 DEF StepsOf
<1>4. CASE p = "rolling_back"
  BY <1>4 DEF StepsOf, Undoing
<1> QED  BY <1>1, <1>2, <1>3, <1>4 DEF Phases


(* The recovery of a journal. *)
LEMMA RecoverySteps ==
    ASSUME Journaled, UpdatesTypeOK', Relied, untouched' => untouched,
           RecoverNext \/ UndoDatabase \/ UndoFile \/ UndoFilesDone \/ UndoLoad
    PROVE  Journaled'
<1> USE DEF Goto
<1>0. UpdatesTypeOK
  BY DEF Journaled
<1>1. CASE RecoverNext
  <2>1. PICK i \in todo :
          /\ own' = i /\ at' = 1 /\ UNCHANGED <<files, db, records, todo>>
          /\ cmd' = IF UndoesDatabase(records[i]) THEN "undo_db"
                    ELSE IF UndoesFiles(records[i]) THEN "undo_files" ELSE "undo_load"
    BY <1>1 DEF RecoverNext
  <2>2. cmd = "recover" /\ todo \subseteq Open /\ i \in Open
    BY <1>1, <2>1 DEF RecoverNext, Journaled
  <2>3. ASSUME NEW j \in Open, NEW r, r = records[j] PROVE JournalOK(r)'
    <3>1. r = records[i] /\ JournalOK(r) /\ r \in Journals /\ r.phase \in Phases
      BY <2>2, <2>3 DEF Journaled, AtMostOneOpen, JournalOK, Journals
    <3>2. CASE r.phase \in {"staged", "installed"}
      <4>1. cmd' = "undo_load"
        BY <2>1, <3>1, <3>2 DEF UndoesDatabase, UndoesFiles
      <4>2. Whole => Whole'
        BY <2>1 DEF Whole, InstalledDaemon
      <4> QED  BY <2>1, <3>1, <3>2, <4>1, <4>2 DEF JournalOK, StepsOf, BackedUp
    <3>3. CASE r.phase = "installing"
      <4>1. cmd' = "undo_files"
        BY <2>1, <3>1, <3>3 DEF UndoesDatabase, UndoesFiles
      <4>2. PutBack(r)'
        BY <2>1, <4>1, FilesFacts DEF PutBack
      <4> QED  BY <2>1, <3>1, <3>3, <4>1, <4>2 DEF JournalOK, StepsOf, BackedUp
    <3>4. CASE r.phase = "rolling_back"
      <4>1. cmd' = "undo_db"
        BY <2>1, <3>1, <3>4 DEF UndoesDatabase, JournalOK
      <4>2. PutBack(r)'
        BY <2>1, <4>1 DEF PutBack
      <4> QED  BY <2>1, <3>1, <3>4, <4>1, <4>2 DEF JournalOK, StepsOf, BackedUp, Undoing
    <3> QED  BY <3>1, <3>2, <3>3, <3>4 DEF Phases
  <2>4. Open # {}
    BY <2>2
  <2> QED  BY <2>1, <2>2, <2>3, <2>4, SameRecords
<1>2. CASE UndoDatabase
  <2>1. /\ cmd = "undo_db" /\ cmd \in Undoing /\ cmd' = "undo_files" /\ db' = Mine.backup
        /\ UNCHANGED <<files, records, own, at, todo>>
    BY <1>2 DEF UndoDatabase, Undoing
  <2>2. ASSUME NEW r, r = Mine PROVE JournalOK(r)'
    <3>1. r \in Journals /\ JournalOK(r) /\ r.phase = "rolling_back" /\ BackedUp(r)
          /\ (untouched' => db' <= r.previous[2])
      BY <2>1, <2>2, MineFacts, PhaseOfStep DEF Journals, JournalOK, BackedUp
    <3>2. at = 1 /\ PutBack(r)'
      BY <2>1, <3>1, FilesFacts DEF JournalOK, PutBack
    <3> QED  BY <2>1, <3>1, <3>2 DEF JournalOK, StepsOf, BackedUp, Undoing
  <2> QED  BY <2>1, <2>2, StepAtHand DEF Undoing
<1>3. CASE UndoFile
  <2>1. /\ cmd = "undo_files" /\ cmd \in Undoing /\ cmd' = cmd /\ ~AllReplaced
        /\ ReplaceFiles(Mine.previous) /\ UNCHANGED <<db, records, own, todo>>
    BY <1>3 DEF UndoFile, Undoing
  <2>2. ASSUME NEW r, r = Mine PROVE JournalOK(r)'
    <3>1. r \in Journals /\ JournalOK(r) /\ r.phase \in {"installing", "rolling_back"}
          /\ cmd \in StepsOf(r.phase)
      BY <2>1, <2>2, MineFacts, PhaseOfStep DEF Journals
    <3>2. PutBack(r)'
      <4>1. /\ files' = [files EXCEPT ![at] = r.previous[at]] /\ at' = at + 1 /\ at \in 1..3
            /\ files \in [1..3 -> Releases]
        BY <1>0, <2>1, <2>2, FilesFacts DEF ReplaceFiles, AllReplaced, UpdatesTypeOK
      <4>2. \A f \in 1..3 : f < at => files[f] = r.previous[f]
        BY <2>1, <3>1, FilesFacts DEF JournalOK, PutBack
      <4>3. \A f \in 1..3 : f < at' => files'[f] = r.previous[f]
        BY <4>1, <4>2
      <4> QED  BY <2>1, <4>3, FilesFacts DEF PutBack
    <3> QED  BY <2>1, <3>1, <3>2 DEF JournalOK, BackedUp
  <2> QED  BY <2>1, <2>2, StepAtHand DEF Undoing
<1>4. CASE UndoFilesDone
  <2>1. /\ cmd = "undo_files" /\ cmd \in Undoing /\ cmd' = "undo_load" /\ AllReplaced
        /\ UNCHANGED <<files, db, records, own, at, todo>>
    BY <1>4 DEF UndoFilesDone, Undoing
  <2>2. ASSUME NEW r, r = Mine PROVE JournalOK(r)'
    <3>1. r \in Journals /\ JournalOK(r) /\ r.phase \in {"installing", "rolling_back"}
      BY <2>1, <2>2, MineFacts, PhaseOfStep DEF Journals
    <3>2. files = r.previous
      <4>1. files \in [1..3 -> Releases] /\ r.previous \in [1..3 -> Releases] /\ at > 3 /\ at \in 1..4
        BY <1>0, <2>1, <3>1, FilesFacts DEF UpdatesTypeOK, Journals, AllReplaced
      <4>2. \A f \in 1..3 : f < at => files[f] = r.previous[f]
        BY <2>1, <3>1, FilesFacts DEF JournalOK, PutBack
      <4> QED  BY <4>1, <4>2
    <3>3. PutBack(r)'
      BY <2>1, <3>2 DEF PutBack
    <3> QED  BY <2>1, <3>1, <3>3 DEF JournalOK, StepsOf, BackedUp, Undoing
  <2> QED  BY <2>1, <2>2, StepAtHand DEF Undoing
<1>5. CASE UndoLoad
  <2>1. /\ cmd = "undo_load" /\ cmd \in Undoing /\ cmd' = "recover" /\ UNCHANGED files
        /\ StartDaemon \/ UNCHANGED db
        /\ records' = [records EXCEPT ![own] = NoRecord] /\ todo' = todo \ {own}
    BY <1>5 DEF UndoLoad, Undoing, DaemonAsIs, Put
  <2>2. own \in Open /\ JournalOK(Mine) /\ Mine \in Journals /\ \A i \in Open : i = own
    BY <2>1, MineFacts
  <2>3. Whole
    <3> DEFINE r == Mine
    <3>0. files \in [1..3 -> Releases] /\ db \in Releases /\ r.phase \in Phases
      BY <1>0, <2>2, FilesFacts DEF UpdatesTypeOK, Journals
    <3>1. CASE r.phase = "staged"
      BY <2>2, <3>1 DEF JournalOK
    <3>2. CASE r.phase = "installed"
      BY <2>2, <3>0, <3>2, FilesFacts DEF JournalOK, Whole, InstalledDaemon, Releases, Old, New
    <3>3. CASE r.phase = "installing"
      <4>1. untouched => db = r.backup /\ r.backup <= r.previous[2]
        BY <2>2, <3>3 DEF JournalOK, BackedUp, Journaled, DatabaseIsUntouched, Mine
      <4> QED  BY <2>1, <2>2, <3>3, <4>1 DEF JournalOK, PutBack, Whole, InstalledDaemon
    <3>4. CASE r.phase = "rolling_back"
      BY <2>1, <2>2, <3>4 DEF JournalOK, PutBack, Whole, InstalledDaemon
    <3> QED  BY <3>0, <3>1, <3>2, <3>3, <3>4 DEF Phases
  <2>4. Whole'
    BY <1>0, <2>1, <2>3, StartKeepsWhole
  <2>5. todo' = {}
    BY <2>1, <2>2 DEF Journaled
  <2>6. cmd' \notin Undoing \cup Working
    BY <2>1 DEF Undoing, Working
  <2> QED  BY <2>1, <2>2, <2>4, <2>5, <2>6, RecordRemoved
<1> QED  BY <1>1, <1>2, <1>3, <1>4, <1>5


(* An update begins on an installation that is whole. *)
LEMMA BeginStep ==
    ASSUME Journaled, UpdatesTypeOK', Relied, untouched' => untouched, Begin
    PROVE  Journaled'
<1> DEFINE s(e) == [phase |-> "staged", previous |-> files, backup |-> 0, database |-> e]
<1>0. UpdatesTypeOK
  BY DEF Journaled
<1>1. PICK i \in Ids \ Open : own' = i /\ records' = [records EXCEPT ![i] = s(FALSE)]
  BY DEF Begin, Put
<1>2. cmd' = "staged" /\ UNCHANGED <<files, db>>
  BY DEF Begin, Goto
<1>3. \A e \in BOOLEAN : s(e) \in Journals /\ s(e).phase = "staged" /\ s(e).previous = files
  BY <1>0 DEF Journals, UpdatesTypeOK, Phases
<1> HIDE DEF s
<1>4. PICK r \in Journals : /\ records' = [records EXCEPT ![i] = r]
                            /\ r.phase = "staged" /\ r.previous = files
  BY <1>1, <1>3, Zenon
<1>a. i \in Open' /\ \A j \in Open : j # i /\ j \in Open'
  BY <1>0, <1>4, JournalFacts DEF Open, UpdatesTypeOK
<1>b. Open = {} /\ Whole
  BY <1>a DEF Relied, AtMostOneOpen, Journaled
<1>5. records \in [Ids -> Records] /\ \A j \in Ids : records[j] = NoRecord
  BY <1>0, <1>b, OpenFacts DEF UpdatesTypeOK
<1>6. Open' = {i} /\ records'[i] = r
  BY <1>4, <1>5, JournalFacts DEF Open
<1>7. JournalOK(r)'
  <2>1. Whole' /\ \A f, g \in DOMAIN Files : r.previous[f] = r.previous[g]
    BY <1>b, <1>2, <1>4 DEF Whole, InstalledDaemon
  <2>2. cmd' \in StepsOf("staged")
    BY <1>2 DEF StepsOf
  <2> QED  BY <1>2, <1>4, <2>1, <2>2 DEF JournalOK
<1>8. JournalOK(records[i])'
  BY <1>6, <1>7 DEF JournalOK, PutBack
<1>9. cmd' \notin Undoing \cup {"recover"}
  BY <1>2 DEF Undoing
<1> QED  BY <1>1, <1>6, <1>8, <1>9 DEF Journaled, Relied

(* The update up to its activation. *)
LEMMA InstallSteps ==
    ASSUME Journaled, UpdatesTypeOK', Relied, untouched' => untouched,
           \/ StartForDrain \/ StopForUpdate \/ Backup
           \/ RecordInstalling \/ InstallFile \/ RecordInstalled \/ InstallFails
    PROVE  Journaled'
<1> USE DEF Goto
<1>0. UpdatesTypeOK /\ files \in [1..3 -> Releases] /\ db \in Releases
  BY FilesFacts DEF Journaled, UpdatesTypeOK
<1>w. /\ {"staged", "stopped", "backed", "install", "activate", "rollback"} \subseteq Working
      /\ {"staged", "stopped", "backed", "install", "activate", "rollback"} \cap Undoing = {}
  BY DEF Working, Undoing, Steps
<1>1. CASE StartForDrain \/ StopForUpdate
  <2>1. /\ cmd = "staged" /\ cmd' \in {"staged", "stopped"}
        /\ UNCHANGED <<files, records, own, at, todo>> /\ (StartDaemon \/ UNCHANGED db)
    BY <1>1 DEF StartForDrain, StopForUpdate, StopDaemon
  <2>2. ASSUME NEW r, r = Mine PROVE JournalOK(r)'
    <3>1. JournalOK(r) /\ r \in Journals /\ r.phase = "staged"
      BY <1>w, <2>1, <2>2, MineFacts, PhaseOfStep DEF Journals
    <3>2. Whole' /\ files' = r.previous
      BY <1>0, <2>1, <3>1, StartKeepsWhole DEF JournalOK
    <3> QED  BY <2>1, <3>1, <3>2 DEF JournalOK, StepsOf
  <2> QED  BY <1>w, <2>1, <2>2, StepAtHand
<1>2. CASE Backup
  <2>1. /\ cmd = "stopped" /\ cmd' = "backed" /\ UNCHANGED <<files, db, own>>
        /\ records' = [records EXCEPT ![own] = [Mine EXCEPT !.backup = db]]
    BY <1>2 DEF Backup, Put
  <2>2. JournalOK(Mine) /\ Mine \in Journals /\ Mine.phase = "staged" /\ own \in Open
    BY <1>w, <2>1, MineFacts, PhaseOfStep DEF Journals
  <2>3. PICK r \in Journals : /\ records' = [records EXCEPT ![own] = r] /\ r.phase = "staged"
                              /\ r.previous = Mine.previous /\ r.backup = db
    <3> DEFINE n == [Mine EXCEPT !.backup = db]
    <3>1. n \in Journals /\ n.phase = "staged" /\ n.previous = Mine.previous /\ n.backup = db
      BY <1>0, <2>2 DEF Journals
    <3>2. records' = [records EXCEPT ![own] = n]
      BY <2>1
    <3> HIDE DEF n
    <3> QED  BY <3>1, <3>2
  <2>4. JournalOK(r)'
    <3>1. Whole /\ files = r.previous /\ \A f, g \in DOMAIN Files : r.previous[f] = r.previous[g]
      BY <2>2, <2>3 DEF JournalOK
    <3>2. Whole' /\ BackedUp(r)'
      BY <1>0, <2>1, <2>3, <3>1 DEF Whole, BackedUp, InstalledDaemon
    <3> QED  BY <2>1, <2>3, <3>1, <3>2 DEF JournalOK, StepsOf, BackedUp
  <2> QED  BY <1>w, <2>1, <2>2, <2>3, <2>4, RecordWritten
<1>3. CASE RecordInstalling
  <2>1. /\ cmd = "backed" /\ cmd' = "install" /\ at' = 1 /\ UNCHANGED <<files, db, own>>
        /\ records' = [records EXCEPT ![own] = [Mine EXCEPT !.phase = "installing"]]
    BY <1>3 DEF RecordInstalling, Record, Put
  <2>2. JournalOK(Mine) /\ Mine \in Journals /\ Mine.phase = "staged" /\ own \in Open
    BY <1>w, <2>1, MineFacts, PhaseOfStep DEF Journals
  <2>3. "installing" \in Phases
    BY DEF Phases
  <2>4. PICK r \in Journals : /\ records' = [records EXCEPT ![own] = r] /\ r.phase = "installing"
                              /\ r.previous = Mine.previous /\ r.backup = Mine.backup
    BY <2>1, <2>2, <2>3, JournalFacts
  <2>5. JournalOK(r)'
    <3>1. /\ BackedUp(r) /\ Whole /\ files = r.previous
          /\ \A f, g \in DOMAIN Files : r.previous[f] = r.previous[g]
      BY <2>1, <2>2, <2>4 DEF JournalOK, BackedUp
    <3>2. PutBack(r)' /\ \A f \in DOMAIN Files : ~(f < at')
      BY <2>1, <3>1, FilesFacts DEF Whole, InstalledDaemon, PutBack
    <3> QED  BY <2>1, <2>4, <3>1, <3>2 DEF JournalOK, StepsOf, BackedUp
  <2> QED  BY <1>w, <2>1, <2>2, <2>4, <2>5, RecordWritten
<1>4. CASE InstallFile
  <2>1. /\ cmd = "install" /\ cmd' = cmd /\ ~AllReplaced /\ UNCHANGED <<db, records, own, todo>>
        /\ ReplaceFiles([f \in DOMAIN Files |-> New])
    BY <1>4 DEF InstallFile
  <2>2. ASSUME NEW r, r = Mine PROVE JournalOK(r)'
    <3>1. JournalOK(r) /\ r \in Journals /\ r.phase = "installing" /\ cmd \in StepsOf(r.phase)
      BY <1>w, <2>1, <2>2, MineFacts, PhaseOfStep DEF Journals
    <3>2. at \in 1..3 /\ at' = at + 1 /\ files' = [files EXCEPT ![at] = New]
      <4>1. at \in 1..3
        BY <1>0, <2>1, FilesFacts DEF AllReplaced, UpdatesTypeOK
      <4>2. at' = at + 1 /\ files' = [files EXCEPT ![at] = [f \in 1..3 |-> New][at]]
        BY <2>1, FilesFacts DEF ReplaceFiles
      <4>3. [f \in 1..3 |-> New][at] = New
        BY <4>1
      <4> QED  BY <4>1, <4>2, <4>3
    <3>3. \A f \in 1..3 : f < at => files[f] = New
      BY <2>1, <3>1, FilesFacts DEF JournalOK
    <3>4. \A f \in 1..3 : f < at' => files'[f] = New
      BY <1>0, <3>2, <3>3
    <3>5. PutBack(r)'
      BY <2>1 DEF PutBack
    <3> QED  BY <2>1, <3>1, <3>4, <3>5, FilesFacts DEF JournalOK, BackedUp
  <2> QED  BY <1>w, <2>1, <2>2, StepAtHand
<1>5. CASE RecordInstalled
  <2>1. /\ cmd = "install" /\ cmd' = "activate" /\ AllReplaced /\ UNCHANGED <<files, db, own, at>>
        /\ records' = [records EXCEPT ![own] = [Mine EXCEPT !.phase = "installed"]]
    BY <1>5 DEF RecordInstalled, Record, Put
  <2>2. JournalOK(Mine) /\ Mine \in Journals /\ Mine.phase = "installing" /\ own \in Open
    BY <1>w, <2>1, MineFacts, PhaseOfStep DEF Journals
  <2>3. "installed" \in Phases
    BY DEF Phases
  <2>4. PICK r \in Journals : /\ records' = [records EXCEPT ![own] = r] /\ r.phase = "installed"
                              /\ r.previous = Mine.previous /\ r.backup = Mine.backup
    BY <2>1, <2>2, <2>3, JournalFacts
  <2>5. JournalOK(r)'
    <3>1. BackedUp(r) /\ \A f, g \in DOMAIN Files : r.previous[f] = r.previous[g]
      BY <2>1, <2>2, <2>4 DEF JournalOK, BackedUp
    <3>2. \A f \in DOMAIN Files : files'[f] = New
      <4>1. at \in 1..4 /\ at > 3
        BY <1>0, <2>1, FilesFacts DEF AllReplaced, UpdatesTypeOK
      <4> QED  BY <2>1, <2>2, <4>1, FilesFacts DEF JournalOK
    <3> QED  BY <2>1, <2>4, <3>1, <3>2 DEF JournalOK, StepsOf, BackedUp
  <2> QED  BY <1>w, <2>1, <2>2, <2>4, <2>5, RecordWritten
<1>6. CASE InstallFails
  <2>1. /\ cmd \in {"backed", "install", "activate"} /\ cmd' = "rollback"
        /\ UNCHANGED <<files, records, own, at, todo>>
        /\ db' = db \/ (cmd = "activate" /\ StartDaemon)
    BY <1>6 DEF InstallFails, DaemonAsIs
  <2>2. ASSUME NEW r, r = Mine PROVE JournalOK(r)'
    <3>1. JournalOK(r) /\ r \in Journals /\ r.phase \in Phases /\ cmd \in StepsOf(r.phase)
      BY <1>w, <2>1, <2>2, MineFacts DEF Journals
    <3>2. /\ cmd = "backed" => r.phase = "staged"
          /\ cmd = "install" => r.phase = "installing"
          /\ cmd = "activate" => r.phase = "installed"
      BY <3>1, PhaseOfStep
    <3>3. BackedUp(r) /\ PutBack(r)' /\ (Whole /\ db' = db => Whole')
      BY <2>1, <3>1, <3>2 DEF JournalOK, PutBack, Whole, InstalledDaemon
    <3>4. cmd' \in StepsOf(r.phase)
      BY <2>1, <3>2 DEF StepsOf
    <3> QED  BY <2>1, <3>1, <3>2, <3>3, <3>4 DEF JournalOK, BackedUp
  <2> QED  BY <1>w, <2>1, <2>2, StepAtHand
<1> QED  BY <1>1, <1>2, <1>3, <1>4, <1>5, <1>6

(* The rollback. *)
LEMMA RollbackSteps ==
    ASSUME Journaled, UpdatesTypeOK', Relied, untouched' => untouched,
           StopForRollback \/ RecordRollback \/ RestoreDatabase \/ RestoreFile \/ RestoreFilesDone
    PROVE  Journaled'
<1> USE DEF Goto
<1>0. UpdatesTypeOK /\ files \in [1..3 -> Releases] /\ db \in Releases
  BY FilesFacts DEF Journaled, UpdatesTypeOK
<1>w. /\ {"rollback", "rb_record", "rb_db", "rb_files", "rb_activate"} \subseteq Working
      /\ {"rollback", "rb_record", "rb_db", "rb_files", "rb_activate"} \cap Undoing = {}
  BY DEF Working, Undoing, Steps
<1>1. CASE StopForRollback
  <2>1. /\ cmd = "rollback" /\ cmd' = "rb_record" /\ UNCHANGED <<files, db, records, own, at, todo>>
    BY <1>1 DEF StopForRollback, StopDaemon
  <2>2. ASSUME NEW r, r = Mine PROVE JournalOK(r)'
    <3>1. JournalOK(r) /\ r \in Journals /\ r.phase \in {"staged", "installing", "installed"}
      BY <1>w, <2>1, <2>2, MineFacts, PhaseOfStep DEF Journals
    <3>2. PutBack(r)' /\ (Whole => Whole') /\ cmd' \in StepsOf(r.phase)
      BY <2>1, <3>1 DEF PutBack, Whole, InstalledDaemon, StepsOf
    <3> QED  BY <2>1, <3>1, <3>2 DEF JournalOK, BackedUp
  <2> QED  BY <1>w, <2>1, <2>2, StepAtHand
<1>2. CASE RecordRollback
  <2> DEFINE n == [Mine EXCEPT !.phase = "rolling_back", !.database = TRUE]
  <2>1. /\ cmd = "rb_record" /\ cmd' = "rb_db" /\ UNCHANGED <<files, db, own>>
        /\ records' = [records EXCEPT ![own] = n]
    BY <1>2 DEF RecordRollback, Put
  <2>2. JournalOK(Mine) /\ Mine \in Journals /\ own \in Open
    BY <1>w, <2>1, MineFacts
  <2>3. /\ n \in Journals /\ n.phase = "rolling_back" /\ n.previous = Mine.previous
        /\ n.backup = Mine.backup /\ n.database
    BY <2>2, RollbackJournal, Zenon
  <2> HIDE DEF n
  <2>4. PICK r : r = n
    OBVIOUS
  <2>5. BackedUp(r) /\ \A f, g \in DOMAIN Files : r.previous[f] = r.previous[g]
    BY <2>1, <2>2, <2>3, <2>4 DEF JournalOK, BackedUp
  <2>6. PutBack(r)' /\ cmd' \in StepsOf(r.phase)
    BY <2>1, <2>3, <2>4 DEF PutBack, StepsOf
  <2>7. JournalOK(r)'
    BY <2>1, <2>3, <2>4, <2>5, <2>6 DEF JournalOK, BackedUp
  <2>8. cmd' \notin Undoing \cup {"recover"}
    BY <1>w, <2>1
  <2> QED  BY <2>1, <2>2, <2>3, <2>4, <2>7, <2>8, RecordWritten
<1>3. CASE RestoreDatabase
  <2>1. /\ cmd = "rb_db" /\ cmd' = "rb_files" /\ db' = Mine.backup /\ at' = 1
        /\ UNCHANGED <<files, records, own, todo>>
    BY <1>3 DEF RestoreDatabase
  <2>2. ASSUME NEW r, r = Mine PROVE JournalOK(r)'
    <3>1. JournalOK(r) /\ r \in Journals /\ r.phase = "rolling_back" /\ BackedUp(r)
      BY <1>w, <2>1, <2>2, MineFacts, PhaseOfStep DEF Journals, JournalOK
    <3>2. (untouched' => db' <= r.previous[2]) /\ PutBack(r)'
      BY <2>1, <2>2, <3>1, FilesFacts DEF BackedUp, PutBack
    <3> QED  BY <2>1, <3>1, <3>2 DEF JournalOK, StepsOf, BackedUp
  <2> QED  BY <1>w, <2>1, <2>2, StepAtHand
<1>4. CASE RestoreFile
  <2>1. /\ cmd = "rb_files" /\ cmd' = cmd /\ ~AllReplaced /\ UNCHANGED <<db, records, own, todo>>
        /\ ReplaceFiles(Mine.previous)
    BY <1>4 DEF RestoreFile
  <2>2. ASSUME NEW r, r = Mine PROVE JournalOK(r)'
    <3>1. JournalOK(r) /\ r \in Journals /\ r.phase = "rolling_back" /\ cmd \in StepsOf(r.phase)
      BY <1>w, <2>1, <2>2, MineFacts, PhaseOfStep DEF Journals
    <3>2. at \in 1..3 /\ at' = at + 1 /\ files' = [files EXCEPT ![at] = r.previous[at]]
      BY <1>0, <2>1, <2>2, FilesFacts DEF ReplaceFiles, AllReplaced, UpdatesTypeOK
    <3>3. \A f \in 1..3 : f < at => files[f] = r.previous[f]
      BY <2>1, <3>1, FilesFacts DEF JournalOK, PutBack
    <3>4. \A f \in 1..3 : f < at' => files'[f] = r.previous[f]
      BY <1>0, <3>2, <3>3
    <3>5. PutBack(r)'
      BY <2>1, <3>4, FilesFacts DEF PutBack
    <3> QED  BY <2>1, <3>1, <3>5 DEF JournalOK, BackedUp
  <2> QED  BY <1>w, <2>1, <2>2, StepAtHand
<1>5. CASE RestoreFilesDone
  <2>1. /\ cmd = "rb_files" /\ cmd' = "rb_activate" /\ AllReplaced
        /\ UNCHANGED <<files, db, records, own, at, todo>>
    BY <1>5 DEF RestoreFilesDone
  <2>2. ASSUME NEW r, r = Mine PROVE JournalOK(r)'
    <3>1. JournalOK(r) /\ r \in Journals /\ r.phase = "rolling_back"
      BY <1>w, <2>1, <2>2, MineFacts, PhaseOfStep DEF Journals
    <3>2. files = r.previous
      <4>1. r.previous \in [1..3 -> Releases] /\ at > 3 /\ at \in 1..4
        BY <1>0, <2>1, <3>1, FilesFacts DEF UpdatesTypeOK, Journals, AllReplaced
      <4>2. \A f \in 1..3 : f < at => files[f] = r.previous[f]
        BY <2>1, <3>1, FilesFacts DEF JournalOK, PutBack
      <4> QED  BY <1>0, <4>1, <4>2
    <3>3. PutBack(r)'
      BY <2>1, <3>2 DEF PutBack
    <3> QED  BY <2>1, <3>1, <3>3 DEF JournalOK, StepsOf, BackedUp
  <2> QED  BY <1>w, <2>1, <2>2, StepAtHand
<1> QED  BY <1>1, <1>2, <1>3, <1>4, <1>5


(* The directory of an update is removed once the installation is whole:    *)
(* given up before anything was replaced, activated, or rolled back.        *)
LEMMA RemoveSteps ==
    ASSUME Journaled, UpdatesTypeOK', Relied, untouched' => untouched,
           NoAnswer \/ GiveUp \/ BackupFails \/ InstallRefused \/ Activate \/ ActivateRestored
    PROVE  Journaled'
<1>0. UpdatesTypeOK /\ files \in [1..3 -> Releases] /\ db \in Releases
  BY FilesFacts DEF Journaled, UpdatesTypeOK
<1>1. /\ cmd \in {"staged", "stopped", "backed", "activate", "rb_activate"} /\ cmd' = "idle"
      /\ records' = [records EXCEPT ![own] = NoRecord]
      /\ UNCHANGED files /\ (StartDaemon \/ UNCHANGED db)
  BY DEF NoAnswer, GiveUp, BackupFails, InstallRefused, Activate, ActivateRestored, DropStaged, Put, Goto,
         DaemonAsIs
<1>2. cmd \in Undoing \cup Working /\ cmd' \notin Undoing \cup Working
  BY <1>1 DEF Undoing, Working, Steps
<1>3. own \in Open /\ JournalOK(Mine) /\ Mine \in Journals /\ Mine.phase \in Phases
      /\ cmd \in StepsOf(Mine.phase)
  BY <1>2, MineFacts DEF Journals
<1>4. Whole
  <2>1. CASE cmd \in {"staged", "stopped", "backed"}
    BY <1>3, <2>1, PhaseOfStep DEF JournalOK
  <2>2. CASE cmd = "activate"
    <3>1. \A f \in 1..3 : files[f] = New
      BY <1>3, <2>2, PhaseOfStep, FilesFacts DEF JournalOK
    <3> QED  BY <1>0, <3>1, FilesFacts DEF Whole, InstalledDaemon, Releases, Old, New
  <2>3. CASE cmd = "rb_activate"
    <3>1. Mine.phase = "rolling_back"
      BY <1>3, <2>3, PhaseOfStep
    <3> QED  BY <1>3, <2>3, <3>1 DEF JournalOK, PutBack, Whole, InstalledDaemon
  <2> QED  BY <1>1, <2>1, <2>2, <2>3
<1>5. Whole'
  BY <1>0, <1>1, <1>4, StartKeepsWhole
<1> QED  BY <1>1, <1>2, <1>3, <1>5, RecordRemoved

(* The installation is whole at first. *)
LEMMA UpdatesInit == Init => Journaled
<1> SUFFICES ASSUME Init PROVE Journaled
  OBVIOUS
<1>1. files = [f \in 1..3 |-> Old] /\ db = Old /\ cmd = "idle" /\ Open = {}
  BY FilesFacts DEF Init, Open
<1>2. UpdatesTypeOK
  <2>1. records \in [Ids -> Records]
    BY JournalFacts DEF Init
  <2>2. own \in Ids
    BY UpdatesAssumption DEF Init
  <2> QED  BY <1>1, <2>1, <2>2, FilesFacts, UpdatesAssumption
           DEF Init, UpdatesTypeOK, Releases, Steps
<1>3. Whole
  BY <1>1, FilesFacts DEF Whole, InstalledDaemon, Old
<1>4. cmd \notin Undoing \cup Working \cup {"recover"}
  BY <1>1 DEF Undoing, Working
<1>5. AtMostOneOpen /\ DatabaseIsUntouched
  BY <1>1 DEF AtMostOneOpen, DatabaseIsUntouched
<1> QED  BY <1>1, <1>2, <1>3, <1>4, <1>5 DEF Journaled

(* Every step keeps the journal's meaning, while it can be relied on. *)
LEMMA UpdatesStep == (alone => Journaled) /\ [Next]_vars => (alone' => Journaled')
<1> SUFFICES ASSUME alone => Journaled, [Next]_vars, alone' PROVE Journaled'
  OBVIOUS
<1>1. CASE Next
  <2>1. Step /\ Remember
    BY <1>1 DEF Next
  <2>2. alone /\ AtMostOneOpen' /\ (untouched' => untouched /\ DatabaseIsUntouched')
    BY <2>1, Zenon DEF Remember
  <2>3. Journaled /\ Relied /\ (untouched' => untouched)
    BY <2>2 DEF Relied
  <2>4. UpdatesTypeOK'
    BY <1>1, <2>3, UpdateSteps
  <2> QED
    BY <2>1, <2>3, <2>4, RestSteps, RecoverySteps, BeginStep, InstallSteps, RollbackSteps, RemoveSteps
    DEF Step, Recovering, Updating
<1>2. CASE UNCHANGED vars
  <2>1. /\ UNCHANGED <<files, db, daemon, records, cmd, own, at, todo, updates, faults>>
        /\ UNCHANGED <<alone, untouched>>
    BY <1>2 DEF vars, state
  <2>2. Journaled
    BY <2>1
  <2>3. UpdatesTypeOK'
    BY <2>1, <2>2 DEF Journaled, UpdatesTypeOK
  <2>4. Whole' = Whole /\ Open' = Open
    BY <2>1 DEF Whole, InstalledDaemon, Open
  <2>5. Relied
    BY <2>1, <2>2, <2>4 DEF Relied, Journaled, AtMostOneOpen, DatabaseIsUntouched
  <2>6. \A r : JournalOK(r) => JournalOK(r)'
    BY <2>1, <2>4 DEF JournalOK, PutBack, BackedUp
  <2> QED  BY <2>1, <2>2, <2>3, <2>4, <2>5, <2>6, SameRecords DEF Journaled
<1> QED  BY <1>1, <1>2

(* The journal of an update says at every step what is left to undo, for    *)
(* any number of directories, updates and faults, as long as no update      *)
(* began over one that was still to be recovered.                           *)
THEOREM JournaledAlways == Spec => [](alone => Journaled)
<1>1. Init => (alone => Journaled)
  BY UpdatesInit
<1>2. (alone => Journaled) /\ [Next]_vars => (alone => Journaled)'
  BY UpdatesStep
<1> QED  BY <1>1, <1>2, PTL DEF Spec

(* update_transaction.rs: an installation with no update left to recover is *)
(* whole, wherever the update, its rollback and their recovery failed, were *)
(* killed or met a restart of the Mac; a database migrated while a journal  *)
(* said installing, or an update begun over another, are the exceptions.    *)
THEOREM UpdatesEndWhole == Spec => []NoUpdateIsHalfDone
<1>1. (alone => Journaled) => NoUpdateIsHalfDone
  BY DEF Journaled, NoUpdateIsHalfDone, Whole
<1> QED  BY <1>1, JournaledAlways, PTL
=============================================================================
