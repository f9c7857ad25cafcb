------------------------------ MODULE Updates ------------------------------
(***************************************************************************)
(* An interactive `oore update` and its crash-safe journal: the update     *)
(* stages a release, stops the daemon, backs its database up, replaces the *)
(* installed files one by one, starts the new daemon, and rolls all of it  *)
(* back when a step fails; a `.update-*` directory records how far it got, *)
(* and the next command that takes the lifecycle lock finishes the work of *)
(* one that died (oore/src/update_transaction.rs and the functions of      *)
(* oore/src/main.rs that drive it).                                        *)
(*                                                                         *)
(* A release is a number; the release whose daemon opened the database     *)
(* last is its schema, and an older daemon refuses it (sqlx rejects a      *)
(* database with migrations it does not know). A daemon migrates at start, *)
(* in the step that starts it. The installed files are three, in the order *)
(* they are replaced: one before the daemon, the daemon and one after it.  *)
(***************************************************************************)
EXTENDS Integers, Sequences

CONSTANTS
    Ids,         \* the update directories that can exist at once
    MaxUpdates,  \* bound on the updates started
    MaxFaults    \* bound on the steps that fail, kills and restarts

ASSUME UpdatesAssumption ==
    /\ Ids # {} /\ MaxUpdates \in Nat
    /\ MaxFaults \in Nat

VARIABLES
    files,    \* the release each installed file belongs to
    db,       \* the release whose schema the database has
    daemon,   \* the release that runs, Off (not loaded) or Failing
    records,  \* the journal of each update directory, or NoRecord
    cmd,      \* where the command that holds the lifecycle lock is
    own,      \* the update directory that command is working on
    at,       \* the next file it replaces
    todo,     \* the directories its recovery still has to visit
    updates,  \* updates started so far
    faults,   \* faults so far
    alone,    \* history: there was never more than one update to recover
    untouched \* history: DatabaseIsUntouched was never false

state == <<files, db, daemon, records, cmd, own, at, todo, updates, faults>>
vars == <<state, alone, untouched>>

Old == 1
New == 2
Releases == {Old, New}
Off == 0
Failing == -1
Files == <<"oore", "oored", "VERSION">>
NoRecord == [phase |-> "none"]
Phases == {"staged", "installing", "installed", "rolling_back"}
Records == {NoRecord} \cup
    [phase : Phases, previous : [DOMAIN Files -> Releases], backup : Releases \cup {0},
     database : BOOLEAN]

Steps == {"idle", "recover", "undo_db", "undo_files", "undo_load", "locked",
          "staged", "stopped", "backed", "install", "activate", "rollback",
          "rb_record", "rb_db", "rb_files", "rb_activate"}

Open == {i \in Ids : records[i] # NoRecord}
Mine == records[own]

Init ==
    /\ files = [f \in DOMAIN Files |-> Old]
    /\ db = Old
    /\ daemon \in {Old, Off}
    /\ records = [i \in Ids |-> NoRecord]
    /\ cmd = "idle"
    /\ own = CHOOSE i \in Ids : TRUE
    /\ at = 1
    /\ todo = {}
    /\ updates = 0
    /\ faults = 0
    /\ alone = TRUE
    /\ untouched = TRUE

-----------------------------------------------------------------------------
(* Starting a launchd service runs the daemon that is installed.           *)

InstalledDaemon == files[2]
CanOpen == InstalledDaemon >= db

StartDaemon ==
    /\ daemon' = IF CanOpen THEN InstalledDaemon ELSE Failing
    /\ db' = IF CanOpen THEN InstalledDaemon ELSE db

StopDaemon ==
    /\ daemon' = Off
    /\ UNCHANGED db

DaemonAsIs == UNCHANGED <<daemon, db>>

Fault ==
    /\ faults < MaxFaults
    /\ faults' = faults + 1

Goto(step) == cmd' = step

Put(i, record) == records' = [records EXCEPT ![i] = record]

ReplaceFiles(release) ==
    /\ files' = [files EXCEPT ![at] = release[at]]
    /\ at' = at + 1

AllReplaced == at > Len(Files)

-----------------------------------------------------------------------------
(* The lifecycle lock, and the recovery its holder starts with.            *)

Acquire ==
    /\ cmd = "idle"
    /\ Open # {} \/ updates < MaxUpdates
    /\ todo' = Open
    /\ Goto("recover")
    /\ UNCHANGED <<files, db, daemon, records, own, at, updates, faults>>

(* Mutant: an update still replacing files is taken for an installed one.  *)
MutUndoesFiles(record) == record.phase = "rolling_back"

UndoesFiles(record) == record.phase \in {"installing", "rolling_back"}
UndoesDatabase(record) == record.phase = "rolling_back" /\ record.database

(* recover_transaction up to apply_recovery; a directory whose owner's     *)
(* process number another oore process has taken is left alone.            *)
RecoverNext ==
    /\ cmd = "recover"
    /\ \E i \in todo :
        /\ own' = i
        /\ Goto(IF UndoesDatabase(records[i]) THEN "undo_db"
                ELSE IF UndoesFiles(records[i]) THEN "undo_files" ELSE "undo_load")
    /\ at' = 1
    /\ UNCHANGED <<files, db, daemon, records, todo, updates, faults>>

RecoverSkips ==
    /\ cmd = "recover"
    /\ \E i \in todo : todo' = todo \ {i}
    /\ Fault
    /\ UNCHANGED <<files, db, daemon, records, cmd, own, at, updates>>

AuthorizationRefused ==
    /\ cmd = "recover"
    /\ todo # {}
    /\ todo' = {}
    /\ Fault
    /\ Goto("idle")
    /\ UNCHANGED <<files, db, daemon, records, own, at, updates>>

RecoveryDone ==
    /\ cmd = "recover"
    /\ todo = {}
    /\ Goto("locked")
    /\ UNCHANGED <<files, db, daemon, records, own, at, todo, updates, faults>>

(* The daemon is stopped and the pre-update backup put back.               *)
UndoDatabase ==
    /\ cmd = "undo_db"
    /\ daemon' = Off
    /\ db' = Mine.backup
    /\ Goto("undo_files")
    /\ UNCHANGED <<files, records, own, at, todo, updates, faults>>

UndoFile ==
    /\ cmd = "undo_files"
    /\ ~AllReplaced
    /\ ReplaceFiles(Mine.previous)
    /\ UNCHANGED <<db, daemon, records, cmd, own, todo, updates, faults>>

UndoFilesDone ==
    /\ cmd = "undo_files"
    /\ AllReplaced
    /\ Goto("undo_load")
    /\ UNCHANGED <<files, db, daemon, records, own, at, todo, updates, faults>>

(* Mutant: services found stopped are left alone.                          *)
MutNeedsLoading == FALSE

NeedsLoading == daemon = Off

(* The services that are not loaded are restarted, the directory removed.  *)
UndoLoad ==
    /\ cmd = "undo_load"
    /\ IF NeedsLoading THEN StartDaemon ELSE DaemonAsIs
    /\ Put(own, NoRecord)
    /\ todo' = todo \ {own}
    /\ Goto("recover")
    /\ UNCHANGED <<files, own, at, updates, faults>>

(* Any step of a recovery may fail: it is reported, the directory stays,   *)
(* and the command carries on. The last one may fail after the restart.    *)
RecoveryFails ==
    /\ cmd \in {"undo_db", "undo_files", "undo_load"}
    /\ \/ DaemonAsIs
       \/ cmd = "undo_db" /\ StopDaemon
       \/ cmd = "undo_load" /\ NeedsLoading /\ StartDaemon
    /\ todo' = todo \ {own}
    /\ Fault
    /\ Goto("recover")
    /\ UNCHANGED <<files, records, own, at, updates>>

-----------------------------------------------------------------------------
(* handle_update: staging, draining and the backup.                        *)

(* The command that holds the lock is another one, or has nothing to do.   *)
CommandEnds ==
    /\ cmd = "locked"
    /\ Goto("idle")
    /\ UNCHANGED <<files, db, daemon, records, own, at, todo, updates, faults>>

(* A recovery that failed or left a directory alone was only reported, so  *)
(* an update may begin while older ones are still to be recovered.         *)
Begin ==
    /\ cmd = "locked"
    /\ updates < MaxUpdates
    /\ \E i \in Ids \ Open :
        /\ own' = i
        /\ Put(i, [phase |-> "staged", previous |-> files, backup |-> 0, database |-> FALSE])
    /\ updates' = updates + 1
    /\ Goto("staged")
    /\ UNCHANGED <<files, db, daemon, at, todo, faults>>

(* A daemon that was stopped is started for the drain; one that does not   *)
(* answer is stopped again and the update given up.                        *)
StartForDrain ==
    /\ cmd = "staged"
    /\ daemon = Off
    /\ CanOpen
    /\ StartDaemon
    /\ UNCHANGED <<files, records, cmd, own, at, todo, updates, faults>>

DropStaged ==
    /\ Put(own, NoRecord)
    /\ Goto("idle")

(* No daemon answers, and none can be started: the barrier is not had.     *)
NoAnswer ==
    /\ cmd = "staged"
    /\ daemon = Failing \/ (daemon = Off /\ ~CanOpen)
    /\ DropStaged
    /\ UNCHANGED <<files, db, daemon, own, at, todo, updates, faults>>

(* A refused plan, a drain that times out, a step that fails.              *)
GiveUp ==
    /\ cmd = "staged"
    /\ Fault
    /\ DropStaged
    /\ UNCHANGED <<files, db, daemon, own, at, todo, updates>>

StopForUpdate ==
    /\ cmd = "staged"
    /\ daemon \in Releases
    /\ StopDaemon
    /\ Goto("stopped")
    /\ UNCHANGED <<files, records, own, at, todo, updates, faults>>

Backup ==
    /\ cmd = "stopped"
    /\ Put(own, [Mine EXCEPT !.backup = db])
    /\ Goto("backed")
    /\ UNCHANGED <<files, db, daemon, own, at, todo, updates, faults>>

(* Without a backup the old daemon is restarted, if it restarts; the       *)
(* directory is removed either way, because nothing was installed.         *)
BackupFails ==
    /\ cmd = "stopped"
    /\ StartDaemon \/ DaemonAsIs
    /\ Fault
    /\ DropStaged
    /\ UNCHANGED <<files, own, at, todo, updates>>

(* install_release_with_rollback checks the barrier and publishes the      *)
(* runner marker before its rollback exists.                               *)
InstallRefused ==
    /\ cmd = "backed"
    /\ Fault
    /\ DropStaged
    /\ UNCHANGED <<files, db, daemon, own, at, todo, updates>>

-----------------------------------------------------------------------------
(* install_release_with_rollback: the installation.                        *)

Record(phase) == Put(own, [Mine EXCEPT !.phase = phase])

RecordInstalling ==
    /\ cmd = "backed"
    /\ Record("installing")
    /\ at' = 1
    /\ Goto("install")
    /\ UNCHANGED <<files, db, daemon, own, todo, updates, faults>>

InstallFile ==
    /\ cmd = "install"
    /\ ~AllReplaced
    /\ ReplaceFiles([f \in DOMAIN Files |-> New])
    /\ UNCHANGED <<db, daemon, records, cmd, own, todo, updates, faults>>

RecordInstalled ==
    /\ cmd = "install"
    /\ AllReplaced
    /\ Record("installed")
    /\ Goto("activate")
    /\ UNCHANGED <<files, db, daemon, own, at, todo, updates, faults>>

(* The daemon of the new release answers, then the web service and the     *)
(* runner; the update is finished and its directory removed.               *)
Activate ==
    /\ cmd = "activate"
    /\ CanOpen
    /\ StartDaemon
    /\ DropStaged
    /\ UNCHANGED <<files, own, at, todo, updates, faults>>

(* A step fails, the activation possibly after the new daemon migrated.    *)
InstallFails ==
    /\ cmd \in {"backed", "install", "activate"}
    /\ \/ DaemonAsIs
       \/ cmd = "activate" /\ StartDaemon
    /\ Fault
    /\ Goto("rollback")
    /\ UNCHANGED <<files, records, own, at, todo, updates>>

-----------------------------------------------------------------------------
(* install_release_with_rollback: the rollback.                            *)

StopForRollback ==
    /\ cmd = "rollback"
    /\ StopDaemon
    /\ Goto("rb_record")
    /\ UNCHANGED <<files, records, own, at, todo, updates, faults>>

RecordRollback ==
    /\ cmd = "rb_record"
    /\ Put(own, [Mine EXCEPT !.phase = "rolling_back", !.database = TRUE])
    /\ Goto("rb_db")
    /\ UNCHANGED <<files, db, daemon, own, at, todo, updates, faults>>

RestoreDatabase ==
    /\ cmd = "rb_db"
    /\ db' = Mine.backup
    /\ at' = 1
    /\ Goto("rb_files")
    /\ UNCHANGED <<files, daemon, records, own, todo, updates, faults>>

RestoreFile ==
    /\ cmd = "rb_files"
    /\ ~AllReplaced
    /\ ReplaceFiles(Mine.previous)
    /\ UNCHANGED <<db, daemon, records, cmd, own, todo, updates, faults>>

RestoreFilesDone ==
    /\ cmd = "rb_files"
    /\ AllReplaced
    /\ Goto("rb_activate")
    /\ UNCHANGED <<files, db, daemon, records, own, at, todo, updates, faults>>

ActivateRestored ==
    /\ cmd = "rb_activate"
    /\ CanOpen
    /\ StartDaemon
    /\ DropStaged
    /\ UNCHANGED <<files, own, at, todo, updates, faults>>

(* The daemon put back cannot open the database, so it never answers.      *)
RestoredCannotOpen ==
    /\ cmd = "rb_activate"
    /\ ~CanOpen
    /\ StartDaemon
    /\ Goto("idle")
    /\ UNCHANGED <<files, records, own, at, todo, updates, faults>>

(* Any step may fail, before the rollback is recorded too, when the journal *)
(* still has the phase it had. The directory stays for recovery; a daemon stopped behind the claim     *)
(* barrier is started again, whichever binary is installed by now.         *)
RollbackFails ==
    /\ cmd \in {"rollback", "rb_record", "rb_db", "rb_files", "rb_activate"}
    /\ DaemonAsIs \/ StartDaemon
    /\ Fault
    /\ Goto("idle")
    /\ UNCHANGED <<files, records, own, at, todo, updates>>

-----------------------------------------------------------------------------
(* The process is killed; the Mac restarts and launchd starts the daemon   *)
(* that is installed (RunAtLoad), whatever the journal says.               *)

Killed ==
    /\ cmd # "idle"
    /\ Fault
    /\ Goto("idle")
    /\ UNCHANGED <<files, db, daemon, records, own, at, todo, updates>>

Restarted ==
    /\ StartDaemon
    /\ Fault
    /\ Goto("idle")
    /\ UNCHANGED <<files, records, own, at, todo, updates>>

Recovering ==
    \/ Acquire \/ RecoverNext \/ RecoveryDone \/ UndoDatabase \/ UndoFile
    \/ UndoFilesDone \/ UndoLoad

Updating ==
    \/ CommandEnds \/ StartForDrain \/ NoAnswer \/ StopForUpdate \/ Backup
    \/ RecordInstalling \/ InstallFile \/ RecordInstalled \/ Activate
    \/ StopForRollback \/ RecordRollback \/ RestoreDatabase \/ RestoreFile
    \/ RestoreFilesDone \/ ActivateRestored \/ RestoredCannotOpen

Step ==
    \/ Recovering \/ Updating \/ Begin
    \/ RecoverSkips \/ AuthorizationRefused \/ RecoveryFails \/ GiveUp
    \/ BackupFails \/ InstallRefused \/ InstallFails \/ RollbackFails
    \/ Killed \/ Restarted

(* "Installed files are being replaced. The database is untouched."        *)
(* (update_transaction.rs:26, UpdatePhase::Installing): recovery relies on *)
(* it, for it puts only the files of such an update back. The code does    *)
(* not ensure it: a Mac that restarts, or a rollback that fails before its *)
(* record is written, starts the new daemon, which migrates the database.  *)
DatabaseIsUntouched ==
    \A i \in Open : records[i].phase = "installing" => db = records[i].backup

(* There is at most one update to recover: recovery puts back what each    *)
(* journal saved, whatever another update installed since.                 *)
AtMostOneOpen == \A i, j \in Open : i = j

(* The history of the two things the journal relies on.                    *)
Remember ==
    /\ alone' = (alone /\ AtMostOneOpen')
    /\ untouched' = (untouched /\ DatabaseIsUntouched')

Next == Step /\ Remember

Spec == Init /\ [][Next]_vars

(* A command that runs goes on, and while there is an update to recover    *)
(* someone runs the next lifecycle command.                                *)
FairSpec == Spec /\ WF_state(Recovering) /\ WF_state(Updating)

-----------------------------------------------------------------------------
UpdatesTypeOK ==
    /\ files \in [DOMAIN Files -> Releases]
    /\ db \in Releases
    /\ daemon \in Releases \cup {Off, Failing}
    /\ records \in [Ids -> Records]
    /\ cmd \in Steps
    /\ own \in Ids
    /\ at \in 1..(Len(Files) + 1)
    /\ todo \subseteq Ids
    /\ updates \in 0..MaxUpdates
    /\ faults \in 0..MaxFaults
    /\ alone \in BOOLEAN
    /\ untouched \in BOOLEAN

(* An installation with no update left to recover is whole, wherever the   *)
(* update, its rollback and their recovery failed, were killed or met a    *)
(* restart of the Mac: its files are all of one release, unless an update  *)
(* began over one that was still to be recovered; and its database is one  *)
(* that release can open, unless moreover the database was ever migrated   *)
(* while a journal said installing. No other order of faults breaks it.    *)
NoUpdateIsHalfDone ==
    cmd = "idle" /\ Open = {} =>
        /\ alone => \A f, g \in DOMAIN Files : files[f] = files[g]
        /\ alone /\ untouched => db <= InstalledDaemon

(* An update that died or could not be rolled back is finished by the      *)
(* commands that follow, whatever happened before: its directory goes and  *)
(* the daemon is loaded again. It runs the release that is installed,      *)
(* except after one of the two things the journal relies on was broken,    *)
(* when it may keep running the other release or fail to open the database.*)
InterruptedIsFinished ==
    cmd = "idle" /\ Open # {} ~>
        /\ Open = {} /\ daemon # Off
        /\ alone /\ untouched => daemon = InstalledDaemon

=============================================================================
