----------------------------- MODULE DataDirectory -----------------------------
(***************************************************************************)
(* The database file of a data directory: the server that writes it,       *)
(* --restore, which replaces it in several file operations, --set-pin,     *)
(* which opens it whoever runs, and the lock (__main__.py, instance_lock   *)
(* and persistence/database.py).                                           *)
(*                                                                         *)
(* Any file operation may fail, and a process may stop after any of them.  *)
(* A database is the commits it holds and the file it comes from; its      *)
(* write-ahead log stays beside its path, so it may outlive a rename.  The *)
(* files of an earlier restore are told apart by their token: what matters *)
(* of them, of backups and of archived candidates, is what they keep.      *)
(***************************************************************************)
EXTENDS Integers, FiniteSets

CONSTANTS
  MaxCommits, \* bounds the server's transactions
  MaxActs,    \* bounds what the operator starts
  MaxFaults   \* bounds failing operations and stopped processes

ASSUME DirectoryAssumption ==
  MaxCommits \in Nat /\ MaxActs \in Nat /\ MaxFaults \in Nat

VARIABLES
  live, rollback, candidate, \* the database, and what restore_database calls so
  log,     \* the live path's write-ahead log: its file, and what only it holds
  kept,    \* commits in backups and in files restores left behind
  lock,    \* the process that holds the instance lock
  restore, \* where restore_database is, and what it knows
  commits, \* how many transactions the server committed
  acts, faults

files == <<live, rollback, candidate, log, kept>>
directoryVars == <<files, lock, restore, commits, acts, faults>>

(* Commit 0 is the data that was there at first. *)
Commits == 0..MaxCommits
Origins == {"installed", "source", "fresh"}

Missing == [file |-> "none", rows |-> {}, whole |-> FALSE]
Installed == [file |-> "installed", rows |-> {0}, whole |-> TRUE]
Fresh == [file |-> "fresh", rows |-> {}, whole |-> TRUE]
Source == [file |-> "source", rows |-> {}, whole |-> TRUE]

NoLog == [file |-> "none", rows |-> {}]
NoRestore == [step |-> "none", before |-> Missing, replaced |-> FALSE,
              unarchived |-> FALSE, outcome |-> "none"]

Databases == [file : Origins \cup {"none"}, rows : SUBSET Commits, whole : BOOLEAN]
Steps == {"none", "copy", "backup", "move", "place", "check", "archive", "putback", "drop"}
Restores == [step : Steps, before : Databases, replaced : BOOLEAN, unarchived : BOOLEAN,
             outcome : {"none", "done", "failed", "stuck"}]

DirectoryTypeOK ==
  /\ {live, rollback, candidate} \subseteq Databases
  /\ log \in [file : Origins \cup {"none"}, rows : SUBSET Commits]
  /\ kept \subseteq Commits
  /\ lock \in {"none", "server", "restore"}
  /\ restore \in Restores
  /\ lock = "restore" <=> restore.step # "none"
  /\ rollback # Missing => restore.step \in {"place", "check", "archive", "putback", "drop"}
  /\ commits \in Commits
  /\ acts \in 0..MaxActs /\ faults \in 0..MaxFaults

(* A missing database: its data is in the backup that is to be restored.   *)
DirectoryInit ==
  /\ live \in {Installed, Missing}
  /\ rollback = Missing /\ candidate = Missing
  /\ log = NoLog
  /\ kept = IF live = Missing THEN {0} ELSE {}
  /\ lock = "none" /\ restore = NoRestore /\ commits = 0
  /\ acts = 0 /\ faults = 0

Act == acts < MaxActs /\ acts' = acts + 1 /\ UNCHANGED faults
Fault == faults < MaxFaults /\ faults' = faults + 1 /\ UNCHANGED acts
NoFault == UNCHANGED <<acts, faults>>

(* SQLite plays a log beside a database back into it, whoever wrote it.    *)
Foreign(database) == log.file \notin {"none", database.file}

Opened(database) ==
  CASE database = Missing -> Fresh
    [] database # Missing /\ Foreign(database) -> [database EXCEPT !.whole = FALSE]
    [] OTHER -> database

(* The file alone, without what its log holds. *)
Moved(database) ==
  IF log.file = database.file THEN [database EXCEPT !.rows = @ \ log.rows] ELSE database

Rows(database) == IF database.whole THEN database.rows ELSE {}
-------------------------------------------------------------------------------
(* Mutant: the lock is taken whoever holds it. *)
AcquireHeld(process) == lock' = process

Acquire(process) == lock = "none" /\ lock' = process

(* create_app opens the database; it stays open. *)
StartServer ==
  /\ Act
  /\ Acquire("server")
  /\ Opened(live).whole
  /\ live' = Opened(live)
  /\ log' = [file |-> live'.file, rows |-> {}]
  /\ UNCHANGED <<rollback, candidate, kept, restore, commits>>

(* A transaction is in the log until the database is closed. *)
Commit ==
  /\ lock = "server"
  /\ commits < MaxCommits
  /\ commits' = commits + 1
  /\ live' = [live EXCEPT !.rows = @ \cup {commits'}]
  /\ log' = [log EXCEPT !.rows = @ \cup {commits'}]
  /\ NoFault
  /\ UNCHANGED <<rollback, candidate, kept, lock, restore>>

StopServer ==
  /\ lock = "server"
  /\ lock' = "none"
  /\ log' = NoLog
  /\ NoFault
  /\ UNCHANGED <<live, rollback, candidate, kept, restore, commits>>

CrashServer ==
  /\ Fault
  /\ lock = "server"
  /\ lock' = "none"
  /\ UNCHANGED <<files, restore, commits>>

(* set_admin_pin takes no lock.  It opens, writes and closes in one step.  *)
SetPinOffline ==
  /\ Act
  /\ Opened(live).whole
  /\ live' = Opened(live)
  /\ log' = IF lock = "server" THEN log ELSE NoLog
  /\ UNCHANGED <<rollback, candidate, kept, lock, restore, commits>>
-------------------------------------------------------------------------------
At(step) == lock = "restore" /\ restore.step = step

Go(step) == restore' = [restore EXCEPT !.step = step]

(* The process ends; what it left behind is not touched by another. *)
End(outcome) ==
  /\ restore' = [restore EXCEPT !.step = "none", !.outcome = outcome]
  /\ lock' = "none"

(* A source that validate_backup refuses changes nothing. *)
BeginRestore ==
  /\ Act
  /\ Acquire("restore")
  /\ restore' = [NoRestore EXCEPT !.step = "copy", !.before = live]
  /\ UNCHANGED <<files, commits>>

(* copy2 and validate_backup.  A failure here leaves the candidate's file  *)
(* under this restore's token, where no other restore looks for it.        *)
CopyCandidate ==
  /\ At("copy")
  /\ \/ NoFault /\ candidate' = Source /\ Go("backup") /\ UNCHANGED lock
     \/ Fault /\ End("failed") /\ UNCHANGED candidate
  /\ UNCHANGED <<live, rollback, log, kept, commits>>

(* Mutant: a backup that fails is taken for one that is not needed. *)
BackUpLiveOrGoOn ==
  /\ At("backup")
  /\ live' = IF live = Missing THEN live ELSE Opened(live)
  /\ log' = IF live = Missing THEN log ELSE NoLog
  /\ \/ NoFault /\ kept' = kept \cup Rows(live')
     \/ Fault /\ live # Missing /\ UNCHANGED kept
  /\ Go("move")
  /\ UNCHANGED <<rollback, candidate, lock, commits>>

(* The pre-restore backup opens and closes the live database, if any.  One *)
(* that is torn cannot be opened, and one that fails ends the restore (and  *)
(* leaves the candidate's file, as above).                                 *)
BackUpLive ==
  /\ At("backup")
  /\ \/ /\ live = Missing
        /\ NoFault /\ Go("move")
        /\ UNCHANGED <<live, log, candidate, kept, lock>>
     \/ /\ live # Missing /\ Opened(live).whole
        /\ NoFault /\ Go("move")
        /\ live' = Opened(live) /\ log' = NoLog
        /\ kept' = kept \cup Rows(live')
        /\ UNCHANGED <<candidate, lock>>
     \/ /\ live # Missing
        /\ IF Opened(live).whole THEN Fault ELSE NoFault
        /\ End("failed")
        /\ candidate' = Missing
        /\ UNCHANGED <<live, log, kept>>
  /\ UNCHANGED <<rollback, commits>>

(* The first replace of the try: the live database goes to rollback. *)
MoveAside ==
  /\ At("move")
  /\ \/ /\ NoFault /\ Go("place")
        /\ IF live = Missing THEN UNCHANGED <<live, rollback>>
                             ELSE rollback' = Moved(live) /\ live' = Missing
     \/ /\ Fault /\ live # Missing
        /\ Go("putback")
        /\ UNCHANGED <<live, rollback>>
  /\ UNCHANGED <<candidate, log, kept, lock, commits>>

Place ==
  /\ At("place")
  /\ \/ /\ NoFault
        /\ live' = candidate /\ candidate' = Missing
        /\ restore' = [restore EXCEPT !.step = "check", !.replaced = TRUE]
     \/ Fault /\ Go("putback") /\ UNCHANGED <<live, candidate>>
  /\ UNCHANGED <<rollback, log, kept, lock, commits>>

(* The candidate is opened, migrated, closed and validated.  If opening it *)
(* raises, its connection stays open and its log stays beside the path.    *)
CheckInstalled ==
  /\ At("check")
  /\ \/ /\ Opened(live).whole
        /\ NoFault /\ Go("drop")
        /\ live' = Opened(live) /\ log' = NoLog
     \/ /\ Fault /\ Go("archive")
        /\ log' \in {NoLog, [file |-> live.file, rows |-> {}]}
        /\ UNCHANGED live
  /\ UNCHANGED <<rollback, candidate, kept, lock, commits>>

(* The failed candidate goes to backups/, which may fail as well. *)
ArchiveFailed ==
  /\ At("archive")
  /\ \/ NoFault /\ Go("putback") /\ kept' = kept \cup Rows(Moved(live)) /\ live' = Missing
     \/ /\ Fault
        /\ restore' = [restore EXCEPT !.step = "putback", !.unarchived = TRUE]
        /\ UNCHANGED <<live, kept>>
  /\ UNCHANGED <<rollback, candidate, log, lock, commits>>

(* Leaves the handler: the candidate is removed, and what is still at      *)
(* rollback stays under this restore's token.                              *)
Leave(outcome) ==
  /\ End(outcome)
  /\ candidate' = Missing

(* Mutant: nothing is put back when the candidate could not be archived. *)
PutBackIfArchived ==
  /\ At("putback")
  /\ NoFault
  /\ IF rollback # Missing /\ ~restore.unarchived
     THEN live' = rollback /\ rollback' = Missing /\ log' = NoLog
     ELSE UNCHANGED <<live, rollback, log>>
  /\ Leave("failed")
  /\ UNCHANGED <<kept, commits>>

(* The prior database overwrites what is there and is opened again: beside *)
(* the log of the candidate it is torn, and opening it may raise.          *)
PutBack ==
  /\ At("putback")
  /\ \/ /\ rollback # Missing
        /\ rollback' = Missing
        /\ live' = Opened(rollback) /\ log' = NoLog
        /\ \/ NoFault /\ Leave("failed")
           \/ NoFault /\ Foreign(rollback) /\ Leave("stuck")
           \/ Fault /\ Leave("stuck")
        /\ UNCHANGED kept
     \/ /\ rollback # Missing
        /\ Fault /\ Leave("stuck")
        /\ rollback' = Missing /\ kept' = kept \cup Rows(rollback)
        /\ UNCHANGED <<live, log>>
     \/ /\ rollback = Missing
        /\ live' = IF restore.replaced /\ restore.unarchived THEN Missing ELSE live
        /\ NoFault /\ Leave("failed")
        /\ UNCHANGED <<rollback, log, kept>>
  /\ UNCHANGED commits

(* The restored database is in use; the prior one is in its backup.  An    *)
(* unlink that fails is reported, although the restore is done.            *)
DropRollback ==
  /\ At("drop")
  /\ End("done")
  /\ rollback' = Missing
  /\ \/ NoFault /\ UNCHANGED kept
     \/ Fault /\ rollback # Missing /\ kept' = kept \cup Rows(rollback)
  /\ UNCHANGED <<live, candidate, log, commits>>

CrashRestore ==
  /\ Fault
  /\ lock = "restore"
  /\ End("none")
  /\ rollback' = Missing /\ candidate' = Missing
  /\ kept' = kept \cup Rows(rollback)
  /\ UNCHANGED <<live, log, commits>>

RestoreStep ==
  \/ BeginRestore \/ CopyCandidate \/ BackUpLive \/ MoveAside \/ Place \/ CheckInstalled
  \/ ArchiveFailed \/ PutBack \/ DropRollback \/ CrashRestore
-------------------------------------------------------------------------------
(* What the server committed, and what was there before it, is always in   *)
(* the database, in the rollback file of the restore under way or in a     *)
(* file kept beside them, whatever fails or stops between two operations   *)
(* of a restore, of a server and of --set-pin (README.md:170: "an          *)
(* automatic pre-restore backup is retained").                             *)
CommittedDataSurvives ==
  0..commits \subseteq Rows(live) \cup Rows(rollback) \cup kept

(* The prior database is put back beside the log of the candidate, which   *)
(* tears it.                                                               *)
PutBackTorn == At("putback") /\ rollback # Missing /\ Foreign(rollback)

(* A restore that reports a failure leaves the database it found; only     *)
(* where the candidate's log stayed beside the path it does not, and then  *)
(* the pre-restore backup has its data.  One that reports that it could    *)
(* not put the prior database back leaves its data in the database or in a *)
(* file beside it (README.md:170: "an automatic pre-restore backup is      *)
(* retained, and a failed replacement restores the prior live database").  *)
FailedRestoreKeepsPrior ==
  [][lock = "restore" /\ lock' = "none" /\ restore.before # Missing =>
       /\ restore'.outcome = "failed" =>
            \/ Rows(live') = Rows(restore.before)
            \/ PutBackTorn /\ Rows(restore.before) \subseteq kept'
       /\ restore'.outcome = "stuck" =>
            Rows(restore.before) \subseteq Rows(live') \cup kept']_directoryVars
-------------------------------------------------------------------------------
(* Why they hold: before its first replace a restore has a backup of all   *)
(* that was committed and of the database it found, so that no later step  *)
(* can lose it, ...                                                        *)
DataIsKept ==
  /\ 0..commits \subseteq Rows(live) \cup kept
  /\ restore.step \in {"move", "place", "check", "archive", "putback", "drop"} =>
       0..commits \cup Rows(restore.before) \subseteq kept

(* ... no transaction is committed to a torn database, ...                 *)
ServerHasWhole == lock = "server" => live.whole

(* ... and until it is done the prior database is the live one or the one  *)
(* aside, moved there without a log of its own.                            *)
PriorIsHeld ==
  restore.before # Missing =>
    /\ restore.step \in {"copy", "backup", "move"} =>
         live = restore.before /\ ~restore.replaced
    /\ restore.step = "move" => log = NoLog
    /\ restore.step \in {"place", "check", "archive"} => rollback = restore.before
    /\ restore.step = "putback" =>
         \/ rollback = restore.before
         \/ rollback = Missing /\ live = restore.before /\ ~restore.replaced

DirectoryInv == DirectoryTypeOK /\ DataIsKept /\ ServerHasWhole /\ PriorIsHeld
===============================================================================
