----------------------------- MODULE Service_proofs -----------------------------
(***************************************************************************)
(* Safety of an installation, for any number of commits, of restores and   *)
(* of failures, every queue size and every revision: Service's Inv is      *)
(* inductive, and the safety properties of the data directory and of the   *)
(* status stream follow.  The two parts share only the lock, so each is    *)
(* proved on its own and a step of one leaves the other as it is.          *)
(***************************************************************************)
EXTENDS Service, TLAPS

USE DirectoryAssumption, StreamAssumption

-------------------------------------------------------------------------------
(***************************************************************************)
(* The data directory.                                                     *)
(***************************************************************************)
DirectoryStep ==
  \/ StartServer \/ Commit \/ StopServer \/ CrashServer
  \/ SetPinOffline \/ RestoreStep \/ UNCHANGED directoryVars

LEMMA Constants ==
  /\ Missing \in Databases /\ Installed \in Databases
  /\ Fresh \in Databases /\ Source \in Databases
  /\ NoLog \in [file : Origins \cup {"none"}, rows : SUBSET Commits]
  /\ NoRestore \in Restores /\ NoRestore.step = "none"
BY DEF Missing, Installed, Fresh, Source, NoLog, NoRestore, Databases, Origins, Commits,
       Restores, Steps

(* A database that opens whole holds the rows it held. *)
LEMMA OpenedWhole ==
  ASSUME NEW d \in Databases, log \in [file : Origins \cup {"none"}, rows : SUBSET Commits]
  PROVE  /\ Opened(d) \in Databases
         /\ Opened(d).whole => /\ Rows(d) \subseteq Rows(Opened(d))
                               /\ d # Missing => Opened(d) = d
         /\ ~Foreign(d) /\ d # Missing => Opened(d) = d
BY Constants DEF Opened, Rows, Databases, Missing, Fresh

LEMMA MovedType ==
  ASSUME NEW d \in Databases, log \in [file : Origins \cup {"none"}, rows : SUBSET Commits]
  PROVE  /\ Moved(d) \in Databases
         /\ log = NoLog => Moved(d) = d
BY DEF Moved, Databases, NoLog

LEMMA RowsType ==
  ASSUME NEW d \in Databases
  PROVE  Rows(d) \subseteq Commits
BY DEF Rows, Databases

(* Where a restore is, after a step of it. *)
LEMMA RestoreMoves ==
  ASSUME restore \in Restores, NEW step \in Steps, NEW outcome \in {"none", "done", "failed", "stuck"}
  PROVE  /\ Go(step) => /\ restore' \in Restores
                        /\ restore'.step = step /\ restore'.before = restore.before
                        /\ restore'.replaced = restore.replaced
         /\ End(outcome) => /\ restore' \in Restores
                            /\ restore'.step = "none" /\ restore'.before = restore.before
                            /\ restore'.outcome = outcome /\ lock' = "none"
BY DEF Go, End, Restores, Steps

LEMMA Counters ==
  ASSUME acts \in 0..MaxActs, faults \in 0..MaxFaults, Act \/ Fault \/ NoFault
  PROVE  acts' \in 0..MaxActs /\ faults' \in 0..MaxFaults
BY DEF Act, Fault, NoFault

LEMMA DirectoryInitInv == DirectoryInit => DirectoryInv
<1>. SUFFICES ASSUME DirectoryInit PROVE DirectoryInv
  OBVIOUS
<1>1. DirectoryTypeOK
  <2>1. live \in Databases /\ rollback \in Databases /\ candidate \in Databases
    BY Constants DEF DirectoryInit
  <2>2. kept \subseteq Commits /\ commits \in Commits
    BY DEF DirectoryInit, Commits
  <2>3. lock = "none" /\ restore \in Restores /\ restore.step = "none" /\ rollback = Missing
    BY Constants DEF DirectoryInit
  <2>4. acts \in 0..MaxActs /\ faults \in 0..MaxFaults
    BY DEF DirectoryInit
  <2>5. log = NoLog
    BY DEF DirectoryInit
  <2>. QED  BY <2>1, <2>2, <2>3, <2>4, <2>5, Constants DEF DirectoryTypeOK
<1>2. DataIsKept
  BY DEF DirectoryInit, DataIsKept, NoRestore, Rows, Installed, Missing
<1>3. ServerHasWhole /\ PriorIsHeld
  BY DEF DirectoryInit, ServerHasWhole, PriorIsHeld, NoRestore
<1>. QED  BY <1>1, <1>2, <1>3 DEF DirectoryInv

(* What every step of the restore keeps, and what it is about. *)
LEMMA TypeFields ==
  ASSUME DirectoryInv
  PROVE  /\ live \in Databases /\ rollback \in Databases /\ candidate \in Databases
         /\ log \in [file : Origins \cup {"none"}, rows : SUBSET Commits]
         /\ restore \in Restores /\ restore.before \in Databases
         /\ kept \subseteq Commits /\ commits \in Commits
         /\ acts \in 0..MaxActs /\ faults \in 0..MaxFaults
BY DEF DirectoryInv, DirectoryTypeOK, Restores

LEMMA ServerSteps ==
  ASSUME DirectoryInv, StartServer \/ Commit \/ StopServer \/ CrashServer \/ SetPinOffline
  PROVE  DirectoryInv'
<1>1. CASE StartServer
  BY <1>1, TypeFields, OpenedWhole, Counters, Constants
     DEF DirectoryInv, DirectoryTypeOK, DataIsKept, ServerHasWhole, PriorIsHeld, StartServer, Acquire,
         Databases
<1>2. CASE Commit
  BY <1>2, TypeFields, Counters
     DEF DirectoryInv, DirectoryTypeOK, DataIsKept, ServerHasWhole, PriorIsHeld, Commit,
         Databases, Commits, Rows
<1>3. CASE StopServer
  BY <1>3, TypeFields, Counters, Constants
     DEF DirectoryInv, DirectoryTypeOK, DataIsKept, ServerHasWhole, PriorIsHeld, StopServer
<1>4. CASE CrashServer
  BY <1>4, TypeFields, Counters
     DEF DirectoryInv, DirectoryTypeOK, DataIsKept, ServerHasWhole, PriorIsHeld, CrashServer, files
<1>5. CASE SetPinOffline
  BY <1>5, TypeFields, OpenedWhole, Counters, Constants
     DEF DirectoryInv, DirectoryTypeOK, DataIsKept, ServerHasWhole, PriorIsHeld, SetPinOffline
<1>. QED  BY <1>1, <1>2, <1>3, <1>4, <1>5

LEMMA RestoreBegins ==
  ASSUME DirectoryInv, BeginRestore \/ CopyCandidate \/ BackUpLive
  PROVE  DirectoryInv'
<1>1. CASE BeginRestore
  <2>1. /\ restore' = [NoRestore EXCEPT !.step = "copy", !.before = live]
        /\ lock = "none" /\ lock' = "restore" /\ UNCHANGED <<files, commits>>
        /\ acts' \in 0..MaxActs /\ faults' \in 0..MaxFaults
    BY <1>1, TypeFields, Counters DEF BeginRestore, Acquire
  <2>2. restore' \in Restores /\ restore'.step = "copy" /\ restore'.before = live
      /\ ~restore'.replaced
    BY <2>1, TypeFields DEF NoRestore, Restores, Steps
  <2>3. restore.step = "none" /\ rollback = Missing
    BY <2>1 DEF DirectoryInv, DirectoryTypeOK
  <2>. QED  BY <2>1, <2>2, <2>3, TypeFields
            DEF DirectoryInv, DirectoryTypeOK, DataIsKept, ServerHasWhole, PriorIsHeld, files
<1>2. CASE CopyCandidate
  <2>1. /\ lock = "restore" /\ restore.step = "copy"
        /\ UNCHANGED <<live, rollback, log, kept, commits>>
        /\ acts' \in 0..MaxActs /\ faults' \in 0..MaxFaults
        /\ \/ candidate' = Source /\ Go("backup") /\ UNCHANGED lock
           \/ End("failed") /\ UNCHANGED candidate
    BY <1>2, TypeFields, Counters DEF CopyCandidate, At
  <2>2. /\ restore' \in Restores /\ restore'.before = restore.before
        /\ \/ restore'.step = "backup" /\ restore'.replaced = restore.replaced /\ UNCHANGED lock
           \/ restore'.step = "none" /\ lock' = "none"
    BY <2>1, TypeFields, RestoreMoves DEF Steps
  <2>. QED  BY <2>1, <2>2, TypeFields, Constants
            DEF DirectoryInv, DirectoryTypeOK, DataIsKept, ServerHasWhole, PriorIsHeld
<1>3. CASE BackUpLive
  <2>1. /\ lock = "restore" /\ restore.step = "backup"
        /\ UNCHANGED <<rollback, commits>> /\ rollback = Missing
        /\ acts' \in 0..MaxActs /\ faults' \in 0..MaxFaults
    BY <1>3, TypeFields, Counters DEF BackUpLive, At, DirectoryInv, DirectoryTypeOK
  <2>2. CASE live = Missing /\ Go("move") /\ UNCHANGED <<live, log, candidate, kept, lock>>
    <3>1. restore' \in Restores /\ restore'.before = restore.before /\ restore'.step = "move"
          /\ restore'.replaced = restore.replaced
      BY <2>2, TypeFields, RestoreMoves DEF Steps
    <3>2. 0..commits \subseteq kept /\ Rows(restore.before) = {}
      BY <2>1, <2>2 DEF DirectoryInv, DataIsKept, PriorIsHeld, Rows, Missing
    <3>. QED  BY <2>1, <2>2, <3>1, <3>2, TypeFields
              DEF DirectoryInv, DirectoryTypeOK, DataIsKept, ServerHasWhole, PriorIsHeld
  <2>3. CASE /\ live # Missing /\ Opened(live).whole /\ Go("move")
             /\ live' = Opened(live) /\ log' = NoLog
             /\ kept' = kept \cup Rows(live')
             /\ UNCHANGED <<candidate, lock>>
    <3>1. restore' \in Restores /\ restore'.before = restore.before /\ restore'.step = "move"
          /\ restore'.replaced = restore.replaced
      BY <2>3, TypeFields, RestoreMoves DEF Steps
    <3>2. live' = live
      BY <2>3, TypeFields, OpenedWhole
    <3>3. /\ 0..commits \subseteq kept' /\ kept' \subseteq Commits
          /\ Rows(restore.before) \subseteq kept'
      BY <2>1, <2>3, <3>2, TypeFields, RowsType
         DEF DirectoryInv, DataIsKept, PriorIsHeld, Rows, Missing
    <3>. QED  BY <2>1, <2>3, <3>1, <3>2, <3>3, TypeFields, Constants
              DEF DirectoryInv, DirectoryTypeOK, DataIsKept, ServerHasWhole, PriorIsHeld
  <2>4. CASE End("failed") /\ candidate' = Missing /\ UNCHANGED <<live, log, kept>>
    <3>1. restore' \in Restores /\ restore'.before = restore.before /\ restore'.step = "none"
          /\ lock' = "none"
      BY <2>4, TypeFields, RestoreMoves DEF Steps
    <3>. QED  BY <2>1, <2>4, <3>1, TypeFields, Constants
              DEF DirectoryInv, DirectoryTypeOK, DataIsKept, ServerHasWhole, PriorIsHeld
  <2>. QED  BY <1>3, <2>2, <2>3, <2>4 DEF BackUpLive
<1>. QED  BY <1>1, <1>2, <1>3

LEMMA RestoreReplaces ==
  ASSUME DirectoryInv, MoveAside \/ Place \/ CheckInstalled \/ ArchiveFailed
  PROVE  DirectoryInv'
<1>1. CASE MoveAside
  <2>1. /\ lock = "restore" /\ restore.step = "move" /\ rollback = Missing
        /\ UNCHANGED <<candidate, log, kept, lock, commits>>
        /\ acts' \in 0..MaxActs /\ faults' \in 0..MaxFaults
    BY <1>1, TypeFields, Counters DEF MoveAside, At, DirectoryInv, DirectoryTypeOK
  <2>2. CASE Go("place") /\ IF live = Missing THEN UNCHANGED <<live, rollback>>
                            ELSE rollback' = Moved(live) /\ live' = Missing
    <3>1. restore' \in Restores /\ restore'.before = restore.before /\ restore'.step = "place"
      BY <2>2, TypeFields, RestoreMoves DEF Steps
    <3>2. Moved(live) \in Databases /\ (log = NoLog => Moved(live) = live)
      BY TypeFields, MovedType
    <3>. QED  BY <2>1, <2>2, <3>1, <3>2, TypeFields, Constants
              DEF DirectoryInv, DirectoryTypeOK, DataIsKept, ServerHasWhole, PriorIsHeld
  <2>3. CASE live # Missing /\ Go("putback") /\ UNCHANGED <<live, rollback>>
    <3>1. restore' \in Restores /\ restore'.before = restore.before /\ restore'.step = "putback"
          /\ restore'.replaced = restore.replaced
      BY <2>3, TypeFields, RestoreMoves DEF Steps
    <3>. QED  BY <2>1, <2>3, <3>1, TypeFields
              DEF DirectoryInv, DirectoryTypeOK, DataIsKept, ServerHasWhole, PriorIsHeld
  <2>. QED  BY <1>1, <2>2, <2>3 DEF MoveAside
<1>2. CASE Place
  <2>1. /\ lock = "restore" /\ restore.step = "place"
        /\ UNCHANGED <<rollback, log, kept, lock, commits>>
        /\ acts' \in 0..MaxActs /\ faults' \in 0..MaxFaults
    BY <1>2, TypeFields, Counters DEF Place, At
  <2>2. CASE /\ live' = candidate /\ candidate' = Missing
             /\ restore' = [restore EXCEPT !.step = "check", !.replaced = TRUE]
    <3>1. restore' \in Restores /\ restore'.before = restore.before /\ restore'.step = "check"
      BY <2>2, TypeFields DEF Restores, Steps
    <3>. QED  BY <2>1, <2>2, <3>1, TypeFields, Constants
              DEF DirectoryInv, DirectoryTypeOK, DataIsKept, ServerHasWhole, PriorIsHeld
  <2>3. CASE Go("putback") /\ UNCHANGED <<live, candidate>>
    <3>1. restore' \in Restores /\ restore'.before = restore.before /\ restore'.step = "putback"
      BY <2>3, TypeFields, RestoreMoves DEF Steps
    <3>. QED  BY <2>1, <2>3, <3>1, TypeFields
              DEF DirectoryInv, DirectoryTypeOK, DataIsKept, ServerHasWhole, PriorIsHeld
  <2>. QED  BY <1>2, <2>2, <2>3 DEF Place
<1>3. CASE CheckInstalled
  <2>1. /\ lock = "restore" /\ restore.step = "check"
        /\ UNCHANGED <<rollback, candidate, kept, lock, commits>>
        /\ acts' \in 0..MaxActs /\ faults' \in 0..MaxFaults
    BY <1>3, TypeFields, Counters DEF CheckInstalled, At
  <2>2. live' \in Databases
        /\ log' \in [file : Origins \cup {"none"}, rows : SUBSET Commits]
    BY <1>3, TypeFields, OpenedWhole, Constants DEF CheckInstalled, Databases
  <2>3. /\ restore' \in Restores /\ restore'.before = restore.before
        /\ restore'.step \in {"drop", "archive"}
    BY <1>3, TypeFields, RestoreMoves DEF CheckInstalled, Steps
  <2>. QED  BY <2>1, <2>2, <2>3, TypeFields
            DEF DirectoryInv, DirectoryTypeOK, DataIsKept, ServerHasWhole, PriorIsHeld
<1>4. CASE ArchiveFailed
  <2>1. /\ lock = "restore" /\ restore.step = "archive"
        /\ UNCHANGED <<rollback, candidate, log, lock, commits>>
        /\ acts' \in 0..MaxActs /\ faults' \in 0..MaxFaults
    BY <1>4, TypeFields, Counters DEF ArchiveFailed, At
  <2>2. /\ live' \in Databases
        /\ kept \subseteq kept' /\ kept' \subseteq Commits
    <3>1. Moved(live) \in Databases
      BY TypeFields, MovedType
    <3>. QED  BY <1>4, <3>1, TypeFields, RowsType, Constants DEF ArchiveFailed
  <2>3. /\ restore' \in Restores /\ restore'.before = restore.before
        /\ restore'.step = "putback"
    <3>1. CASE Go("putback")
      BY <3>1, TypeFields, RestoreMoves DEF Steps
    <3>2. CASE restore' = [restore EXCEPT !.step = "putback", !.unarchived = TRUE]
      BY <3>2, TypeFields DEF Restores, Steps
    <3>. QED  BY <1>4, <3>1, <3>2 DEF ArchiveFailed
  <2>. QED  BY <2>1, <2>2, <2>3, TypeFields
            DEF DirectoryInv, DirectoryTypeOK, DataIsKept, ServerHasWhole, PriorIsHeld
<1>. QED  BY <1>1, <1>2, <1>3, <1>4

(* A restore that ends leaves nothing aside; what it forgets is kept. *)
LEMMA RestoreEnds ==
  ASSUME DirectoryInv, PutBack \/ DropRollback \/ CrashRestore
  PROVE  DirectoryInv'
<1>1. PICK outcome \in {"none", "done", "failed", "stuck"} : End(outcome)
  BY DEF PutBack, DropRollback, CrashRestore, Leave
<1>2. restore' \in Restores /\ restore'.step = "none" /\ lock' = "none"
  BY <1>1, TypeFields, RestoreMoves DEF Steps
<1>3. acts' \in 0..MaxActs /\ faults' \in 0..MaxFaults
  BY TypeFields, Counters DEF PutBack, DropRollback, CrashRestore
<1>4. candidate' \in Databases /\ rollback' \in Databases /\ rollback' = Missing
  BY TypeFields, Constants DEF PutBack, DropRollback, CrashRestore, Leave
<1>5. /\ live' \in Databases
      /\ log' \in [file : Origins \cup {"none"}, rows : SUBSET Commits]
  BY TypeFields, OpenedWhole, Constants DEF PutBack, DropRollback, CrashRestore
<1>6. kept \subseteq kept' /\ kept' \subseteq Commits
  BY TypeFields, RowsType DEF PutBack, DropRollback, CrashRestore
<1>7. UNCHANGED commits
  BY DEF PutBack, DropRollback, CrashRestore
<1>8. 0..commits \subseteq kept' \cup Rows(live')
  <2>1. CASE PutBack \/ DropRollback
    BY <1>6, <2>1 DEF PutBack, DropRollback, At, DirectoryInv, DataIsKept
  <2>2. CASE CrashRestore
    BY <1>6, <2>2 DEF CrashRestore, DirectoryInv, DataIsKept, Rows
  <2>. QED  BY <2>1, <2>2
<1>9. DirectoryTypeOK'
  <2>1. commits' \in Commits
    BY <1>7, TypeFields
  <2>. QED  BY <1>2, <1>3, <1>4, <1>5, <1>6, <2>1 DEF DirectoryTypeOK
<1>10. DataIsKept' /\ ServerHasWhole' /\ PriorIsHeld'
  BY <1>2, <1>7, <1>8 DEF DataIsKept, ServerHasWhole, PriorIsHeld
<1>. QED  BY <1>9, <1>10 DEF DirectoryInv

LEMMA DirectoryStepInv == DirectoryInv /\ DirectoryStep => DirectoryInv'
<1>1. ASSUME DirectoryInv, UNCHANGED directoryVars
      PROVE  DirectoryInv'
  BY <1>1 DEF directoryVars, files, DirectoryInv, DirectoryTypeOK, DataIsKept, ServerHasWhole,
              PriorIsHeld, Rows
<1>. QED  BY <1>1, ServerSteps, RestoreBegins, RestoreReplaces, RestoreEnds
          DEF DirectoryStep, RestoreStep

LEMMA DirectorySurvives == DirectoryInv => CommittedDataSurvives
BY DEF DirectoryInv, DataIsKept, CommittedDataSurvives

(* The restore ends in PutBack, in BackUpLive or CopyCandidate before the  *)
(* first replace, in DropRollback or by a crash.                           *)
LEMMA FailedRestoreStep ==
  ASSUME DirectoryInv, DirectoryStep,
         lock = "restore", lock' = "none", restore.before # Missing
  PROVE  /\ restore'.outcome = "failed" =>
              \/ Rows(live') = Rows(restore.before)
              \/ PutBackTorn /\ Rows(restore.before) \subseteq kept'
         /\ restore'.outcome = "stuck" => Rows(restore.before) \subseteq Rows(live') \cup kept'
<1>1. \A outcome \in {"none", "done", "failed", "stuck"} :
        End(outcome) => restore'.outcome = outcome
  BY TypeFields, RestoreMoves DEF Steps
<1>2. CASE CopyCandidate
  <2>1. End("failed") /\ live' = live /\ restore.step = "copy"
    BY <1>2 DEF CopyCandidate, At
  <2>2. live = restore.before
    BY <2>1 DEF DirectoryInv, PriorIsHeld
  <2>. QED  BY <1>1, <2>1, <2>2
<1>3. CASE BackUpLive
  <2>1. End("failed") /\ live' = live /\ restore.step = "backup"
    BY <1>3 DEF BackUpLive, At
  <2>2. live = restore.before
    BY <2>1 DEF DirectoryInv, PriorIsHeld
  <2>. QED  BY <1>1, <2>1, <2>2
<1>4. CASE PutBack
  <2>1. \/ rollback = restore.before
        \/ rollback = Missing /\ live = restore.before /\ ~restore.replaced
    BY <1>4 DEF PutBack, At, DirectoryInv, PriorIsHeld
  <2>2. Rows(restore.before) \subseteq kept'
    BY <1>4, RowsType DEF PutBack, At, DirectoryInv, DataIsKept
  <2>3. CASE rollback # Missing /\ live' = Opened(rollback) /\ Foreign(rollback)
    <3>1. PutBackTorn
      BY <1>4, <2>3 DEF PutBack, PutBackTorn
    <3>. QED  BY <2>2, <3>1
  <2>4. CASE rollback # Missing /\ live' = Opened(rollback) /\ ~Foreign(rollback)
    <3>1. live' = rollback /\ rollback = restore.before
      BY <2>1, <2>4, TypeFields, OpenedWhole
    <3>. QED  BY <3>1
  <2>5. CASE Leave("stuck")
    BY <1>1, <2>2, <2>5 DEF Leave
  <2>6. CASE rollback = Missing
    <3>1. live' = live /\ Leave("failed")
      BY <1>4, <2>1, <2>6 DEF PutBack
    <3>. QED  BY <1>1, <2>1, <2>6, <3>1 DEF Leave
  <2>. QED  BY <1>4, <2>3, <2>4, <2>5, <2>6 DEF PutBack
<1>5. CASE DropRollback \/ CrashRestore
  BY <1>1, <1>5 DEF DropRollback, CrashRestore
<1>6. CASE BeginRestore \/ MoveAside \/ Place \/ CheckInstalled \/ ArchiveFailed
  BY <1>6 DEF BeginRestore, Acquire, MoveAside, Place, CheckInstalled, ArchiveFailed
<1>7. CASE StartServer \/ Commit \/ StopServer \/ CrashServer \/ SetPinOffline
           \/ UNCHANGED directoryVars
  BY <1>7 DEF StartServer, Acquire, Commit, StopServer, CrashServer, SetPinOffline, directoryVars
<1>. QED  BY <1>2, <1>3, <1>4, <1>5, <1>6, <1>7 DEF DirectoryStep, RestoreStep

-------------------------------------------------------------------------------
(***************************************************************************)
(* The status stream.                                                      *)
(***************************************************************************)
StreamAction == NewProcess \/ EndProcess \/ StreamStep \/ UNCHANGED streamVars

LEMMA Appended ==
  ASSUME NEW S, NEW s \in Seq(S), NEW x \in S
  PROVE  /\ Append(s, x) \in Seq(S) /\ Append(s, x) # << >>
         /\ Len(s) \in Nat /\ Len(Append(s, x)) = Len(s) + 1
         /\ Holds(Append(s, x), x)
         /\ \A y \in S : Holds(s, y) => Holds(Append(s, x), y)
         /\ \A i \in 1..Len(Append(s, x)) : Append(s, x)[i] = x \/ \E j \in 1..Len(s) : Append(s, x)[i] = s[j]
<1>. DEFINE a == Append(s, x)
<1>1. /\ a \in Seq(S) /\ Len(s) \in Nat /\ Len(a) = Len(s) + 1
      /\ \A i \in 1..Len(s) : a[i] = s[i]
      /\ a[Len(s) + 1] = x
  OBVIOUS
<1>. HIDE DEF a
<1>2. \A i \in 1..Len(a) : i \in 1..Len(s) \/ i = Len(s) + 1
  BY <1>1
<1>3. a # << >>
  BY <1>1
<1>4. \A i \in 1..Len(s) : i \in 1..Len(a)
  BY <1>1
<1>5. Len(s) + 1 \in 1..Len(a)
  BY <1>1
<1>6. Holds(a, x) /\ \A y \in S : Holds(s, y) => Holds(a, y)
  BY <1>1, <1>4, <1>5 DEF Holds
<1>. QED  BY <1>1, <1>2, <1>3, <1>6 DEF a

(* Only the head leaves. *)
LEMMA Behead ==
  ASSUME NEW S, NEW s \in Seq(S), s # << >>
  PROVE  /\ Tail(s) \in Seq(S) /\ Len(s) \in Nat \ {0} /\ Len(Tail(s)) = Len(s) - 1
         /\ Head(s) = s[1] /\ Head(s) \in S
         /\ \A y \in S : Holds(s, y) => y = Head(s) \/ Holds(Tail(s), y)
         /\ \A i \in 1..Len(Tail(s)) : \E j \in 1..Len(s) : Tail(s)[i] = s[j]
<1>1. Len(s) \in Nat \ {0} /\ Head(s) = s[1] /\ Head(s) \in S
  OBVIOUS
<1>. DEFINE t == Tail(s)
<1>2. t \in Seq(S) /\ Len(t) = Len(s) - 1 /\ \A i \in 1..Len(t) : t[i] = s[i + 1]
  BY <1>1
<1>. HIDE DEF t
<1>3. \A i \in 1..Len(t) : i + 1 \in 1..Len(s)
  BY <1>1, <1>2
<1>4. ASSUME NEW y \in S, NEW i \in 1..Len(s), s[i] = y, y # Head(s)
      PROVE  Holds(t, y)
  <2>1. i # 1
    BY <1>1, <1>4
  <2>2. i - 1 \in 1..Len(t) /\ t[i - 1] = s[(i - 1) + 1] /\ (i - 1) + 1 = i
    BY <1>1, <1>2, <2>1
  <2>. QED  BY <1>4, <2>2 DEF Holds
<1>5. \A y \in S : Holds(s, y) => y = Head(s) \/ Holds(t, y)
  BY <1>4 DEF Holds
<1>. QED  BY <1>1, <1>2, <1>3, <1>5 DEF t

LEMMA StreamFields ==
  ASSUME StreamInv
  PROVE  /\ revision \in Revisions /\ revision \in Nat /\ life \in Nat
         /\ socket \in {"closed", "accepted", "subscribed"}
         /\ queue \in Seq(Revisions) /\ wire \in Seq(Revisions)
         /\ Len(queue) \in Nat /\ Len(wire) \in Nat
         /\ latest \in Revisions /\ latest \in Nat
         /\ fetch.kind \in {"none", "sent", "answered"}
         /\ fetch.kind = "answered" => fetch.revision \in Revisions
         /\ page.revision \in Revisions /\ page.revision \in Nat
         /\ page.life \in 0..life
         /\ page = [revision |-> page.revision, life |-> page.life]
         /\ QueueSize \in Nat \ {0}
BY DEF StreamInv, StreamTypeOK, Revisions

LEMMA StreamInitInv == StreamInit => StreamInv
BY DEF StreamInit, StreamInv, StreamTypeOK, NothingFromTheFuture, NewestIsNotLost, Revisions,
       NoFetch, MaxWire

LEMMA StreamShowsNewest == StreamInv => PageShowsNewest
BY DEF StreamInv, NewestIsNotLost, Holds, PageShowsNewest

(* An applied snapshot is never newer than the state, and a page that      *)
(* shows a snapshot goes on showing it or a newer one.                     *)
LEMMA Applied ==
  ASSUME StreamInv, NEW snapshot \in Revisions, snapshot <= revision,
         Apply(snapshot), UNCHANGED <<revision, life, latest>>
  PROVE  /\ page' \in [revision : Revisions, life : 0..life']
         /\ page'.life = life' => page'.revision <= revision'
         /\ Shows(latest) => Shows(latest)'
         /\ snapshot = latest => Shows(latest)'
<1>1. snapshot \in Nat
  BY StreamFields DEF Revisions
<1>2. page.life = life => page.revision <= revision
  BY DEF StreamInv, NothingFromTheFuture
<1>3. page.life \in Nat /\ page.life <= life
  BY StreamFields
<1>4. CASE snapshot < page.revision
  <2>1. page' = page
    BY <1>4 DEF Apply
  <2>2. page' \in [revision : Revisions, life : 0..life']
    BY <2>1 DEF StreamInv, StreamTypeOK
  <2>3. Shows(latest) => Shows(latest)'
    BY <2>1 DEF Shows
  <2>4. snapshot = latest => Shows(latest)'
    BY <1>2, <1>3, <1>4, <2>1, StreamFields DEF Shows
  <2>. QED  BY <1>2, <2>1, <2>2, <2>3, <2>4
<1>5. CASE ~(snapshot < page.revision)
  <2>1. page' = [revision |-> snapshot, life |-> life] /\ page.revision <= snapshot
    BY <1>1, <1>5, StreamFields DEF Apply
  <2>2. Shows(latest) => latest <= snapshot
    BY <1>1, <2>1, StreamFields DEF Shows
  <2>3. latest <= snapshot => Shows(latest)'
    BY <1>1, <2>1, StreamFields DEF Shows
  <2>4. snapshot = latest => latest <= snapshot
    BY StreamFields
  <2>. QED  BY <2>1, <2>2, <2>3, <2>4, StreamFields
<1>. QED  BY <1>4, <1>5

(* What a snapshot put in a queue leaves there. *)
LEMMA OfferedFits ==
  ASSUME StreamInv, NEW snapshot \in Revisions
  PROVE  /\ Offered(snapshot) \in Seq(Revisions) /\ Len(Offered(snapshot)) <= QueueSize
         /\ Offered(snapshot) # << >>
         /\ Holds(Offered(snapshot), snapshot)
         /\ \A i \in 1..Len(Offered(snapshot)) :
               \/ Offered(snapshot)[i] = snapshot
               \/ \E j \in 1..Len(queue) : Offered(snapshot)[i] = queue[j]
<1>. DEFINE room == IF Len(queue) = QueueSize THEN Tail(queue) ELSE queue
<1>1. Len(queue) \in Nat /\ Len(queue) <= QueueSize /\ QueueSize \in Nat \ {0}
  BY StreamFields DEF StreamInv, StreamTypeOK
<1>2. /\ room \in Seq(Revisions) /\ Len(room) + 1 <= QueueSize
      /\ \A i \in 1..Len(room) : \E j \in 1..Len(queue) : room[i] = queue[j]
  <2>1. CASE Len(queue) = QueueSize
    <3>1. queue # << >>
      BY <1>1, <2>1
    <3>2. /\ Tail(queue) \in Seq(Revisions) /\ Len(Tail(queue)) = Len(queue) - 1
          /\ \A i \in 1..Len(Tail(queue)) : \E j \in 1..Len(queue) : Tail(queue)[i] = queue[j]
      BY <3>1, StreamFields, Behead
    <3>. QED  BY <1>1, <2>1, <3>2
  <2>2. CASE Len(queue) # QueueSize
    BY <1>1, <2>2, StreamFields
  <2>. QED  BY <2>1, <2>2
<1>3. Offered(snapshot) = Append(room, snapshot)
  BY DEF Offered
<1>. HIDE DEF room
<1>4. /\ Append(room, snapshot) \in Seq(Revisions) /\ Append(room, snapshot) # << >>
      /\ Len(Append(room, snapshot)) = Len(room) + 1
      /\ Holds(Append(room, snapshot), snapshot)
      /\ \A i \in 1..Len(Append(room, snapshot)) :
            \/ Append(room, snapshot)[i] = snapshot
            \/ \E j \in 1..Len(room) : Append(room, snapshot)[i] = room[j]
  BY <1>2, Appended
<1>5. Len(Offered(snapshot)) <= QueueSize
  BY <1>2, <1>3, <1>4
<1>6. \A i \in 1..Len(Append(room, snapshot)) :
            \/ Append(room, snapshot)[i] = snapshot
            \/ \E j \in 1..Len(queue) : Append(room, snapshot)[i] = queue[j]
  BY <1>2, <1>4
<1>. QED  BY <1>3, <1>4, <1>5, <1>6

(* What was not newer than the state is not when that is raised. *)
LEMMA Raised ==
  ASSUME StreamInv, revision' = revision + 1
  PROVE  /\ \A i \in 1..Len(queue) : queue[i] <= revision'
         /\ \A i \in 1..Len(wire) : wire[i] <= revision'
         /\ latest <= revision'
         /\ fetch.kind = "answered" => fetch.revision <= revision'
         /\ page.life = life => page.revision <= revision'
<1>1. \A n \in Nat : n <= revision => n <= revision'
  BY StreamFields
<1>2. \A r \in Revisions : r \in Nat
  BY DEF Revisions
<1>3. /\ \A i \in 1..Len(queue) : queue[i] \in Revisions
      /\ \A i \in 1..Len(wire) : wire[i] \in Revisions
  BY StreamFields
<1>4. fetch.kind = "answered" => fetch.revision \in Nat /\ fetch.revision <= revision
  BY StreamFields DEF StreamInv, NothingFromTheFuture, Revisions
<1>5. /\ latest \in Nat /\ latest <= revision
      /\ page.revision \in Nat /\ (page.life = life => page.revision <= revision)
  BY StreamFields DEF StreamInv, NothingFromTheFuture
<1>6. /\ \A i \in 1..Len(queue) : queue[i] <= revision
      /\ \A i \in 1..Len(wire) : wire[i] <= revision
  BY DEF StreamInv, NothingFromTheFuture
<1>7. /\ \A i \in 1..Len(queue) : queue[i] <= revision'
      /\ \A i \in 1..Len(wire) : wire[i] <= revision'
  BY <1>1, <1>2, <1>3, <1>6, Zenon
<1>. QED  BY <1>1, <1>4, <1>5, <1>7

LEMMA PublishInv == StreamInv /\ Publish => StreamInv'
<1>. SUFFICES ASSUME StreamInv, Publish PROVE StreamInv'
  OBVIOUS
<1>1. revision' \in Revisions /\ revision' = revision + 1 /\ revision \in Nat
  BY StreamFields DEF Publish, Revise, Revisions
<1>2. UNCHANGED <<life, socket, wire, fetch, page>>
  BY DEF Publish
<1>3. CASE socket = "subscribed"
  <2>1. queue' = Offered(revision') /\ latest' = revision'
    BY <1>3 DEF Publish
  <2>2. /\ queue' \in Seq(Revisions) /\ Len(queue') <= QueueSize
        /\ queue' # << >> /\ Holds(queue', revision')
        /\ \A i \in 1..Len(queue') : \/ queue'[i] = revision'
                                     \/ \E j \in 1..Len(queue) : queue'[i] = queue[j]
    BY <1>1, <2>1, OfferedFits
  <2>3. \A i \in 1..Len(queue') : queue'[i] <= revision'
    BY <1>1, <2>2, Raised
  <2>4. /\ \A i \in 1..Len(wire') : wire'[i] <= revision'
        /\ fetch'.kind = "answered" => fetch'.revision <= revision'
        /\ page'.life = life' => page'.revision <= revision'
    BY <1>1, <1>2, Raised
  <2>5. NewestIsNotLost' /\ latest' <= revision'
    BY <1>1, <2>1, <2>2 DEF NewestIsNotLost
  <2>6. StreamTypeOK'
    BY <1>1, <1>2, <1>3, <2>1, <2>2 DEF StreamInv, StreamTypeOK
  <2>. QED  BY <2>3, <2>4, <2>5, <2>6 DEF StreamInv, NothingFromTheFuture
<1>4. CASE socket # "subscribed"
  <2>1. UNCHANGED <<queue, latest>> /\ queue = << >> /\ wire = << >> /\ latest = 0
    BY <1>4 DEF Publish, StreamInv, StreamTypeOK
  <2>2. NothingFromTheFuture'
    BY <1>1, <1>2, <2>1, Raised DEF NothingFromTheFuture
  <2>3. StreamTypeOK' /\ NewestIsNotLost'
    BY <1>1, <1>2, <1>4, <2>1 DEF StreamInv, StreamTypeOK, NewestIsNotLost
  <2>. QED  BY <2>2, <2>3 DEF StreamInv
<1>. QED  BY <1>3, <1>4

(* What is on its way and what the page shows stay as they are. *)
LEMMA BroadcastFailsInv == StreamInv /\ BroadcastFails => StreamInv'
<1>. SUFFICES ASSUME StreamInv, BroadcastFails PROVE StreamInv'
  OBVIOUS
<1>1. /\ revision' \in Revisions /\ revision' = revision + 1
      /\ UNCHANGED <<life, socket, queue, wire, latest, fetch, page>>
  BY StreamFields DEF BroadcastFails, Revise, Revisions
<1>2. StreamTypeOK'
  BY <1>1 DEF StreamInv, StreamTypeOK
<1>3. NothingFromTheFuture'
  BY <1>1, Raised DEF NothingFromTheFuture
<1>4. NewestIsNotLost'
  <2>1. Shows(latest) => Shows(latest)'
    BY <1>1, StreamFields DEF Shows
  <2>. QED  BY <1>1, <2>1 DEF StreamInv, NewestIsNotLost, Holds
<1>. QED  BY <1>2, <1>3, <1>4 DEF StreamInv

(* A frame is sent: the head of the queue, or the current snapshot. *)
LEMMA SendInv == StreamInv /\ (SendQueued \/ SendHeartbeat) => StreamInv'
<1>. SUFFICES ASSUME StreamInv, SendQueued \/ SendHeartbeat PROVE StreamInv'
  OBVIOUS
<1>1. /\ UNCHANGED <<revision, life, socket, fetch, page>> /\ socket = "subscribed"
      /\ Len(wire) < MaxWire /\ MaxWire = 2
  BY DEF SendQueued, SendHeartbeat, StreamInv, StreamTypeOK, MaxWire
<1>2. PICK frame \in Revisions :
        /\ wire' = Append(wire, frame) /\ frame <= revision
        /\ queue' \in Seq(Revisions) /\ Len(queue') <= QueueSize
        /\ \A i \in 1..Len(queue') : \E j \in 1..Len(queue) : queue'[i] = queue[j]
        /\ latest' \in Revisions /\ latest' <= revision
        /\ \/ latest' = frame
           \/ latest' = latest /\ (Holds(queue, latest) => Holds(queue', latest))
  <2>1. CASE SendQueued
    <3>1. /\ queue # << >> /\ wire' = Append(wire, Head(queue)) /\ queue' = Tail(queue)
          /\ latest' = latest
      BY <2>1 DEF SendQueued
    <3>2. /\ Tail(queue) \in Seq(Revisions) /\ Len(queue) \in Nat \ {0}
          /\ Len(Tail(queue)) = Len(queue) - 1
          /\ Head(queue) = queue[1] /\ Head(queue) \in Revisions
          /\ Holds(queue, latest) => latest = Head(queue) \/ Holds(Tail(queue), latest)
          /\ \A i \in 1..Len(Tail(queue)) : \E j \in 1..Len(queue) : Tail(queue)[i] = queue[j]
      BY <3>1, StreamFields, Behead
    <3>3. Head(queue) <= revision /\ latest <= revision
      BY <3>2 DEF StreamInv, NothingFromTheFuture
    <3>4. Len(Tail(queue)) <= QueueSize
      BY <3>2, StreamFields DEF StreamInv, StreamTypeOK
    <3>. QED  BY <3>1, <3>2, <3>3, <3>4, StreamFields
  <2>2. CASE SendHeartbeat
    <3>1. wire' = Append(wire, revision) /\ latest' = revision /\ queue' = queue
      BY <2>2 DEF SendHeartbeat
    <3>2. revision <= revision /\ Len(queue) <= QueueSize
      BY StreamFields DEF StreamInv, StreamTypeOK
    <3>. QED  BY <3>1, <3>2, StreamFields
  <2>. QED  BY <2>1, <2>2
<1>3. /\ wire' \in Seq(Revisions) /\ Len(wire') = Len(wire) + 1
      /\ Holds(wire', frame) /\ (Holds(wire, latest) => Holds(wire', latest))
      /\ \A i \in 1..Len(wire') : wire'[i] = frame \/ \E j \in 1..Len(wire) : wire'[i] = wire[j]
  BY <1>2, StreamFields, Appended
<1>4. StreamTypeOK'
  <2>1. Len(wire') <= MaxWire
    BY <1>1, <1>3, StreamFields
  <2>. QED  BY <1>1, <1>2, <1>3, <2>1 DEF StreamInv, StreamTypeOK
<1>5. NothingFromTheFuture'
  <2>1. \A i \in 1..Len(queue') : queue'[i] <= revision'
    BY <1>1, <1>2 DEF StreamInv, NothingFromTheFuture
  <2>2. \A i \in 1..Len(wire') : wire'[i] <= revision'
    BY <1>1, <1>2, <1>3 DEF StreamInv, NothingFromTheFuture
  <2>. QED  BY <1>1, <1>2, <2>1, <2>2 DEF StreamInv, NothingFromTheFuture
<1>6. NewestIsNotLost'
  <2>1. CASE latest' = frame
    BY <1>3, <2>1 DEF NewestIsNotLost
  <2>2. CASE latest' = latest /\ (Holds(queue, latest) => Holds(queue', latest))
    <3>1. Shows(latest) => Shows(latest)'
      BY <1>1, <2>2 DEF Shows
    <3>. QED  BY <1>1, <1>3, <2>2, <3>1 DEF StreamInv, NewestIsNotLost
  <2>. QED  BY <1>2, <2>1, <2>2
<1>. QED  BY <1>4, <1>5, <1>6 DEF StreamInv

LEMMA ReceiveFrameInv == StreamInv /\ ReceiveFrame => StreamInv'
<1>. SUFFICES ASSUME StreamInv, ReceiveFrame PROVE StreamInv'
  OBVIOUS
<1>1. /\ wire # << >> /\ Apply(Head(wire)) /\ wire' = Tail(wire)
      /\ UNCHANGED <<revision, life, socket, queue, latest, fetch>>
  BY DEF ReceiveFrame
<1>2. /\ Tail(wire) \in Seq(Revisions) /\ Len(wire) \in Nat \ {0}
      /\ Len(Tail(wire)) = Len(wire) - 1
      /\ Head(wire) = wire[1] /\ Head(wire) \in Revisions
      /\ Holds(wire, latest) => latest = Head(wire) \/ Holds(Tail(wire), latest)
      /\ \A i \in 1..Len(Tail(wire)) : \E j \in 1..Len(wire) : Tail(wire)[i] = wire[j]
  BY <1>1, StreamFields, Behead, ZenonT(60)
<1>3. \A j \in 1..Len(wire) : wire[j] <= revision
  BY DEF StreamInv, NothingFromTheFuture
<1>4. Head(wire) <= revision
  BY <1>2, <1>3
<1>5. /\ page' \in [revision : Revisions, life : 0..life']
      /\ page'.life = life' => page'.revision <= revision'
      /\ Shows(latest) => Shows(latest)'
      /\ Head(wire) = latest => Shows(latest)'
  BY <1>1, <1>2, <1>4, Applied
<1>6. StreamTypeOK'
  <2>1. Len(wire') <= MaxWire
    BY <1>1, <1>2 DEF StreamInv, StreamTypeOK, MaxWire
  <2>2. socket = "subscribed"
    BY <1>1 DEF StreamInv, StreamTypeOK
  <2>. QED  BY <1>1, <1>2, <1>5, <2>1, <2>2 DEF StreamInv, StreamTypeOK
<1>7. NothingFromTheFuture'
  <2>1. \A i \in 1..Len(wire') : wire'[i] <= revision'
    BY <1>1, <1>2, <1>3
  <2>. QED  BY <1>1, <1>5, <2>1 DEF StreamInv, NothingFromTheFuture
<1>8. NewestIsNotLost'
  BY <1>1, <1>2, <1>5 DEF StreamInv, NewestIsNotLost
<1>. QED  BY <1>6, <1>7, <1>8 DEF StreamInv

LEMMA ReceiveStatusInv == StreamInv /\ ReceiveStatus => StreamInv'
<1>. SUFFICES ASSUME StreamInv, ReceiveStatus PROVE StreamInv'
  OBVIOUS
<1>1. /\ fetch.kind = "answered" /\ Apply(fetch.revision) /\ fetch' = NoFetch
      /\ UNCHANGED <<revision, life, socket, queue, wire, latest>>
  BY DEF ReceiveStatus
<1>2. fetch.revision \in Revisions /\ fetch.revision <= revision
  BY <1>1, StreamFields DEF StreamInv, NothingFromTheFuture
<1>3. /\ page' \in [revision : Revisions, life : 0..life']
      /\ page'.life = life' => page'.revision <= revision'
      /\ Shows(latest) => Shows(latest)'
  BY <1>1, <1>2, Applied
<1>4. StreamTypeOK'
  BY <1>1, <1>3 DEF StreamInv, StreamTypeOK, NoFetch
<1>5. NothingFromTheFuture'
  BY <1>1, <1>3 DEF StreamInv, NothingFromTheFuture, NoFetch
<1>6. NewestIsNotLost'
  BY <1>1, <1>3 DEF StreamInv, NewestIsNotLost
<1>. QED  BY <1>4, <1>5, <1>6 DEF StreamInv

(* The connections that open, are asked on or are lost. *)
LEMMA ConnectionInv ==
  ASSUME StreamInv,
         Accept \/ Subscribe \/ Poll \/ ServeStatus \/ LoseSocket \/ LoseFetch \/ EndProcess
  PROVE  StreamInv'
<1>1. UNCHANGED <<revision, life, page>>
  BY DEF Accept, Subscribe, Poll, ServeStatus, LoseSocket, LoseFetch, EndProcess
<1>2. CASE Accept \/ Poll \/ ServeStatus \/ LoseFetch
  <2>1. /\ UNCHANGED <<queue, wire, latest>>
        /\ \/ socket' = socket
           \/ socket = "closed" /\ socket' = "accepted"
    BY <1>2 DEF Accept, Poll, ServeStatus, LoseFetch
  <2>2. /\ fetch' \in [kind : {"none", "sent"}] \cup [kind : {"answered"}, revision : Revisions]
        /\ fetch'.kind = "answered" => fetch'.revision <= revision
    BY <1>2, StreamFields
       DEF Accept, Poll, ServeStatus, LoseFetch, NoFetch, StreamInv, StreamTypeOK,
           NothingFromTheFuture
  <2>. QED  BY <1>1, <2>1, <2>2
            DEF StreamInv, StreamTypeOK, NothingFromTheFuture, NewestIsNotLost, Shows
<1>3. CASE Subscribe
  <2>1. /\ socket' = "subscribed" /\ queue' = <<revision>> /\ latest' = revision
        /\ UNCHANGED <<wire, fetch>>
        /\ wire = << >>
    BY <1>3 DEF Subscribe, StreamInv, StreamTypeOK
  <2>2. /\ queue' \in Seq(Revisions) /\ Len(queue') = 1 /\ queue'[1] = revision
        /\ queue' # << >>
    BY <2>1, StreamFields
  <2>3. Len(queue') <= QueueSize
    BY <2>2, StreamFields
  <2>4. latest' <= revision' /\ \A i \in 1..Len(queue') : queue'[i] <= revision'
    BY <1>1, <2>1, <2>2, StreamFields
  <2>5. NothingFromTheFuture'
    BY <1>1, <2>1, <2>4 DEF StreamInv, NothingFromTheFuture
  <2>6. NewestIsNotLost'
    BY <2>1, <2>2 DEF NewestIsNotLost, Holds
  <2>7. StreamTypeOK'
    BY <1>1, <2>1, <2>2, <2>3, StreamFields DEF StreamInv, StreamTypeOK
  <2>. QED  BY <2>5, <2>6, <2>7 DEF StreamInv
<1>4. CASE LoseSocket \/ EndProcess
  <2>1. socket' = "closed" /\ queue' = << >> /\ wire' = << >> /\ latest' = 0
        /\ fetch' \in {fetch, NoFetch}
    BY <1>4 DEF LoseSocket, EndProcess, Disconnected
  <2>2. /\ << >> \in Seq(Revisions) /\ Len(<< >>) = 0
        /\ QueueSize >= 0 /\ MaxWire >= 0
        /\ 0 \in Revisions /\ 0 <= revision
    BY StreamFields DEF MaxWire, Revisions
  <2>3. StreamTypeOK'
    BY <1>1, <2>1, <2>2 DEF StreamInv, StreamTypeOK, NoFetch
  <2>4. NothingFromTheFuture' /\ NewestIsNotLost'
    BY <1>1, <2>1, <2>2 DEF StreamInv, NothingFromTheFuture, NewestIsNotLost, NoFetch
  <2>. QED  BY <2>3, <2>4 DEF StreamInv
<1>. QED  BY <1>2, <1>3, <1>4

(* A page of an earlier process may be ahead of the new one. *)
LEMMA NewProcessInv == StreamInv /\ NewProcess => StreamInv'
<1>. SUFFICES ASSUME StreamInv, NewProcess PROVE StreamInv'
  OBVIOUS
<1>1. /\ revision' = 0 /\ life' = life + 1 /\ page' = page
      /\ socket' = "closed" /\ queue' = << >> /\ wire' = << >> /\ fetch' = NoFetch
      /\ latest' = 0
  BY DEF NewProcess, Disconnected
<1>2. revision' \in Revisions /\ life' \in Nat
  BY <1>1, StreamFields DEF Revisions
<1>3. page' \in [revision : Revisions, life : 0..life'] /\ page'.life # life'
  BY <1>1, StreamFields
<1>4. /\ << >> \in Seq(Revisions) /\ Len(<< >>) = 0
      /\ QueueSize >= 0 /\ MaxWire >= 0
  BY StreamFields DEF MaxWire
<1>5. StreamTypeOK'
  BY <1>1, <1>2, <1>3, <1>4 DEF StreamTypeOK, NoFetch, Revisions
<1>6. NothingFromTheFuture' /\ NewestIsNotLost'
  BY <1>1, <1>3, <1>4 DEF NothingFromTheFuture, NewestIsNotLost, NoFetch
<1>. QED  BY <1>5, <1>6 DEF StreamInv

LEMMA StreamStepInv == StreamInv /\ StreamAction => StreamInv'
<1>1. ASSUME StreamInv, UNCHANGED streamVars
      PROVE  StreamInv'
  BY <1>1 DEF streamVars, StreamInv, StreamTypeOK, NothingFromTheFuture, NewestIsNotLost, Shows,
              Holds
<1>. QED  BY <1>1, PublishInv, BroadcastFailsInv, SendInv, ReceiveFrameInv, ReceiveStatusInv, ConnectionInv,
             NewProcessInv DEF StreamAction, StreamStep

-------------------------------------------------------------------------------
(***************************************************************************)
(* The installation.                                                       *)
(***************************************************************************)
LEMMA BothStep == [Next]_vars => DirectoryStep /\ StreamAction
BY DEF Next, vars, Start, Stop, Crash, Transact, Serve, Offline, DirectoryStep, StreamAction

(* The inductive invariant holds, whatever is started, killed or restored. *)
THEOREM ServiceInvariant == Spec => []Inv
<1>1. Init => Inv
  BY DirectoryInitInv, StreamInitInv DEF Init, Inv, TypeOK, DirectoryInv, StreamInv
<1>2. Inv /\ [Next]_vars => Inv'
  BY BothStep, DirectoryStepInv, StreamStepInv DEF Inv, TypeOK, DirectoryInv, StreamInv
<1>. QED  BY <1>1, <1>2, PTL DEF Spec

(* No committed transaction is lost, whatever fails or stops between two   *)
(* operations of __main__.py's restore: its rows are in the live database, *)
(* in the rollback file or in a file kept beside them.                     *)
THEOREM CommittedDataAlwaysSurvives == Spec => []CommittedDataSurvives
<1>1. Inv => CommittedDataSurvives
  BY DirectorySurvives DEF Inv
<1>. QED  BY <1>1, ServiceInvariant, PTL

(* A restore that reports a failure leaves the database as it found it,    *)
(* except where it puts it back beside the log of the candidate: that      *)
(* tears it, and only the pre-restore backup has its data.  One that could *)
(* not put it back leaves its data in it or in a file beside it.           *)
THEOREM PriorAlwaysKept == Spec => FailedRestoreKeepsPrior
<1>1. Inv /\ [Next]_vars =>
        [ lock = "restore" /\ lock' = "none" /\ restore.before # Missing =>
            /\ restore'.outcome = "failed" =>
                 \/ Rows(live') = Rows(restore.before)
                 \/ PutBackTorn /\ Rows(restore.before) \subseteq kept'
            /\ restore'.outcome = "stuck" => Rows(restore.before) \subseteq Rows(live') \cup kept'
        ]_directoryVars
  BY BothStep, FailedRestoreStep DEF Inv
<1>. QED  BY <1>1, ServiceInvariant, PTL DEF Spec, FailedRestoreKeepsPrior

(* A subscribed page with nothing on its way to it shows the newest        *)
(* snapshot that was built for it, or is ahead of a restarted server.  Of  *)
(* a state for which no snapshot could be built it says nothing.           *)
THEOREM PageAlwaysShowsNewest == Spec => []PageShowsNewest
<1>1. Inv => PageShowsNewest
  BY StreamShowsNewest DEF Inv
<1>. QED  BY <1>1, ServiceInvariant, PTL
===============================================================================
