-------------------------- MODULE BBPsyncRecovery --------------------------
(***************************************************************************)
(* Crash safety of the commits of BBPsync, for any number of BATs and any  *)
(* bounds: at every step a restart finds a complete checkpoint, a commit   *)
(* that succeeds is durable, and the protocol implements Checkpoint, in    *)
(* which a commit is one step.                                             *)
(*                                                                         *)
(* The writes and removals do not fail here and the server meets none of   *)
(* the known deviations; crashes come at every step, in a restart too, and *)
(* BATs are loaded, changed and swapped out while a subcommit of others    *)
(* runs.                                                                   *)
(***************************************************************************)
EXTENDS BBPsyncProofs

\* No write or removal fails, a BAT is created before each commit (so that oids
\* are to be written), no deleted BAT is in use and DELDIR goes away.
Faultless == MaxFails = 0 /\ NewOids /\ ~Referenced /\ ~DelStays /\ ~AfterLate

\* If there are subcommits, a BAT is swapped out with a delta: no change is
\* made in place, and BBPtrim keeps off what a subcommit lists.
Subcommits == TRUE \in Kinds
Marking == Subcommits => ~InPlace /\ ~Trims

\* The BBP.dir a restart reads is whole; where it is, at each step of a commit
\* and of a restart.
Whole(d) == d \notin {NoFile, Torn}

DirPlaced ==
    /\ Whole(RecoveredDir)
    /\ pc \in {"idle", "lock", "sync", "epilogue", "scan"} =>
          backupDir = 1 /\ bakD # NoFile /\ subD = NoFile
    /\ pc \in Syncing =>
          IF sub THEN backupDir = 2 /\ bakD = NoFile /\ subD # NoFile
                 ELSE backupDir = 1 /\ bakD # NoFile /\ subD = NoFile
    /\ pc = "reset" => backupDir = PrepareTo(sub) /\ bakD = NoFile /\ subD = NoFile
    /\ pc \in {"remove", "renew"} =>
          subD = NoFile /\ backupDir = (IF bakD = NoFile THEN 0 ELSE 1)
    /\ pc \in {"dir", "move", "read", "heaps", "prepare"} => subD = NoFile
    /\ pc \in {"read", "heaps", "prepare"} => bakD = NoFile

\* The directories that backups move to are there, DELDIR is out of the way,
\* and no step of a commit fails.
Rooms ==
    /\ pc \notin {"failed", "late"}
    /\ pc \notin Booting /\ backupFiles > 0 => bakThere \/ (pc = "reset" /\ ~sub)
    /\ pc \in Syncing /\ sub => subThere
    /\ delThere => pc \in {"reset", "remove", "boot"}
    /\ pc \in Syncing => bbpd
    /\ pc \in {"lock", "sync"} => oidDirty
    /\ pc \in Syncing \cup {"reset"} => backupFiles > 0

\* backup_files exceeds backup_subdir while there is something in BAKDIR, or a
\* swap is about to put something there.
Counted ==
    /\ backupSubdir > 0 <=> sub /\ pc \in Syncing \cup {"reset"}
    /\ spc = "move" => backupFiles > backupSubdir
    /\ pc \notin Booting /\ (bakD # NoFile \/ \E b \in Bats : bakF[b] # NoFile) =>
          backupFiles > backupSubdir

\* Where there can be backups of heaps, and the BBP.dir the rename makes good.
FilesPlaced ==
    /\ \A b \in Bats : subF[b] # NoFile => pc \in {"boot", "subdir"} \/ (pc \in Syncing /\ sub)
    /\ pc \in {"prepare", "scan"} \/ (pc = "reset" /\ ~sub) => \A b \in Bats : bakF[b] = NoFile
    /\ pc = "rename" => Whole(batD)

\* This much holds also when a subcommit leaves the backup of a heap in BAKDIR.
DirInv == /\ Shape /\ Kept
          /\ DirPlaced /\ Rooms /\ Counted /\ FilesPlaced

\* A backup is the heap of the checkpoint; a heap without one is in BATDIR.
BackupOf(b) ==
    /\ bakF[b] # NoFile => bakF[b] = RecoveredDir[b]
    /\ subF[b] # NoFile => subF[b] = RecoveredDir[b] /\ bakF[b] = NoFile
    /\ RecoveredDir[b] # 0 /\ bakF[b] = NoFile /\ subF[b] = NoFile => batF[b] = RecoveredDir[b]
    /\ subF[b] # NoFile => pc \in {"boot", "subdir"} \/ (pc \in Syncing /\ sub /\ b \in list)
    /\ pc \in {"prepare", "scan"} => bakF[b] = NoFile

Backups == \A b \in Bats : BackupOf(b)

\* The status of a BAT says whether the checkpoint has it, except between the
\* rename and the epilogue; the heap of a clean BAT is in BATDIR.
MemoryOf(b) ==
    /\ Running => \/ status[b] \in {"EXISTING", "DELETED"} <=> RecoveredDir[b] # 0
                  \/ pc \in Committed /\ b \in list
    /\ Up \/ pc \in {"prepare", "scan"} => (status[b] # "none" /\ ~dirty[b] => batF[b] = cur[b])
    /\ pc \in Booting \cup {"scan"} => ~dirty[b]
    /\ pc \in {"heaps", "prepare", "scan"} => cur[b] = RecoveredDir[b]
    /\ pc \in Committed /\ b \in list =>
          bakF[b] = NoFile /\ RecoveredDir[b] = Entry(b) /\ (Persistent(b) => ~dirty[b])

InMemory == \A b \in Bats : MemoryOf(b)

\* BBPsave works on a dirty BAT that no commit works on, and writes only over
\* a heap that is not in the checkpoint or has a backup.
Swapping ==
    spc # "none" =>
      /\ sbat \in Bats /\ Up /\ (pc # "idle" => sub /\ sbat \notin list)
      /\ dirty[sbat] /\ status[sbat] # "none"
      /\ spc \in {"prepare", "move"} => status[sbat] = "EXISTING"
      /\ spc \in {"write", "written"} => RecoveredDir[sbat] = 0 \/ bakF[sbat] # NoFile

\* A BAT with a backup in BAKDIR is BBPSWAPPED, so that a subcommit finds the
\* backup: no BAT but those of the commit is dirty without a delta.
Marked(b) ==
    /\ Up /\ bakF[b] # NoFile => swapped[b] \/ (pc \in Syncing /\ ~sub)
    /\ Up /\ dirty[b] => delta[b] \/ swapped[b] \/ (pc # "idle" /\ b \in list)
    /\ spc # "none" /\ sbat = b => swapped[b]

Marks ==
    /\ sub => Subcommits
    /\ Subcommits => \A b \in Bats : Marked(b)

\* What phase 1 does for a BAT: phase 2 may write its heap, and a subcommit
\* leaves nothing of it in BAKDIR, where it would outlive the rename.
Saveable(b) ==
    /\ status[b] = "EXISTING" /\ dirty[b] => (IF sub THEN subF[b] ELSE bakF[b]) # NoFile
    /\ sub => bakF[b] = NoFile

Phases ==
    /\ Up /\ pc # "idle" /\ ~sub => list = Bats
    /\ pc \in {"phase1", "phase2"} => left \subseteq list
    /\ pc = "phase1" => \A b \in list \ left : Saveable(b)
    /\ pc = "phase2" =>
          /\ \A b \in list : Saveable(b)
          /\ \A b \in left : Persistent(b) /\ dirty[b] /\ b # saving
          /\ \A b \in list : Persistent(b) /\ dirty[b] => b \in left \/ b = saving
    /\ saving # 0 => pc = "phase2" /\ saving \in list /\ Persistent(saving) /\ dirty[saving]
    /\ pc \in {"writedir", "rename"} =>
          \A b \in list : (sub => bakF[b] = NoFile) /\ (Persistent(b) => ~dirty[b])
    /\ pc = "rename" =>
          /\ Whole(batD)
          /\ \A b \in Bats : batD[b] = IF b \in list THEN Entry(b) ELSE RecoveredDir[b]

IInv == /\ DirInv
        /\ Backups /\ InMemory /\ Swapping /\ Marks /\ Phases

USE DEF Heaps, Dirs, Up, Booting, Syncing, Committed, Places,
        diskF, diskD, dirs, memory, flags, backup, commit, swap, Faultless

----------------------------------------------------------------------------
\* The first start of a database.
LEMMA InitIInv == Init => IInv
  <1> SUFFICES ASSUME Init PROVE IInv
    OBVIOUS
  <1>1. Shape /\ Kept
    BY InitShape, InitKept
  <1>2. DirPlaced
    <2>1. [b \in Bats |-> 0] \in [Bats -> Nat]
      OBVIOUS
    <2> QED BY <2>1, ContentAssumption DEF Init, DirPlaced, Whole, RecoveredDir, Overlay
  <1>3. Rooms /\ Counted /\ FilesPlaced
    BY DEF Init, Rooms, Counted, FilesPlaced
  <1>4. Swapping /\ Marks /\ Phases
    BY DEF Init, Swapping, Marks, Marked, Phases
  <1>5. Backups
    BY ContentAssumption DEF Init, Backups, BackupOf, RecoveredDir, Overlay
  <1>6. InMemory
    BY DEF Init, InMemory, MemoryOf, Running
  <1> QED BY <1>1, <1>2, <1>3, <1>4, <1>5, <1>6 DEF IInv, DirInv

\* BBP.dir is moved before it is overwritten, and backup_dir follows it.
LEMMA DirPlacedNext ==
    ASSUME Faultless, DirInv, [Next]_vars
    PROVE  DirPlaced'
  <1> USE ContentAssumption, BoundsAssumption, BatsAssumption,
          SwitchAssumption
      DEF DirInv, Shape, FilesType, MemoryType, FlagType, CountType,
          Control, Unfinished, RecoveredDir, Overlay, Whole, PrepareTo,
          Kept, DirKept, Rooms, DirPlaced, Counted, FilesPlaced, Entry,
          Versions
  <1>1. ASSUME NEW b \in Bats,
             Create(b) \/ Update(b) \/ Delete(b) \/ Undelete(b) \/ Load(b)
               \/ Unload(b) \/ SwapOut(b)
       PROVE  DirPlaced'
    BY <1>1 DEF Create, Free, NewVersion, InUse, Update, Forget, Delete, Drop,
                Undelete, Load, Unload, Trimmable, SwapOut, MarkSwapped
  <1>2. CASE SwapPrepare
    BY <1>2 DEF SwapPrepare, Prepare, PrepareFails, PrepareDisk,
                PrepareWorks, PrepareFrom, PrepareSource, MakesBak,
                StartsSub, MakesSub, Target
  <1>3. CASE SwapMove \/ SwapWrite \/ SwapWritten
    BY <1>3 DEF SwapMove, Move, Drop, SwapWrite, SwapWritten
  <1>4. ASSUME NEW s \in BOOLEAN, NEW S \in SUBSET Bats,
             Begin(s, S)
       PROVE  DirPlaced'
    BY <1>4 DEF Begin, EndsDelta
  <1>5. CASE Sync
    BY <1>5 DEF Sync, Prepare, PrepareFails, PrepareDisk, PrepareWorks,
                PrepareFrom, PrepareSource, MakesBak, StartsSub, MakesSub,
                Target
  <1>6. ASSUME NEW b \in Bats,
             Backup(b) \/ Save(b)
       PROVE  DirPlaced'
    BY <1>6 DEF Backup, Returned, FromBak, FromBat, BackupFails, BackupTo,
                Counts, Move, Drop, Save
  <1>7. CASE BackedUp \/ Saved
    BY <1>7 DEF BackedUp, Saved
  <1>8. CASE OpenDir \/ WriteDir \/ ReuseDir
    BY <1>8 DEF OpenDir, WriteDir, NewDir, OldDir, ReuseDir
  <1>9. CASE Switch \/ SwitchAgain
    BY <1>9 DEF Switch, Rename, RenameWorks, SwitchAgain
  <1>10. CASE Reset \/ RemoveDel
    BY <1>10 DEF Reset, ResetCounters, RemoveDel
  <1>11. CASE Renew
    BY <1>11 DEF Renew, Prepare, PrepareFails, PrepareDisk, PrepareWorks,
                 PrepareFrom, PrepareSource, MakesBak, StartsSub,
                 MakesSub, Target
  <1>12. CASE Lock \/ Epilogue \/ Failed \/ Crash
    BY <1>12 DEF Lock, Epilogue, Leaves, Failed, Crash
  <1>13. CASE Boot \/ RecoverSubdir
    BY <1>13 DEF Boot, RecoverSubdir, Move, Drop
  <1>14. CASE RecoverDir \/ MoveDir \/ ReadEntries
    BY <1>14 DEF RecoverDir, MoveDir, ReadEntries
  <1>15. CASE RecoverHeaps
    BY <1>15 DEF RecoverHeaps, Move, Drop
  <1>16. CASE PrepareBoot
    BY <1>16 DEF PrepareBoot, Prepare, PrepareFails, PrepareDisk,
                 PrepareWorks, PrepareFrom, PrepareSource, MakesBak,
                 StartsSub, MakesSub, Target
  <1>17. CASE DiskScan \/ UNCHANGED vars
    BY <1>17 DEF DiskScan, vars
  <1> HIDE DEF DirInv, Shape, FilesType, MemoryType, FlagType, CountType,
               Control, Unfinished, RecoveredDir, Overlay, Whole, PrepareTo,
               Kept, DirKept, Rooms, DirPlaced, Counted, FilesPlaced, Entry,
               Versions
  <1> QED BY <1>1, <1>2, <1>3, <1>4, <1>5, <1>6, <1>7, <1>8, <1>9, <1>10,
             <1>11, <1>12, <1>13, <1>14, <1>15, <1>16, <1>17
     DEF Next

\* The directories are made before they are moved to, and removed after.
LEMMA RoomsNext ==
    ASSUME Faultless, DirInv, [Next]_vars
    PROVE  Rooms'
  <1> USE ContentAssumption, BoundsAssumption, BatsAssumption,
          SwitchAssumption
      DEF DirInv, Shape, FilesType, MemoryType, FlagType, CountType,
          Control, Unfinished, RecoveredDir, Overlay, Whole, PrepareTo,
          Kept, Rooms, DirPlaced, Counted, Versions
  <1>1. ASSUME NEW b \in Bats,
             Create(b) \/ Update(b) \/ Delete(b) \/ Undelete(b) \/ Load(b)
               \/ Unload(b) \/ SwapOut(b)
       PROVE  Rooms'
    BY <1>1 DEF Create, Free, NewVersion, InUse, Update, Forget, Delete, Drop,
                Undelete, Load, Unload, Trimmable, SwapOut, MarkSwapped
  <1>2. CASE SwapPrepare
    BY <1>2 DEF SwapPrepare, Prepare, PrepareFails, PrepareDisk,
                PrepareWorks, PrepareFrom, PrepareSource, MakesBak,
                StartsSub, MakesSub, Target
  <1>3. CASE SwapMove \/ SwapWrite \/ SwapWritten
    BY <1>3 DEF SwapMove, Move, Drop, SwapWrite, SwapWritten
  <1>4. ASSUME NEW s \in BOOLEAN, NEW S \in SUBSET Bats,
             Begin(s, S)
       PROVE  Rooms'
    BY <1>4 DEF Begin, EndsDelta
  <1>5. CASE Sync
    BY <1>5 DEF Sync, Prepare, PrepareFails, PrepareDisk, PrepareWorks,
                PrepareFrom, PrepareSource, MakesBak, StartsSub, MakesSub,
                Target
  <1>6. ASSUME NEW b \in Bats,
             Backup(b) \/ Save(b)
       PROVE  Rooms'
    BY <1>6 DEF Backup, Returned, FromBak, FromBat, BackupFails, BackupTo,
                Counts, Move, Drop, Save
  <1>7. CASE BackedUp \/ Saved
    BY <1>7 DEF BackedUp, Saved
  <1>8. CASE OpenDir \/ WriteDir \/ ReuseDir
    BY <1>8 DEF OpenDir, WriteDir, NewDir, OldDir, Entry, ReuseDir
  <1>9. CASE Switch \/ SwitchAgain
    BY <1>9 DEF Switch, Rename, RenameWorks, SwitchAgain
  <1>10. CASE Reset \/ RemoveDel
    BY <1>10 DEF Reset, ResetCounters, RemoveDel
  <1>11. CASE Renew
    <2>1. bakThere'
      <3>1. bakThere' = (bakThere \/ MakesBak)
        BY <1>11 DEF Renew, PrepareDisk
      <3>2. bakThere \/ MakesBak
        BY <1>11 DEF Renew, MakesBak
      <3> QED BY <3>1, <3>2
    <2>2. pc' = "epilogue" /\ UNCHANGED <<subThere, delThere, spc, backupSubdir>>
      BY <1>11 DEF Renew, PrepareDisk, MakesSub, StartsSub
    <2> QED BY <1>11, <2>1, <2>2 DEF Renew
  <1>12. CASE Lock \/ Epilogue \/ Failed \/ Crash
    BY <1>12 DEF Lock, Epilogue, Leaves, Failed, Crash
  <1>13. CASE Boot \/ RecoverSubdir
    BY <1>13 DEF Boot, RecoverSubdir, Move, Drop
  <1>14. CASE RecoverDir \/ MoveDir \/ ReadEntries
    BY <1>14 DEF RecoverDir, MoveDir, ReadEntries
  <1>15. CASE RecoverHeaps
    BY <1>15 DEF RecoverHeaps, Move, Drop
  <1>16. CASE PrepareBoot
    BY <1>16 DEF PrepareBoot, Prepare, PrepareFails, PrepareDisk,
                 PrepareWorks, PrepareFrom, PrepareSource, MakesBak,
                 StartsSub, MakesSub, Target
  <1>17. CASE DiskScan \/ UNCHANGED vars
    BY <1>17 DEF DiskScan, vars
  <1> HIDE DEF DirInv, Shape, FilesType, MemoryType, FlagType, CountType,
               Control, Unfinished, RecoveredDir, Overlay, Whole, PrepareTo,
               Kept, Rooms, DirPlaced, Counted, Versions
  <1> QED BY <1>1, <1>2, <1>3, <1>4, <1>5, <1>6, <1>7, <1>8, <1>9, <1>10,
             <1>11, <1>12, <1>13, <1>14, <1>15, <1>16, <1>17
     DEF Next

\* The counters are raised before a backup and lowered after the rename.
LEMMA CountedNext ==
    ASSUME Faultless, DirInv, [Next]_vars
    PROVE  Counted'
  <1> USE ContentAssumption, BoundsAssumption, BatsAssumption,
          SwitchAssumption
      DEF DirInv, Shape, FilesType, MemoryType, FlagType, CountType,
          Control, Unfinished, RecoveredDir, Overlay, Whole, PrepareTo,
          Kept, Rooms, DirPlaced, Counted, FilesPlaced, Versions
  <1>1. ASSUME NEW b \in Bats,
             Create(b) \/ Update(b) \/ Delete(b) \/ Undelete(b) \/ Load(b)
               \/ Unload(b) \/ SwapOut(b)
       PROVE  Counted'
    BY <1>1 DEF Create, Free, NewVersion, InUse, Update, Forget, Delete, Drop,
                Undelete, Load, Unload, Trimmable, SwapOut, MarkSwapped
  <1>2. CASE SwapPrepare
    BY <1>2 DEF SwapPrepare, Prepare, PrepareFails, PrepareDisk,
                PrepareWorks, PrepareFrom, PrepareSource, MakesBak,
                StartsSub, MakesSub, Target
  <1>3. CASE SwapMove \/ SwapWrite \/ SwapWritten
    BY <1>3 DEF SwapMove, Move, Drop, SwapWrite, SwapWritten
  <1>4. ASSUME NEW s \in BOOLEAN, NEW S \in SUBSET Bats,
             Begin(s, S)
       PROVE  Counted'
    BY <1>4 DEF Begin, EndsDelta
  <1>5. CASE Sync
    BY <1>5 DEF Sync, Prepare, PrepareFails, PrepareDisk, PrepareWorks,
                PrepareFrom, PrepareSource, MakesBak, StartsSub, MakesSub,
                Target
  <1>6. ASSUME NEW b \in Bats,
             Backup(b) \/ Save(b)
       PROVE  Counted'
    BY <1>6 DEF Backup, Returned, FromBak, FromBat, BackupFails, BackupTo,
                Counts, Move, Drop, Save
  <1>7. CASE BackedUp \/ Saved
    BY <1>7 DEF BackedUp, Saved
  <1>8. CASE OpenDir \/ WriteDir \/ ReuseDir
    BY <1>8 DEF OpenDir, WriteDir, NewDir, OldDir, Entry, ReuseDir
  <1>9. CASE Switch \/ SwitchAgain
    BY <1>9 DEF Switch, Rename, RenameWorks, SwitchAgain
  <1>10. CASE Reset \/ RemoveDel
    BY <1>10 DEF Reset, ResetCounters, RemoveDel
  <1>11. CASE Renew
    BY <1>11 DEF Renew, Prepare, PrepareFails, PrepareDisk, PrepareWorks,
                 PrepareFrom, PrepareSource, MakesBak, StartsSub,
                 MakesSub, Target
  <1>12. CASE Lock \/ Epilogue \/ Failed \/ Crash
    BY <1>12 DEF Lock, Epilogue, Leaves, Failed, Crash
  <1>13. CASE Boot \/ RecoverSubdir
    BY <1>13 DEF Boot, RecoverSubdir, Move, Drop
  <1>14. CASE RecoverDir \/ MoveDir \/ ReadEntries
    BY <1>14 DEF RecoverDir, MoveDir, ReadEntries
  <1>15. CASE RecoverHeaps
    BY <1>15 DEF RecoverHeaps, Move, Drop
  <1>16. CASE PrepareBoot
    BY <1>16 DEF PrepareBoot, Prepare, PrepareFails, PrepareDisk,
                 PrepareWorks, PrepareFrom, PrepareSource, MakesBak,
                 StartsSub, MakesSub, Target
  <1>17. CASE DiskScan \/ UNCHANGED vars
    BY <1>17 DEF DiskScan, vars
  <1> HIDE DEF DirInv, Shape, FilesType, MemoryType, FlagType, CountType,
               Control, Unfinished, RecoveredDir, Overlay, Whole, PrepareTo,
               Kept, Rooms, DirPlaced, Counted, FilesPlaced, Versions
  <1> QED BY <1>1, <1>2, <1>3, <1>4, <1>5, <1>6, <1>7, <1>8, <1>9, <1>10,
             <1>11, <1>12, <1>13, <1>14, <1>15, <1>16, <1>17
     DEF Next

\* A subcommit empties SUBDIR, a commit of all BATs BAKDIR, and a restart both.
LEMMA FilesPlacedNext ==
    ASSUME Faultless, DirInv, [Next]_vars
    PROVE  FilesPlaced'
  <1> USE ContentAssumption, BoundsAssumption, BatsAssumption,
          SwitchAssumption
      DEF DirInv, Shape, FilesType, MemoryType, FlagType, CountType,
          Control, Unfinished, RecoveredDir, Overlay, Whole, PrepareTo,
          Kept, Rooms, DirPlaced, Counted, FilesPlaced, Versions
  <1>1. ASSUME NEW b \in Bats,
             Create(b) \/ Update(b) \/ Delete(b) \/ Undelete(b) \/ Load(b)
               \/ Unload(b) \/ SwapOut(b)
       PROVE  FilesPlaced'
    BY <1>1 DEF Create, Free, NewVersion, InUse, Update, Forget, Delete, Drop,
                Undelete, Load, Unload, Trimmable, SwapOut, MarkSwapped
  <1>2. CASE SwapPrepare
    BY <1>2 DEF SwapPrepare, Prepare, PrepareFails, PrepareDisk,
                PrepareWorks, PrepareFrom, PrepareSource, MakesBak,
                StartsSub, MakesSub, Target
  <1>3. CASE SwapMove \/ SwapWrite \/ SwapWritten
    BY <1>3 DEF SwapMove, Move, Drop, SwapWrite, SwapWritten
  <1>4. ASSUME NEW s \in BOOLEAN, NEW S \in SUBSET Bats,
             Begin(s, S)
       PROVE  FilesPlaced'
    BY <1>4 DEF Begin, EndsDelta
  <1>5. CASE Sync
    BY <1>5 DEF Sync, Prepare, PrepareFails, PrepareDisk, PrepareWorks,
                PrepareFrom, PrepareSource, MakesBak, StartsSub, MakesSub,
                Target
  <1>6. ASSUME NEW b \in Bats,
             Backup(b) \/ Save(b)
       PROVE  FilesPlaced'
    BY <1>6 DEF Backup, Returned, FromBak, FromBat, BackupFails, BackupTo,
                Counts, Move, Drop, Save
  <1>7. CASE BackedUp \/ Saved
    BY <1>7 DEF BackedUp, Saved
  <1>8. CASE OpenDir \/ WriteDir \/ ReuseDir
    BY <1>8 DEF OpenDir, WriteDir, NewDir, OldDir, Entry, ReuseDir
  <1>9. CASE Switch \/ SwitchAgain
    BY <1>9 DEF Switch, Rename, RenameWorks, SwitchAgain
  <1>10. CASE Reset \/ RemoveDel
    BY <1>10 DEF Reset, ResetCounters, RemoveDel
  <1>11. CASE Renew
    BY <1>11 DEF Renew, Prepare, PrepareFails, PrepareDisk, PrepareWorks,
                 PrepareFrom, PrepareSource, MakesBak, StartsSub,
                 MakesSub, Target
  <1>12. CASE Lock \/ Epilogue \/ Failed \/ Crash
    BY <1>12 DEF Lock, Epilogue, Leaves, Failed, Crash
  <1>13. CASE Boot \/ RecoverSubdir
    BY <1>13 DEF Boot, RecoverSubdir, Move, Drop
  <1>14. CASE RecoverDir \/ MoveDir \/ ReadEntries
    BY <1>14 DEF RecoverDir, MoveDir, ReadEntries
  <1>15. CASE RecoverHeaps
    BY <1>15 DEF RecoverHeaps, Move, Drop
  <1>16. CASE PrepareBoot
    BY <1>16 DEF PrepareBoot, Prepare, PrepareFails, PrepareDisk,
                 PrepareWorks, PrepareFrom, PrepareSource, MakesBak,
                 StartsSub, MakesSub, Target
  <1>17. CASE DiskScan \/ UNCHANGED vars
    BY <1>17 DEF DiskScan, vars
  <1> HIDE DEF DirInv, Shape, FilesType, MemoryType, FlagType, CountType,
               Control, Unfinished, RecoveredDir, Overlay, Whole, PrepareTo,
               Kept, Rooms, DirPlaced, Counted, FilesPlaced, Versions
  <1> QED BY <1>1, <1>2, <1>3, <1>4, <1>5, <1>6, <1>7, <1>8, <1>9, <1>10,
             <1>11, <1>12, <1>13, <1>14, <1>15, <1>16, <1>17
     DEF Next


\* A heap of the checkpoint is overwritten only after its backup.
LEMMA BackupsNext ==
    ASSUME Faultless, IInv, [Next]_vars
    PROVE  Backups'
  <1> USE ContentAssumption, BoundsAssumption, BatsAssumption,
          SwitchAssumption
      DEF IInv, DirInv, Shape, FilesType, MemoryType, FlagType, CountType,
          Control, Unfinished, RecoveredDir, Overlay, Whole, PrepareTo,
          Kept, DirKept, Rooms, DirPlaced, Counted, FilesPlaced, Backups,
          BackupOf, InMemory, MemoryOf, Swapping, Phases, Entry,
          Persistent, Running, Saveable, Versions
  <1>1. ASSUME NEW b \in Bats,
             Create(b) \/ Update(b) \/ Delete(b) \/ Undelete(b) \/ Load(b)
               \/ Unload(b) \/ SwapOut(b)
       PROVE  Backups'
    BY <1>1 DEF Create, Free, NewVersion, InUse, Update, Forget, Delete, Drop,
                Undelete, Load, Unload, Trimmable, SwapOut, MarkSwapped
  <1>2. CASE SwapPrepare
    BY <1>2 DEF SwapPrepare, Prepare, PrepareFails, PrepareDisk,
                PrepareWorks, PrepareFrom, PrepareSource, MakesBak,
                StartsSub, MakesSub, Target
  <1>3. CASE SwapMove
    BY <1>3 DEF SwapMove, Move, Drop
  <1>4. CASE SwapWrite \/ SwapWritten
    BY <1>4 DEF SwapWrite, SwapWritten
  <1>5. ASSUME NEW s \in BOOLEAN, NEW S \in SUBSET Bats,
             Begin(s, S)
       PROVE  Backups'
    BY <1>5 DEF Begin, EndsDelta
  <1>6. CASE Sync
    BY <1>6 DEF Sync, Prepare, PrepareFails, PrepareDisk, PrepareWorks,
                PrepareFrom, PrepareSource, MakesBak, StartsSub, MakesSub,
                Target
  <1>7. ASSUME NEW b \in Bats,
             Backup(b)
       PROVE  Backups'
    BY <1>7 DEF Backup, Returned, FromBak, FromBat, BackupFails, BackupTo,
                Counts, Move, Drop
  <1>8. ASSUME NEW b \in Bats,
             Save(b)
       PROVE  Backups'
    BY <1>8 DEF Save
  <1>9. CASE BackedUp \/ Saved
    BY <1>9 DEF BackedUp, Saved
  <1>10. CASE OpenDir \/ ReuseDir
    BY <1>10 DEF OpenDir, ReuseDir
  <1>11. CASE WriteDir
    BY <1>11 DEF WriteDir, NewDir, OldDir
  <1>12. CASE Switch
    <2>1. RecoveredDir' = batD
      BY <1>12 DEF Switch, Rename, RenameWorks
    <2>2. ASSUME NEW b \in Bats
          PROVE  BackupOf(b)'
      <3>1. CASE b \in list
        <4>1. batD[b] = Entry(b) /\ (Persistent(b) => batF[b] = cur[b])
          BY <1>12, <3>1 DEF Switch
        <4>2. bakF'[b] = NoFile /\ subF'[b] = NoFile
          <5>1. CASE sub
            BY <1>12, <3>1, <5>1 DEF Switch, Rename
          <5>2. CASE ~sub
            BY <1>12, <3>1, <5>2 DEF Switch, Rename
          <5> QED BY <5>1, <5>2
        <4> QED BY <1>12, <2>1, <3>1, <4>1, <4>2 DEF Switch, Rename
      <3>2. CASE b \notin list
        BY <1>12, <2>1, <3>2 DEF Switch, Rename, RenameWorks
      <3> QED BY <3>1, <3>2
    <2> QED BY <2>2
  <1>13. CASE SwitchAgain \/ Reset \/ RemoveDel
    BY <1>13 DEF SwitchAgain, Rename, RenameWorks, Reset, ResetCounters,
                 RemoveDel
  <1>14. CASE Renew
    BY <1>14 DEF Renew, Prepare, PrepareFails, PrepareDisk, PrepareWorks,
                 PrepareFrom, PrepareSource, MakesBak, StartsSub,
                 MakesSub, Target
  <1>15. CASE Epilogue
    BY <1>15 DEF Epilogue, Leaves
  <1>16. CASE Lock \/ Failed \/ Crash \/ Boot
    BY <1>16 DEF Lock, Failed, Crash, Boot
  <1>17. CASE RecoverSubdir
    BY <1>17 DEF RecoverSubdir, Move, Drop
  <1>18. CASE RecoverDir \/ MoveDir
    BY <1>18 DEF RecoverDir, MoveDir
  <1>19. CASE ReadEntries
    BY <1>19 DEF ReadEntries
  <1>20. CASE RecoverHeaps
    BY <1>20 DEF RecoverHeaps, Move, Drop
  <1>21. CASE PrepareBoot
    BY <1>21 DEF PrepareBoot, Prepare, PrepareFails, PrepareDisk,
                 PrepareWorks, PrepareFrom, PrepareSource, MakesBak,
                 StartsSub, MakesSub, Target
  <1>22. CASE DiskScan \/ UNCHANGED vars
    BY <1>22 DEF DiskScan, vars
  <1> HIDE DEF IInv, DirInv, Shape, FilesType, MemoryType, FlagType, CountType,
               Control, Unfinished, RecoveredDir, Overlay, Whole, PrepareTo,
               Kept, DirKept, Rooms, DirPlaced, Counted, FilesPlaced, Backups,
               BackupOf, InMemory, MemoryOf, Swapping, Phases, Entry,
               Persistent, Running, Saveable, Versions
  <1> QED BY <1>1, <1>2, <1>3, <1>4, <1>5, <1>6, <1>7, <1>8, <1>9, <1>10,
             <1>11, <1>12, <1>13, <1>14, <1>15, <1>16, <1>17, <1>18, <1>19,
             <1>20, <1>21, <1>22
     DEF Next

\* What the users and the commit change in memory keeps track of the disk.
LEMMA InMemoryNext ==
    ASSUME Faultless, IInv, [Next]_vars
    PROVE  InMemory'
  <1> USE ContentAssumption, BoundsAssumption, BatsAssumption,
          SwitchAssumption
      DEF IInv, DirInv, Shape, FilesType, MemoryType, FlagType, CountType,
          Control, Unfinished, RecoveredDir, Overlay, Whole, PrepareTo,
          Kept, DirKept, Rooms, DirPlaced, Counted, FilesPlaced, Backups,
          BackupOf, InMemory, MemoryOf, Swapping, Phases, Entry,
          Persistent, Running, Saveable, Versions
  <1>1. ASSUME NEW b \in Bats,
             Create(b) \/ Update(b) \/ Delete(b) \/ Undelete(b) \/ Load(b)
               \/ Unload(b) \/ SwapOut(b)
       PROVE  InMemory'
    BY <1>1 DEF Create, Free, NewVersion, InUse, Update, Forget, Delete, Drop,
                Undelete, Load, Unload, Trimmable, SwapOut, MarkSwapped
  <1>2. CASE SwapPrepare
    BY <1>2 DEF SwapPrepare, Prepare, PrepareFails, PrepareDisk,
                PrepareWorks, PrepareFrom, PrepareSource, MakesBak,
                StartsSub, MakesSub, Target
  <1>3. CASE SwapMove
    BY <1>3 DEF SwapMove, Move, Drop
  <1>4. CASE SwapWrite \/ SwapWritten
    BY <1>4 DEF SwapWrite, SwapWritten
  <1>5. ASSUME NEW s \in BOOLEAN, NEW S \in SUBSET Bats,
             Begin(s, S)
       PROVE  InMemory'
    BY <1>5 DEF Begin, EndsDelta
  <1>6. CASE Sync
    BY <1>6 DEF Sync, Prepare, PrepareFails, PrepareDisk, PrepareWorks,
                PrepareFrom, PrepareSource, MakesBak, StartsSub, MakesSub,
                Target
  <1>7. ASSUME NEW b \in Bats,
             Backup(b)
       PROVE  InMemory'
    BY <1>7 DEF Backup, Returned, FromBak, FromBat, BackupFails, BackupTo,
                Counts, Move, Drop
  <1>8. ASSUME NEW b \in Bats,
             Save(b)
       PROVE  InMemory'
    BY <1>8 DEF Save
  <1>9. CASE BackedUp \/ Saved
    BY <1>9 DEF BackedUp, Saved
  <1>10. CASE OpenDir \/ ReuseDir
    BY <1>10 DEF OpenDir, ReuseDir
  <1>11. CASE WriteDir
    BY <1>11 DEF WriteDir, NewDir, OldDir
  <1>12. CASE Switch
    <2>1. RecoveredDir' = batD
      BY <1>12 DEF Switch, Rename, RenameWorks
    <2>2. ASSUME NEW b \in Bats
          PROVE  MemoryOf(b)'
      <3>1. CASE b \in list
        <4>1. batD[b] = Entry(b) /\ (Persistent(b) => batF[b] = cur[b])
          BY <1>12, <3>1 DEF Switch
        <4>2. bakF'[b] = NoFile /\ subF'[b] = NoFile
          <5>1. CASE sub
            BY <1>12, <3>1, <5>1 DEF Switch, Rename
          <5>2. CASE ~sub
            BY <1>12, <3>1, <5>2 DEF Switch, Rename
          <5> QED BY <5>1, <5>2
        <4> QED BY <1>12, <2>1, <3>1, <4>1, <4>2 DEF Switch, Rename
      <3>2. CASE b \notin list
        BY <1>12, <2>1, <3>2 DEF Switch, Rename, RenameWorks
      <3> QED BY <3>1, <3>2
    <2> QED BY <2>2
  <1>13. CASE SwitchAgain \/ Reset \/ RemoveDel
    BY <1>13 DEF SwitchAgain, Rename, RenameWorks, Reset, ResetCounters,
                 RemoveDel
  <1>14. CASE Renew
    BY <1>14 DEF Renew, Prepare, PrepareFails, PrepareDisk, PrepareWorks,
                 PrepareFrom, PrepareSource, MakesBak, StartsSub,
                 MakesSub, Target
  <1>15. CASE Epilogue
    BY <1>15 DEF Epilogue, Leaves
  <1>16. CASE Lock \/ Failed \/ Crash \/ Boot
    BY <1>16 DEF Lock, Failed, Crash, Boot
  <1>17. CASE RecoverSubdir
    BY <1>17 DEF RecoverSubdir, Move, Drop
  <1>18. CASE RecoverDir \/ MoveDir
    BY <1>18 DEF RecoverDir, MoveDir
  <1>19. CASE ReadEntries
    BY <1>19 DEF ReadEntries
  <1>20. CASE RecoverHeaps
    BY <1>20 DEF RecoverHeaps, Move, Drop
  <1>21. CASE PrepareBoot
    BY <1>21 DEF PrepareBoot, Prepare, PrepareFails, PrepareDisk,
                 PrepareWorks, PrepareFrom, PrepareSource, MakesBak,
                 StartsSub, MakesSub, Target
  <1>22. CASE DiskScan \/ UNCHANGED vars
    BY <1>22 DEF DiskScan, vars
  <1> HIDE DEF IInv, DirInv, Shape, FilesType, MemoryType, FlagType, CountType,
               Control, Unfinished, RecoveredDir, Overlay, Whole, PrepareTo,
               Kept, DirKept, Rooms, DirPlaced, Counted, FilesPlaced, Backups,
               BackupOf, InMemory, MemoryOf, Swapping, Phases, Entry,
               Persistent, Running, Saveable, Versions
  <1> QED BY <1>1, <1>2, <1>3, <1>4, <1>5, <1>6, <1>7, <1>8, <1>9, <1>10,
             <1>11, <1>12, <1>13, <1>14, <1>15, <1>16, <1>17, <1>18, <1>19,
             <1>20, <1>21, <1>22
     DEF Next

\* A BAT that is being swapped out is not part of the commit that runs.
LEMMA SwappingNext ==
    ASSUME Faultless, Marking, IInv, [Next]_vars
    PROVE  Swapping'
  <1> USE ContentAssumption, BoundsAssumption, BatsAssumption,
          SwitchAssumption
      DEF IInv, DirInv, Shape, FilesType, MemoryType, FlagType, CountType,
          Control, Unfinished, RecoveredDir, Overlay, Whole, PrepareTo,
          Kept, DirKept, Rooms, DirPlaced, Counted, FilesPlaced, Backups,
          BackupOf, InMemory, MemoryOf, Swapping, Phases, Entry,
          Persistent, Running, Saveable, Versions, Marking, Marks
  <1>1. ASSUME NEW b \in Bats,
             Create(b) \/ Update(b) \/ Delete(b) \/ Undelete(b) \/ Load(b)
               \/ Unload(b) \/ SwapOut(b)
       PROVE  Swapping'
    BY <1>1 DEF Create, Free, NewVersion, InUse, Update, Forget, Delete, Drop,
                Undelete, Load, Unload, Trimmable, SwapOut, MarkSwapped
  <1>2. CASE SwapPrepare
    BY <1>2 DEF SwapPrepare, Prepare, PrepareFails, PrepareDisk,
                PrepareWorks, PrepareFrom, PrepareSource, MakesBak,
                StartsSub, MakesSub, Target
  <1>3. CASE SwapMove
    BY <1>3 DEF SwapMove, Move, Drop
  <1>4. CASE SwapWrite \/ SwapWritten
    BY <1>4 DEF SwapWrite, SwapWritten
  <1>5. ASSUME NEW s \in BOOLEAN, NEW S \in SUBSET Bats,
             Begin(s, S)
       PROVE  Swapping'
    <2>1. s => sbat \notin S
      BY <1>5 DEF Begin, Subcommits
    <2> QED BY <1>5, <2>1 DEF Begin
  <1>6. CASE Sync
    BY <1>6 DEF Sync, Prepare, PrepareFails, PrepareDisk, PrepareWorks,
                PrepareFrom, PrepareSource, MakesBak, StartsSub, MakesSub,
                Target
  <1>7. ASSUME NEW b \in Bats,
             Backup(b)
       PROVE  Swapping'
    BY <1>7 DEF Backup, Returned, FromBak, FromBat, BackupFails, BackupTo,
                Counts, Move, Drop
  <1>8. ASSUME NEW b \in Bats,
             Save(b)
       PROVE  Swapping'
    BY <1>8 DEF Save
  <1>9. CASE BackedUp \/ Saved
    BY <1>9 DEF BackedUp, Saved
  <1>10. CASE OpenDir \/ ReuseDir
    BY <1>10 DEF OpenDir, ReuseDir
  <1>11. CASE WriteDir
    BY <1>11 DEF WriteDir, NewDir, OldDir
  <1>12. CASE Switch
    BY <1>12 DEF Switch, Rename, RenameWorks
  <1>13. CASE SwitchAgain \/ Reset \/ RemoveDel
    BY <1>13 DEF SwitchAgain, Rename, RenameWorks, Reset, ResetCounters,
                 RemoveDel
  <1>14. CASE Renew
    BY <1>14 DEF Renew, Prepare, PrepareFails, PrepareDisk, PrepareWorks,
                 PrepareFrom, PrepareSource, MakesBak, StartsSub,
                 MakesSub, Target
  <1>15. CASE Epilogue
    BY <1>15 DEF Epilogue, Leaves
  <1>16. CASE Lock \/ Failed \/ Crash \/ Boot
    BY <1>16 DEF Lock, Failed, Crash, Boot
  <1>17. CASE RecoverSubdir
    BY <1>17 DEF RecoverSubdir, Move, Drop
  <1>18. CASE RecoverDir \/ MoveDir
    BY <1>18 DEF RecoverDir, MoveDir
  <1>19. CASE ReadEntries
    BY <1>19 DEF ReadEntries
  <1>20. CASE RecoverHeaps
    BY <1>20 DEF RecoverHeaps, Move, Drop
  <1>21. CASE PrepareBoot
    BY <1>21 DEF PrepareBoot, Prepare, PrepareFails, PrepareDisk,
                 PrepareWorks, PrepareFrom, PrepareSource, MakesBak,
                 StartsSub, MakesSub, Target
  <1>22. CASE DiskScan \/ UNCHANGED vars
    BY <1>22 DEF DiskScan, vars
  <1> HIDE DEF IInv, DirInv, Shape, FilesType, MemoryType, FlagType, CountType,
               Control, Unfinished, RecoveredDir, Overlay, Whole, PrepareTo,
               Kept, DirKept, Rooms, DirPlaced, Counted, FilesPlaced, Backups,
               BackupOf, InMemory, MemoryOf, Swapping, Phases, Entry,
               Persistent, Running, Saveable, Versions, Marking, Marks
  <1> QED BY <1>1, <1>2, <1>3, <1>4, <1>5, <1>6, <1>7, <1>8, <1>9, <1>10,
             <1>11, <1>12, <1>13, <1>14, <1>15, <1>16, <1>17, <1>18, <1>19,
             <1>20, <1>21, <1>22
     DEF Next

\* A BAT that no checkpoint has seen has no backup.
LEMMA NewHasNoBackup ==
    ASSUME IInv, NEW b \in Bats, Free(b), status[b] \in {"none", "NEW"}
    PROVE  bakF[b] = NoFile
  <1>1. RecoveredDir[b] = 0
    BY DEF Free, IInv, InMemory, MemoryOf, Running
  <1>2. bakF[b] # 0
    BY ContentAssumption DEF IInv, DirInv, Shape, FilesType
  <1> QED BY <1>1, <1>2 DEF IInv, Backups, BackupOf

\* Whatever SwapOut takes is marked, and the mark stays until the epilogue, when
\* no backup is left.
LEMMA MarksNext ==
    ASSUME Faultless, Marking, IInv, [Next]_vars
    PROVE  Marks'
  <1>a. (sub => Subcommits)'
    <2>1. sub' = sub \/ ~sub' \/ Subcommits
      <3>1. CASE \E b \in Bats : Create(b) \/ Update(b) \/ Delete(b) \/ Undelete(b) \/ Load(b)
                                   \/ Unload(b) \/ SwapOut(b) \/ Backup(b) \/ Save(b)
        BY <3>1 DEF Create, Update, Delete, Undelete, Load, Unload, SwapOut, Backup, Save
      <3>2. CASE SwapPrepare \/ SwapMove \/ SwapWrite \/ SwapWritten \/ Lock \/ Sync \/ BackedUp
        BY <3>2 DEF SwapPrepare, SwapMove, SwapWrite, SwapWritten, Lock, Sync, BackedUp
      <3>3. CASE Begin(FALSE, Bats) \/ \E S \in (SUBSET Bats) \ {{}} : Begin(TRUE, S)
        BY <3>3 DEF Begin, Subcommits
      <3>4. CASE Saved \/ OpenDir \/ WriteDir \/ ReuseDir \/ Switch \/ SwitchAgain
        BY <3>4 DEF Saved, OpenDir, WriteDir, ReuseDir, Switch, SwitchAgain
      <3>5. CASE Reset \/ RemoveDel \/ Renew \/ Epilogue \/ Failed \/ Crash \/ UNCHANGED vars
        BY <3>5 DEF Reset, RemoveDel, Renew, Epilogue, Failed, Crash, vars
      <3>6. CASE Boot \/ RecoverSubdir \/ RecoverDir \/ MoveDir \/ ReadEntries
        BY <3>6 DEF Boot, RecoverSubdir, RecoverDir, MoveDir, ReadEntries
      <3>7. CASE RecoverHeaps \/ PrepareBoot \/ DiskScan
        BY <3>7 DEF RecoverHeaps, PrepareBoot, DiskScan
      <3> QED BY <3>1, <3>2, <3>3, <3>4, <3>5, <3>6, <3>7 DEF Next
    <2> QED BY <2>1 DEF IInv, Marks, Subcommits
  <1> SUFFICES ASSUME Subcommits, NEW c \in Bats
               PROVE  Marked(c)'
    BY <1>a DEF Marks, Subcommits
  <1>b. Marked(c) /\ ~InPlace /\ ~Trims
    BY DEF IInv, Marks, Marking
  <1> USE <1>b
      DEF IInv, DirInv, Shape, FilesType, MemoryType, Marked
  <1>1. ASSUME NEW b \in Bats,
             Create(b) \/ Update(b) \/ Delete(b) \/ Undelete(b) \/ Load(b)
               \/ Unload(b) \/ SwapOut(b)
       PROVE  Marked(c)'
    <2>1. CASE Delete(b)
      <3>1. CASE status[b] = "NEW"
        <4>1. bakF[b] = NoFile /\ sbat # b
          BY <2>1, <3>1, NewHasNoBackup DEF Delete, Free
        <4> QED BY <2>1, <3>1, <4>1 DEF Delete, Forget
      <3> QED BY <2>1, <3>1 DEF Delete
    <2>2. CASE Create(b) \/ Update(b)
      BY <2>2 DEF Create, Update, NewVersion
    <2>3. CASE Undelete(b) \/ Load(b) \/ Unload(b)
      BY <2>3 DEF Undelete, Load, Unload
    <2>4. CASE SwapOut(b)
      BY <2>4 DEF SwapOut, MarkSwapped, Trimmable, Free
    <2> QED BY <1>1, <2>1, <2>2, <2>3, <2>4
  <1>2. CASE SwapPrepare
    BY <1>2 DEF SwapPrepare
  <1>3. CASE SwapMove
    BY <1>3 DEF SwapMove, Move
  <1>4. CASE SwapWrite \/ SwapWritten
    BY <1>4 DEF SwapWrite, SwapWritten
  <1>5. ASSUME NEW s \in BOOLEAN, NEW S \in SUBSET Bats,
             Begin(s, S)
       PROVE  Marked(c)'
    BY <1>5 DEF Begin, EndsDelta
  <1>6. CASE Lock \/ Sync
    BY <1>6 DEF Lock, Sync
  <1>7. ASSUME NEW b \in Bats,
             Backup(b)
       PROVE  Marked(c)'
    <2>1. pc' = "phase1"
      BY <1>7 DEF Backup, BackupFails, DirInv, Rooms, FlagType
    <2> QED BY <1>7, <2>1 DEF Backup, BackupTo, Move, Drop, FlagType
  <1>8. ASSUME NEW b \in Bats,
             Save(b)
       PROVE  Marked(c)'
    BY <1>8 DEF Save
  <1>9. CASE BackedUp \/ Saved
    <2>1. pc' = "phase2"
      BY <1>9, BoundsAssumption DEF BackedUp, Saved, CountType
    <2> QED BY <1>9, <2>1 DEF BackedUp, Saved
  <1>10. CASE OpenDir \/ WriteDir \/ ReuseDir
    <2>1. pc' \in {"writedir", "rename"}
      BY <1>10, BoundsAssumption DEF OpenDir, WriteDir, ReuseDir, CountType
    <2> QED BY <1>10, <2>1 DEF OpenDir, WriteDir, ReuseDir
  <1>11. CASE Switch
    BY <1>11 DEF Switch, Rename, FlagType
  <1>11a. CASE SwitchAgain
    BY <1>11a DEF SwitchAgain, RenameWorks, Rooms
  <1>12. CASE Reset \/ RemoveDel \/ Renew
    BY <1>12 DEF Reset, RemoveDel, Renew
  <1>13. CASE Epilogue
    <2>1. c \in list => bakF[c] = NoFile /\ (Persistent(c) => ~dirty[c])
      BY <1>13 DEF Epilogue, InMemory, MemoryOf
    <2>2. spc # "none" => sbat \in Bats \ list
      BY <1>13 DEF Epilogue, Swapping
    <2> QED BY <1>13, <2>1, <2>2 DEF Epilogue, Leaves
  <1>14. CASE Failed \/ Crash
    BY <1>14 DEF Failed, Crash, Rooms
  <1>15. CASE Boot \/ RecoverSubdir \/ RecoverDir \/ MoveDir \/ ReadEntries
    BY <1>15 DEF Boot, RecoverSubdir, RecoverDir, MoveDir, ReadEntries
  <1>16. CASE RecoverHeaps \/ PrepareBoot
    BY <1>16 DEF RecoverHeaps, PrepareBoot
  <1>17. CASE DiskScan
    BY <1>17 DEF DiskScan, InMemory, MemoryOf, FilesPlaced
  <1>18. CASE UNCHANGED vars
    BY <1>18 DEF vars
  <1> HIDE <1>b
  <1> HIDE DEF IInv, DirInv, Shape, FilesType, MemoryType, Marked
  <1> QED
    BY <1>1, <1>2, <1>3, <1>4, <1>5, <1>6, <1>7, <1>8, <1>9, <1>10,
       <1>11, <1>11a, <1>12, <1>13, <1>14, <1>15, <1>16, <1>17, <1>18
    DEF Next

\* Phase 1 backs up what phase 2 writes, and BBP.dir is what was written.
LEMMA PhasesNext ==
    ASSUME Faultless, IInv, [Next]_vars
    PROVE  Phases'
  <1> USE ContentAssumption, BoundsAssumption, BatsAssumption,
          SwitchAssumption
      DEF IInv, DirInv, Shape, FilesType, MemoryType, FlagType, CountType,
          Control, Unfinished, RecoveredDir, Overlay, Whole, PrepareTo,
          Kept, DirKept, Rooms, DirPlaced, Counted, FilesPlaced, Backups,
          BackupOf, InMemory, MemoryOf, Swapping, Phases, Entry,
          Persistent, Running, Saveable, Versions
  <1>1. ASSUME NEW b \in Bats,
             Create(b) \/ Update(b) \/ Delete(b) \/ Undelete(b) \/ Load(b)
               \/ Unload(b) \/ SwapOut(b)
       PROVE  Phases'
    <2>1. CASE Create(b) \/ Update(b)
      BY <2>1 DEF Create, Update, Free, NewVersion
    <2>2. CASE Delete(b)
      BY <2>2 DEF Delete, Free, Forget, Drop
    <2>3. CASE Undelete(b)
      BY <2>3 DEF Undelete, Free
    <2>4. CASE Load(b) \/ Unload(b) \/ SwapOut(b)
      BY <2>4 DEF Load, Unload, SwapOut
    <2> QED BY <1>1, <2>1, <2>2, <2>3, <2>4
  <1>2. CASE SwapPrepare
    BY <1>2 DEF SwapPrepare, Prepare, PrepareFails, PrepareDisk,
                PrepareWorks, PrepareFrom, PrepareSource, MakesBak,
                StartsSub, MakesSub, Target
  <1>3. CASE SwapMove
    BY <1>3 DEF SwapMove, Move, Drop
  <1>4. CASE SwapWrite \/ SwapWritten
    BY <1>4 DEF SwapWrite, SwapWritten
  <1>5. ASSUME NEW s \in BOOLEAN, NEW S \in SUBSET Bats,
             Begin(s, S)
       PROVE  Phases'
    BY <1>5 DEF Begin, EndsDelta
  <1>6. CASE Sync
    BY <1>6 DEF Sync, Prepare, PrepareFails, PrepareDisk, PrepareWorks,
                PrepareFrom, PrepareSource, MakesBak, StartsSub, MakesSub,
                Target
  <1>7. ASSUME NEW b \in Bats,
             Backup(b)
       PROVE  Phases'
    BY <1>7 DEF Backup, Returned, FromBak, FromBat, BackupFails, BackupTo,
                Counts, Move, Drop, Marks, Marked
  <1>8. ASSUME NEW b \in Bats,
             Save(b)
       PROVE  Phases'
    BY <1>8 DEF Save
  <1>9. CASE BackedUp \/ Saved
    BY <1>9 DEF BackedUp, Saved
  <1>10. CASE OpenDir \/ ReuseDir
    BY <1>10 DEF OpenDir, ReuseDir
  <1>11. CASE WriteDir
    BY <1>11 DEF WriteDir, NewDir, OldDir
  <1>12. CASE Switch
    BY <1>12 DEF Switch, Rename, RenameWorks
  <1>13. CASE SwitchAgain \/ Reset \/ RemoveDel
    BY <1>13 DEF SwitchAgain, Rename, RenameWorks, Reset, ResetCounters,
                 RemoveDel
  <1>14. CASE Renew
    BY <1>14 DEF Renew, Prepare, PrepareFails, PrepareDisk, PrepareWorks,
                 PrepareFrom, PrepareSource, MakesBak, StartsSub,
                 MakesSub, Target
  <1>15. CASE Epilogue
    BY <1>15 DEF Epilogue, Leaves
  <1>16. CASE Lock \/ Failed \/ Crash \/ Boot
    BY <1>16 DEF Lock, Failed, Crash, Boot
  <1>17. CASE RecoverSubdir
    BY <1>17 DEF RecoverSubdir, Move, Drop
  <1>18. CASE RecoverDir \/ MoveDir
    BY <1>18 DEF RecoverDir, MoveDir
  <1>19. CASE ReadEntries
    BY <1>19 DEF ReadEntries
  <1>20. CASE RecoverHeaps
    BY <1>20 DEF RecoverHeaps, Move, Drop
  <1>21. CASE PrepareBoot
    BY <1>21 DEF PrepareBoot, Prepare, PrepareFails, PrepareDisk,
                 PrepareWorks, PrepareFrom, PrepareSource, MakesBak,
                 StartsSub, MakesSub, Target
  <1>22. CASE DiskScan \/ UNCHANGED vars
    BY <1>22 DEF DiskScan, vars
  <1> HIDE DEF IInv, DirInv, Shape, FilesType, MemoryType, FlagType, CountType,
               Control, Unfinished, RecoveredDir, Overlay, Whole, PrepareTo,
               Kept, DirKept, Rooms, DirPlaced, Counted, FilesPlaced, Backups,
               BackupOf, InMemory, MemoryOf, Swapping, Phases, Entry,
               Persistent, Running, Saveable, Versions
  <1> QED BY <1>1, <1>2, <1>3, <1>4, <1>5, <1>6, <1>7, <1>8, <1>9, <1>10,
             <1>11, <1>12, <1>13, <1>14, <1>15, <1>16, <1>17, <1>18, <1>19,
             <1>20, <1>21, <1>22
     DEF Next

\* Every step keeps the invariant of the directories.
LEMMA NextDirInv ==
    ASSUME Faultless, DirInv, [Next]_vars
    PROVE  DirInv'
  <1>1. Shape' /\ Kept'
    BY NextKept DEF DirInv
  <1>2. DirPlaced' /\ Rooms' /\ Counted' /\ FilesPlaced'
    BY DirPlacedNext, RoomsNext, CountedNext, FilesPlacedNext
  <1> QED BY <1>1, <1>2 DEF DirInv

\* It holds in every reachable state.
LEMMA DirInvariant ==
    ASSUME Faultless
    PROVE  Spec => []DirInv
  <1>1. Init => DirInv
    BY InitIInv DEF IInv
  <1>2. DirInv /\ [Next]_vars => DirInv'
    BY NextDirInv
  <1> QED BY <1>1, <1>2, PTL DEF Spec

\* Every step keeps the invariant.
LEMMA NextIInv ==
    ASSUME Faultless, Marking, IInv, [Next]_vars
    PROVE  IInv'
  <1>1. DirInv'
    BY NextDirInv DEF IInv
  <1>2. Backups' /\ InMemory' /\ Swapping' /\ Marks' /\ Phases'
    BY BackupsNext, InMemoryNext, SwappingNext, MarksNext, PhasesNext
  <1> QED BY <1>1, <1>2 DEF IInv

\* The invariant holds in every reachable state.
LEMMA Invariant ==
    ASSUME Faultless, Marking
    PROVE  Spec => []IInv
  <1>1. IInv /\ [Next]_vars => IInv'
    BY NextIInv
  <1> QED BY <1>1, InitIInv, PTL DEF Spec

----------------------------------------------------------------------------
(***************************************************************************)
(* What a restart finds is the checkpoint: the heaps fit their entries.    *)
(***************************************************************************)
\* Recovered, with its test that a heap fits its entry, is the BBP.dir it reads.
LEMMA RestartFinds ==
    IInv => RecoveredDir \in [Bats -> 0..MaxVersion] /\ Recovered = RecoveredDir
  <1> SUFFICES ASSUME IInv
               PROVE  RecoveredDir \in [Bats -> 0..MaxVersion] /\ Recovered = RecoveredDir
    OBVIOUS
  <1>1. RecoveredDir \in [Bats -> 0..MaxVersion]
    BY DEF IInv, DirInv, Shape, FilesType, DirPlaced, Whole, RecoveredDir, Overlay
  <1>2. ASSUME NEW b \in Bats, RecoveredDir[b] # 0
        PROVE  RecoveredFile(b) = RecoveredDir[b]
    BY <1>2 DEF IInv, Backups, BackupOf, RecoveredFile, Overlay
  <1>3. RecoveredDir \notin {NoFile, Torn}
    BY DEF IInv, DirInv, DirPlaced, Whole
  <1> QED BY <1>1, <1>2, <1>3 DEF Recovered

\* At every moment of a commit, of a swap and of a restart a crash leaves a
\* disk from which every BAT of the checkpoint comes back with the heap that
\* fits its entry.
THEOREM RecoverySafety ==
    ASSUME Faultless, Marking
    PROVE  Spec => []Recoverable
  <1>1. IInv => Recoverable
    BY RestartFinds, BoundsAssumption, ContentAssumption DEF Recoverable
  <1> QED BY <1>1, Invariant, PTL

\* When BBPsync answers success, a restart would find the current state of
\* every BAT the commit was for.
THEOREM Durability ==
    ASSUME Faultless, Marking
    PROVE  Spec => []Durable
  <1>1. IInv => Durable
    BY RestartFinds DEF IInv, DirInv, Shape, CountType, InMemory, MemoryOf, Durable
  <1> QED BY <1>1, Invariant, PTL

\* The counters that make BBPprepare skip the recovery are 0 only when there is
\* nothing to recover.
THEOREM CounterSafety ==
    ASSUME Faultless
    PROVE  Spec => []CountersSound
  <1>1. DirInv => CountersSound
    <2> SUFFICES ASSUME DirInv, Up PROVE CountersSound
      BY DEF CountersSound
    <2>1. backupSubdir = 0 => subD = NoFile /\ \A b \in Bats : subF[b] = NoFile
      BY DEF DirInv, Shape, Control, CountType, Rooms, DirPlaced, Counted, FilesPlaced
    <2>2. backupFiles = 0 => backupSubdir = 0
      BY DEF DirInv, Shape, CountType, Control
    <2>3. backupFiles = 0 => bakD = NoFile /\ \A b \in Bats : bakF[b] = NoFile
      BY <2>2 DEF DirInv, Counted
    <2> QED BY <2>1, <2>2, <2>3 DEF CountersSound
  <1> QED BY <1>1, DirInvariant, PTL

\* backup_dir tells where BBP.dir is (BBPrecover, BBPprepare, BBPsync): the next
\* commit moves the right one into the backup directory.
THEOREM BackupDirSafety ==
    ASSUME Faultless
    PROVE  Spec => []BackupDirExact
  <1>1. DirInv => BackupDirExact
    BY DEF DirInv, DirPlaced, BackupDirExact
  <1> QED BY <1>1, DirInvariant, PTL

----------------------------------------------------------------------------
(***************************************************************************)
(* The refinement of Checkpoint.                                           *)
(***************************************************************************)
\* No step but the rename of a commit changes the BBP.dir a restart reads.
LEMMA DirStays ==
    ASSUME Faultless, DirInv, ~Switch, [Next]_vars
    PROVE  RecoveredDir' = RecoveredDir
  <1> USE ContentAssumption, BoundsAssumption, BatsAssumption,
          SwitchAssumption
      DEF DirInv, Shape, FilesType, MemoryType, FlagType, CountType,
          Control, Unfinished, RecoveredDir, Overlay, Whole, PrepareTo,
          Kept, DirKept, Rooms, DirPlaced, Counted, FilesPlaced, Versions
  <1>1. ASSUME NEW b \in Bats,
             Create(b) \/ Update(b) \/ Delete(b) \/ Undelete(b) \/ Load(b)
               \/ Unload(b) \/ SwapOut(b)
       PROVE  RecoveredDir' = RecoveredDir
    BY <1>1 DEF Create, Free, NewVersion, InUse, Update, Forget, Delete, Drop,
                Undelete, Load, Unload, Trimmable, SwapOut, MarkSwapped
  <1>2. CASE SwapPrepare
    BY <1>2 DEF SwapPrepare, Prepare, PrepareFails, PrepareDisk,
                PrepareWorks, PrepareFrom, PrepareSource, MakesBak,
                StartsSub, MakesSub, Target
  <1>3. CASE SwapMove \/ SwapWrite \/ SwapWritten
    BY <1>3 DEF SwapMove, Move, Drop, SwapWrite, SwapWritten
  <1>4. ASSUME NEW s \in BOOLEAN, NEW S \in SUBSET Bats,
             Begin(s, S)
       PROVE  RecoveredDir' = RecoveredDir
    BY <1>4 DEF Begin, EndsDelta
  <1>5. CASE Sync
    BY <1>5 DEF Sync, Prepare, PrepareFails, PrepareDisk, PrepareWorks,
                PrepareFrom, PrepareSource, MakesBak, StartsSub, MakesSub,
                Target
  <1>6. ASSUME NEW b \in Bats,
             Backup(b) \/ Save(b)
       PROVE  RecoveredDir' = RecoveredDir
    BY <1>6 DEF Backup, Returned, FromBak, FromBat, BackupFails, BackupTo,
                Counts, Move, Drop, Save
  <1>7. CASE BackedUp \/ Saved
    BY <1>7 DEF BackedUp, Saved
  <1>8. CASE OpenDir \/ WriteDir \/ ReuseDir
    BY <1>8 DEF OpenDir, WriteDir, NewDir, OldDir, Entry, ReuseDir
  <1>9. CASE SwitchAgain
    BY <1>9 DEF SwitchAgain, Rename, RenameWorks
  <1>10. CASE Reset \/ RemoveDel
    BY <1>10 DEF Reset, ResetCounters, RemoveDel
  <1>11. CASE Renew
    BY <1>11 DEF Renew, Prepare, PrepareFails, PrepareDisk, PrepareWorks,
                 PrepareFrom, PrepareSource, MakesBak, StartsSub,
                 MakesSub, Target
  <1>12. CASE Lock \/ Epilogue \/ Failed \/ Crash
    BY <1>12 DEF Lock, Epilogue, Leaves, Failed, Crash
  <1>13. CASE Boot \/ RecoverSubdir
    BY <1>13 DEF Boot, RecoverSubdir, Move, Drop
  <1>14. CASE RecoverDir \/ MoveDir \/ ReadEntries
    BY <1>14 DEF RecoverDir, MoveDir, ReadEntries
  <1>15. CASE RecoverHeaps
    BY <1>15 DEF RecoverHeaps, Move, Drop
  <1>16. CASE PrepareBoot
    BY <1>16 DEF PrepareBoot, Prepare, PrepareFails, PrepareDisk,
                 PrepareWorks, PrepareFrom, PrepareSource, MakesBak,
                 StartsSub, MakesSub, Target
  <1>17. CASE DiskScan \/ UNCHANGED vars
    BY <1>17 DEF DiskScan, vars
  <1> HIDE DEF DirInv, Shape, FilesType, MemoryType, FlagType, CountType,
               Control, Unfinished, RecoveredDir, Overlay, Whole, PrepareTo,
               Kept, DirKept, Rooms, DirPlaced, Counted, FilesPlaced, Versions
  <1> QED BY <1>1, <1>2, <1>3, <1>4, <1>5, <1>6, <1>7, <1>8, <1>9, <1>10,
             <1>11, <1>12, <1>13, <1>14, <1>15, <1>16, <1>17
     DEF Next

\* The state of the server that Checkpoint sees.
Image == [b \in Bats |-> IF Running THEN Entry(b) ELSE Recovered[b]]

\* A step of the users changes the image of one BAT.
LEMMA UserImage ==
    ASSUME Faultless, IInv, NEW b \in Bats,
           Create(b) \/ Update(b) \/ Delete(b) \/ Undelete(b) \/ Load(b)
               \/ Unload(b) \/ SwapOut(b)
    PROVE  /\ Image'[b] \in Nat
           /\ Image' = [Image EXCEPT ![b] = Image'[b]]
  <1>1. Running /\ Running'
    BY DEF Create, Update, Delete, Undelete, Load, Unload, SwapOut, Trimmable, Free, Running
  <1>2. Entry(b)' \in Nat
    BY BoundsAssumption DEF IInv, DirInv, Shape, MemoryType, Create, Update, Delete, Undelete, Load,
         Unload, SwapOut, NewVersion, Entry, Persistent
  <1>3. ASSUME NEW c \in Bats \ {b}
        PROVE  Entry(c)' = Entry(c)
    BY DEF IInv, DirInv, Shape, MemoryType, Create, Update, Delete, Undelete, Load,
           Unload, SwapOut, NewVersion, Entry, Persistent
  <1> QED BY <1>1, <1>2, <1>3 DEF Image

\* No other step of a running server changes it: the epilogue turns new BATs
\* into existing ones and forgets the deleted ones, which have no entry.
LEMMA ServerImage ==
    ASSUME Faultless, IInv, Running, Running', [Next]_vars,
           ~ \E b \in Bats : Create(b) \/ Update(b) \/ Delete(b) \/ Undelete(b) \/ Load(b)
               \/ Unload(b) \/ SwapOut(b)
    PROVE  Image' = Image
  <1> SUFFICES ASSUME NEW b \in Bats PROVE Entry(b)' = Entry(b)
    BY DEF Image
  <1>1. CASE Epilogue
    BY <1>1 DEF IInv, DirInv, Shape, MemoryType, Epilogue, Entry, Persistent
  <1>2. CASE Crash \/ ReadEntries
    BY <1>2 DEF Crash, ReadEntries, Running
  <1>3. UNCHANGED <<status, cur>> => Entry(b)' = Entry(b)
    BY DEF Entry, Persistent
  <1>4. CASE SwapPrepare \/ SwapMove \/ SwapWrite \/ SwapWritten
    BY <1>3, <1>4 DEF SwapPrepare, SwapMove, SwapWrite, SwapWritten
  <1>5. CASE Begin(FALSE, Bats) \/ \E S \in (SUBSET Bats) \ {{}} : Begin(TRUE, S)
    BY <1>3, <1>5 DEF Begin, EndsDelta
  <1>6. CASE \E c \in Bats : Backup(c) \/ Save(c)
    BY <1>3, <1>6 DEF Backup, Save
  <1>7. CASE Sync \/ BackedUp \/ Saved \/ OpenDir \/ WriteDir \/ ReuseDir
    BY <1>3, <1>7 DEF Sync, BackedUp, Saved, OpenDir, WriteDir, ReuseDir
  <1>8. CASE Switch \/ SwitchAgain \/ Reset \/ RemoveDel \/ Renew \/ Lock \/ Failed
    BY <1>3, <1>8 DEF Switch, SwitchAgain, Reset, RemoveDel, Renew, Lock, Failed
  <1>9. CASE Boot \/ RecoverSubdir \/ RecoverDir \/ MoveDir \/ RecoverHeaps \/ PrepareBoot \/ DiskScan
    BY <1>3, <1>9 DEF Boot, RecoverSubdir, RecoverDir, MoveDir, RecoverHeaps, PrepareBoot, DiskScan
  <1>10. CASE UNCHANGED vars
    BY <1>3, <1>10 DEF vars
  <1> QED BY <1>1, <1>2, <1>4, <1>5, <1>6, <1>7, <1>8, <1>9, <1>10 DEF Next

\* The rename makes the checkpoint of the BATs of the commit their image.
LEMMA SwitchCommits ==
    ASSUME Faultless, IInv, Switch
    PROVE  /\ RecoveredDir' = [b \in Bats |-> IF b \in list THEN Image[b] ELSE RecoveredDir[b]]
           /\ Running /\ Running'
  <1>1. RecoveredDir' = batD
    BY DEF IInv, DirInv, DirPlaced, RecoveredDir, Overlay, Switch, Rename
  <1>2. Running /\ Running'
    BY DEF Switch, Running
  <1>3. batD \in [Bats -> 0..MaxVersion]
    BY DEF IInv, DirInv, Shape, FilesType, Phases, Whole, Switch
  <1> QED BY <1>1, <1>2, <1>3 DEF IInv, Phases, Switch, Image

\* The same in the next state.
LEMMA RestartFindsNext == IInv' => Recovered' = RecoveredDir'
  <1>1. IInv => Recovered = RecoveredDir
    BY RestartFinds
  <1>2. (IInv => Recovered = RecoveredDir)'
    BY <1>1, PTL
  <1> QED BY <1>2

\* A restart begins to run the server when it has read BBP.dir.
LEMMA StartsRunning ==
    ASSUME IInv, [Next]_vars, ~Running, Running'
    PROVE  ReadEntries
  <1> USE DEF Running, IInv, Shape, Control
  <1>1. ~ \E b \in Bats : Create(b) \/ Update(b) \/ Delete(b) \/ Undelete(b) \/ Load(b)
               \/ Unload(b) \/ SwapOut(b)
    BY DEF Create, Update, Delete, Undelete, Load, Unload, SwapOut, Trimmable, Free
  <1>2. ~(SwapPrepare \/ SwapMove \/ SwapWrite \/ SwapWritten)
    BY DEF Versions, SwapPrepare, SwapMove, SwapWrite, SwapWritten
  <1>3. ~ \E b \in Bats : Backup(b) \/ Save(b)
    BY DEF Backup, Save
  <1>4. ~(Begin(FALSE, Bats) \/ \E S \in (SUBSET Bats) \ {{}} : Begin(TRUE, S))
    BY DEF Begin, EndsDelta
  <1>5. ~(Lock \/ Sync \/ BackedUp \/ Saved \/ OpenDir \/ WriteDir \/ ReuseDir)
    BY DEF Lock, Sync, BackedUp, Saved, OpenDir, WriteDir, ReuseDir
  <1>6. ~(Switch \/ SwitchAgain \/ Reset \/ RemoveDel \/ Renew \/ Epilogue \/ Failed \/ Crash)
    BY DEF Switch, SwitchAgain, Reset, RemoveDel, Renew, Epilogue, Failed, Crash
  <1>7. ~(Boot \/ RecoverSubdir \/ RecoverDir \/ MoveDir \/ RecoverHeaps \/ PrepareBoot \/ DiskScan)
    BY DEF Boot, RecoverSubdir, RecoverDir, MoveDir, RecoverHeaps, PrepareBoot, DiskScan
  <1>8. ~UNCHANGED vars
    BY DEF vars
  <1> QED BY <1>1, <1>2, <1>3, <1>4, <1>5, <1>6, <1>7, <1>8 DEF Next

\* Every step of the protocol is a step of Checkpoint, or changes nothing there:
\* a step of a user changes a BAT, the rename commits, a crash restarts.
LEMMA StepMaps ==
    ASSUME Faultless, IInv, IInv', [Next]_vars
    PROVE  \/ Recovered' = Recovered /\ Image' = Image
           \/ /\ Recovered' = Recovered
              /\ \E b \in Bats : /\ Image'[b] \in Nat
                                 /\ Image' = [Image EXCEPT ![b] = Image'[b]]
           \/ /\ Recovered' = [b \in Bats |-> IF b \in list THEN Image[b] ELSE Recovered[b]]
              /\ Image' = Image
           \/ Recovered' = Recovered /\ Image' = Recovered
  <1> DEFINE User == \E b \in Bats : \/ Create(b) \/ Update(b) \/ Delete(b)
                                    \/ Undelete(b) \/ Load(b) \/ Unload(b) \/ SwapOut(b)
  <1>1. Recovered = RecoveredDir /\ Recovered' = RecoveredDir'
    BY RestartFinds, RestartFindsNext
  <1>2. RecoveredDir \in [Bats -> 0..MaxVersion]
    BY RestartFinds
  <1>3. CASE Switch
    <2>1. ~User
      BY <1>3 DEF Switch, Create, Update, Delete, Undelete, Load, Unload, SwapOut, MarkSwapped, NewVersion
    <2> QED BY <1>1, <1>3, <2>1, SwitchCommits, ServerImage
  <1>4. CASE ~Switch
    <2>1. Recovered' = Recovered
      BY <1>1, <1>4, DirStays DEF IInv
    <2>2. CASE User
      BY <2>1, <2>2, UserImage
    <2>3. CASE ~User /\ Running /\ Running'
      BY <2>1, <2>3, ServerImage
    <2>4. CASE ~Running'
      BY <1>1, <1>2, <2>1, <2>4 DEF Image
    <2>5. CASE ~Running /\ Running'
      <3>1. ReadEntries
        BY <2>5, StartsRunning
      <3>2. ASSUME NEW b \in Bats
            PROVE  Entry(b)' = RecoveredDir[b]
        BY <3>1 DEF IInv, DirInv, DirPlaced, RecoveredDir, Overlay, ReadEntries, Entry, Persistent
      <3> QED BY <1>1, <1>2, <2>1, <2>5, <3>2 DEF Image
    <2> QED BY <2>2, <2>3, <2>4, <2>5
  <1> QED BY <1>3, <1>4

\* Commits are atomic: the renames, writes and removals of TMcommit,
\* TMsubcommit_list and BBPsync, with crashes between any two of them, do what
\* Checkpoint does in one step.
THEOREM Refinement ==
    ASSUME Faultless, Marking
    PROVE  Spec => ImplementsCheckpoint
  <1>1. Init => Abstract!Init
    <2> SUFFICES ASSUME Init PROVE Abstract!Init
      OBVIOUS
    <2>1. Recovered = RecoveredDir
      BY InitIInv, RestartFinds
    <2>2. RecoveredDir = [b \in Bats |-> 0]
      BY DEF Init, RecoveredDir, Overlay
    <2>3. ~Running
      BY DEF Init, Running
    <2> QED BY <2>1, <2>2, <2>3 DEF Abstract!Init
  <1>2. ASSUME IInv, IInv', [Next]_vars
        PROVE  [Abstract!Next]_<<Recovered, Image>>
    <2>1. \/ Recovered' = Recovered /\ Image' = Image
          \/ /\ Recovered' = Recovered
             /\ \E b \in Bats : /\ Image'[b] \in Nat
                                /\ Image' = [Image EXCEPT ![b] = Image'[b]]
          \/ /\ Recovered' = [b \in Bats |-> IF b \in list THEN Image[b] ELSE Recovered[b]]
             /\ Image' = Image
          \/ Recovered' = Recovered /\ Image' = Recovered
      BY <1>2, StepMaps
    <2>2. list \in SUBSET Bats
      BY <1>2 DEF IInv, DirInv, Shape, CountType
    <2> QED BY <2>1, <2>2 DEF Abstract!Next, Abstract!Change, Abstract!Commit, Abstract!Restart, Image
  <1> QED BY <1>1, <1>2, Invariant, PTL DEF Spec, ImplementsCheckpoint, Abstract!Spec, Image

=============================================================================
