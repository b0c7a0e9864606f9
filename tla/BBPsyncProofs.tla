--------------------------- MODULE BBPsyncProofs ---------------------------
(***************************************************************************)
(* What holds of BBPsync for every value of its constants, whatever fails: *)
(* the types, and that a BBP.dir is always in one of the three directories *)
(* (DirKept).                                                              *)
(***************************************************************************)
EXTENDS BBPsync, TLAPS

\* Where the commit or the restart is: before BBPprepare in BBPinit, between
\* the BBPprepare of a commit and the rename, and after it.
Booting == {"boot", "subdir", "dir", "move", "read", "heaps", "prepare"}
Syncing == {"phase1", "phase2", "writedir", "rename"}
Committed == {"reset", "remove", "renew", "epilogue"}
Places == Booting \cup {"scan", "idle", "lock", "sync", "failed", "late"} \cup Syncing \cup Committed

\* TypeOK in four parts.
FilesType ==
    /\ batF \in [Bats -> Heaps] /\ bakF \in [Bats -> Heaps] /\ subF \in [Bats -> Heaps]
    /\ batD \in Dirs /\ bakD \in Dirs \ {Torn} /\ subD \in Dirs \ {Torn}

MemoryType ==
    /\ ver \in [Bats -> 0..MaxVersion] /\ cur \in [Bats -> 0..MaxVersion]
    /\ status \in [Bats -> {"none", "NEW", "EXISTING", "DELETED"}]
    /\ dirty \in [Bats -> BOOLEAN] /\ unaligned \in [Bats -> BOOLEAN]
    /\ loaded \in [Bats -> BOOLEAN]
    /\ delta \in [Bats -> BOOLEAN] /\ swapped \in [Bats -> BOOLEAN]

FlagType ==
    /\ {bakThere, subThere, delThere} \subseteq BOOLEAN
    /\ bbpDirty \in BOOLEAN /\ oidDirty \in BOOLEAN
    /\ sub \in BOOLEAN /\ bbpd \in BOOLEAN

CountType ==
    /\ backupDir \in 0..2 /\ backupFiles \in Nat /\ backupSubdir \in Nat
    /\ list \in SUBSET Bats /\ left \in SUBSET Bats
    /\ sbat \in Bats \cup {0} /\ saving \in Bats \cup {0}
    /\ fails \in 0..MaxFails

\* backup_subdir counts some of backup_files, so that the subtraction after a
\* subcommit stays a natural number.
Control ==
    /\ pc \in Places
    /\ spc \in {"none", "prepare", "move", "write", "written"}
    /\ backupSubdir <= backupFiles
    /\ pc \in {"remove", "renew"} => backupSubdir = 0
    /\ pc = "lock" => sub

\* A BBP.dir that is half written is never taken for the one to back up:
\* backup_dir tells that the good one is elsewhere.
Unfinished ==
    /\ pc \in {"phase1", "phase2", "writedir"} => backupDir # 0 /\ backupFiles > 0
    /\ batD = Torn => /\ pc \notin {"heaps", "prepare", "scan", "rename", "late"} \cup Committed
                      /\ Up => backupDir # 0 /\ backupFiles > 0

\* Whatever is written to a heap file has a version.
Versions ==
    /\ \A b \in Bats : status[b] # "none" => cur[b] # 0
    /\ spc # "none" => Up /\ sbat \in Bats /\ cur[sbat] # 0
    /\ saving # 0 => pc = "phase2" /\ cur[saving] # 0
    /\ pc = "phase2" => \A b \in left : cur[b] # 0

Shape == FilesType /\ MemoryType /\ FlagType /\ CountType /\ Control /\ Unfinished /\ Versions

\* backup_dir names a place that has BBP.dir.
Located == (backupDir = 1 => bakD # NoFile) /\ (backupDir = 2 => subD # NoFile)

\* DirKept and what it rests on.  A commit that is done at the second attempt
\* leaves backup_dir stale; BBP_dirty is then set, so that BBPsync writes
\* BBP.dir and does not look for the old one.
Kept ==
    /\ DirKept
    /\ Up /\ pc # "idle" /\ ~sub => spc = "none"
    /\ pc \in Booting => backupDir = 0 /\ backupFiles = 0
    /\ Located \/ bbpDirty
    /\ pc \in {"phase1", "phase2"} =>
          bbpd \/ (IF backupDir = 1 THEN bakD ELSE subD) # NoFile
    /\ pc = "writedir" => bbpd
    /\ pc \in Syncing /\ bbpd => bbpDirty
    /\ pc = "rename" => batD # NoFile \/ (sub /\ bakD # NoFile)
    /\ pc = "rename" /\ ~bbpDirty => backupDir = 0 \/ (sub /\ backupDir = 1)
    /\ pc = "move" => bakD # NoFile

USE DEF Heaps, Dirs, Up, Booting, Syncing, Committed, Places,
        diskF, diskD, dirs, memory, flags, backup, commit, swap

----------------------------------------------------------------------------
\* TypeOK is the four parts.
LEMMA TypeParts == TypeOK <=> FilesType /\ MemoryType /\ FlagType /\ CountType
  BY DEF TypeOK, FilesType, MemoryType, FlagType, CountType

\* BBPprepare moves a BBP.dir that is there, and nothing else.
LEMMA PrepareType ==
    ASSUME FilesType, FlagType, CountType, NEW s \in BOOLEAN, PrepareDisk(s),
           PrepareFrom = 0 => batD # Torn
    PROVE  /\ batD' \in Dirs /\ bakD' \in Dirs \ {Torn} /\ subD' \in Dirs \ {Torn}
           /\ {bakThere, subThere, delThere}' \subseteq BOOLEAN
           /\ backupDir' \in 0..2
  <1> USE ContentAssumption, SwitchAssumption
      DEF PrepareDisk, PrepareFrom, PrepareTo, PrepareSource, PrepareWorks,
          MakesBak, StartsSub, MakesSub, Target, FilesType, FlagType, CountType
  <1>1. /\ {bakThere, subThere, delThere}' \subseteq BOOLEAN
        /\ backupDir' \in 0..2
    OBVIOUS
  <1>2. CASE PrepareFrom = PrepareTo(s) \/ ~PrepareWorks(s)
    BY <1>1, <1>2
  <1>3. CASE ~(PrepareFrom = PrepareTo(s) \/ ~PrepareWorks(s))
    <2>1. PrepareSource \in Dirs \ {Torn}
      OBVIOUS
    <2>2. CASE s
      BY <1>1, <1>3, <2>1, <2>2
    <2>3. CASE ~s
      BY <1>1, <1>3, <2>1, <2>3
    <2> QED BY <2>2, <2>3
  <1> QED BY <1>2, <1>3

\* The steps that call BBPprepare keep the types of what it touches.
LEMMA PrepareStep ==
    ASSUME Shape, SwapPrepare \/ Sync \/ Renew \/ PrepareBoot
    PROVE  /\ batD' \in Dirs /\ bakD' \in Dirs \ {Torn} /\ subD' \in Dirs \ {Torn}
           /\ {bakThere, subThere, delThere}' \subseteq BOOLEAN
           /\ backupDir' \in 0..2
  <1>1. PrepareFrom = 0 => batD # Torn
    <2>1. Up \/ pc = "prepare"
      BY DEF Shape, Versions, SwapPrepare, Sync, Renew, PrepareBoot
    <2> QED BY <2>1 DEF Shape, CountType, Unfinished, PrepareFrom
  <1>2. \E s \in BOOLEAN : PrepareDisk(s)
    BY DEF Shape, FlagType, SwapPrepare, Sync, Renew, PrepareBoot, Prepare, PrepareFails
  <1> QED BY <1>1, <1>2, PrepareType DEF Shape

\* A fresh database has the shape.
LEMMA InitShape == Init => Shape
  <1> SUFFICES ASSUME Init PROVE Shape
    OBVIOUS
  <1> USE ContentAssumption, BoundsAssumption, BatsAssumption DEF Init
  <1>1. FilesType
    BY DEF FilesType
  <1>2. MemoryType
    BY DEF MemoryType
  <1>3. FlagType
    BY DEF FlagType
  <1>4. CountType
    BY DEF CountType
  <1>5. Control /\ Unfinished /\ Versions
    BY DEF Control, Unfinished, Versions
  <1> QED BY <1>1, <1>2, <1>3, <1>4, <1>5 DEF Shape

\* No step tears a backup of BBP.dir, and every file has a known content.
LEMMA FilesNext ==
    ASSUME Shape, [Next]_vars
    PROVE  FilesType'
  <1> USE ContentAssumption, BoundsAssumption, BatsAssumption,
          SwitchAssumption
      DEF Shape, FilesType, MemoryType, FlagType, CountType, Control,
          Unfinished, Versions
  <1>1. ASSUME NEW b \in Bats,
             Create(b)
       PROVE  FilesType'
    BY <1>1 DEF Create, Free, NewVersion
  <1>2. ASSUME NEW b \in Bats,
             Update(b)
       PROVE  FilesType'
    BY <1>2 DEF Update, Free, NewVersion, InUse, Persistent
  <1>3. ASSUME NEW b \in Bats,
             Delete(b)
       PROVE  FilesType'
    BY <1>3 DEF Delete, Free, Drop, Forget
  <1>4. ASSUME NEW b \in Bats,
             Undelete(b) \/ Load(b) \/ Unload(b) \/ SwapOut(b)
       PROVE  FilesType'
    BY <1>4 DEF Undelete, Free, Load, InUse, Persistent, Trimmable, Unload,
                SwapOut, MarkSwapped
  <1>5. CASE SwapMove \/ SwapWrite \/ SwapWritten
    BY <1>5 DEF SwapMove, Move, Drop, SwapWrite, SwapWritten
  <1>6. CASE SwapPrepare \/ Sync \/ Renew \/ PrepareBoot
    BY <1>6, PrepareStep DEF SwapPrepare, Sync, Renew, PrepareBoot, Prepare, PrepareFails
  <1>7. ASSUME NEW s \in BOOLEAN, NEW S \in SUBSET Bats,
             Begin(s, S)
       PROVE  FilesType'
    BY <1>7 DEF Begin, EndsDelta
  <1>8. ASSUME NEW b \in Bats,
             Backup(b) \/ Save(b)
       PROVE  FilesType'
    BY <1>8 DEF Backup, Returned, FromBak, FromBat, BackupFails, BackupTo,
                Counts, Move, Drop, Save
  <1>9. CASE BackedUp \/ Saved
    BY <1>9 DEF BackedUp, Saved
  <1>10. CASE OpenDir \/ WriteDir \/ ReuseDir
    BY <1>10 DEF OpenDir, WriteDir, NewDir, OldDir, Entry, ReuseDir
  <1>11. CASE Switch \/ SwitchAgain
    BY <1>11 DEF Switch, Rename, RenameWorks, SwitchAgain
  <1>12. CASE Reset \/ RemoveDel
    BY <1>12 DEF Reset, ResetCounters, RemoveDel
  <1>13. CASE Lock \/ Epilogue \/ Failed
    BY <1>13 DEF Lock, Epilogue, Leaves, Persistent, Failed
  <1>14. CASE Crash
    BY <1>14 DEF Crash
  <1>15. CASE Boot \/ RecoverSubdir \/ RecoverDir \/ MoveDir
    BY <1>15 DEF Boot, RecoverSubdir, Move, Drop, RecoverDir, MoveDir
  <1>16. CASE ReadEntries \/ RecoverHeaps \/ DiskScan \/ UNCHANGED vars
    BY <1>16 DEF ReadEntries, RecoverHeaps, Move, Drop, DiskScan, vars
  <1> HIDE DEF Shape, FilesType, MemoryType, FlagType, CountType, Control,
               Unfinished, Versions
  <1> QED BY <1>1, <1>2, <1>3, <1>4, <1>5, <1>6, <1>7, <1>8, <1>9, <1>10,
             <1>11, <1>12, <1>13, <1>14, <1>15, <1>16
     DEF Next

\* The versions stay within the bound and the status of a BAT is one of four.
LEMMA MemoryNext ==
    ASSUME Shape, [Next]_vars
    PROVE  MemoryType'
  <1> USE ContentAssumption, BoundsAssumption, BatsAssumption,
          SwitchAssumption
      DEF Shape, FilesType, MemoryType, FlagType, CountType
  <1>1. ASSUME NEW b \in Bats,
             Create(b)
       PROVE  MemoryType'
    BY <1>1 DEF Create, Free, NewVersion
  <1>2. ASSUME NEW b \in Bats,
             Update(b)
       PROVE  MemoryType'
    BY <1>2 DEF Update, Free, NewVersion, InUse, Persistent
  <1>3. ASSUME NEW b \in Bats,
             Delete(b)
       PROVE  MemoryType'
    BY <1>3 DEF Delete, Free, Drop, Forget
  <1>4. ASSUME NEW b \in Bats,
             Undelete(b) \/ Load(b) \/ Unload(b) \/ SwapOut(b)
       PROVE  MemoryType'
    BY <1>4 DEF Undelete, Free, Load, InUse, Persistent, Trimmable, Unload,
                SwapOut, MarkSwapped
  <1>5. CASE SwapMove \/ SwapWrite \/ SwapWritten
    BY <1>5 DEF SwapMove, Move, Drop, SwapWrite, SwapWritten
  <1>6. CASE SwapPrepare \/ Sync \/ Renew \/ PrepareBoot
    BY <1>6 DEF SwapPrepare, Sync, Renew, PrepareBoot
  <1>7. ASSUME NEW s \in BOOLEAN, NEW S \in SUBSET Bats,
             Begin(s, S)
       PROVE  MemoryType'
    BY <1>7 DEF Begin, EndsDelta
  <1>8. ASSUME NEW b \in Bats,
             Backup(b) \/ Save(b)
       PROVE  MemoryType'
    BY <1>8 DEF Backup, Returned, FromBak, FromBat, BackupFails, BackupTo,
                Counts, Move, Drop, Save
  <1>9. CASE BackedUp \/ Saved
    BY <1>9 DEF BackedUp, Saved
  <1>10. CASE OpenDir \/ WriteDir \/ ReuseDir
    BY <1>10 DEF OpenDir, WriteDir, NewDir, OldDir, Entry, ReuseDir
  <1>11. CASE Switch \/ SwitchAgain
    BY <1>11 DEF Switch, Rename, RenameWorks, SwitchAgain
  <1>12. CASE Reset \/ RemoveDel
    BY <1>12 DEF Reset, ResetCounters, RemoveDel
  <1>13. CASE Lock \/ Epilogue \/ Failed
    BY <1>13 DEF Lock, Epilogue, Leaves, Persistent, Failed
  <1>14. CASE Crash
    BY <1>14 DEF Crash
  <1>15. CASE Boot \/ RecoverSubdir \/ RecoverDir \/ MoveDir
    BY <1>15 DEF Boot, RecoverSubdir, Move, Drop, RecoverDir, MoveDir
  <1>16. CASE ReadEntries \/ RecoverHeaps \/ DiskScan \/ UNCHANGED vars
    BY <1>16 DEF ReadEntries, RecoverHeaps, Move, Drop, DiskScan, vars
  <1> HIDE DEF Shape, FilesType, MemoryType, FlagType, CountType
  <1> QED BY <1>1, <1>2, <1>3, <1>4, <1>5, <1>6, <1>7, <1>8, <1>9, <1>10,
             <1>11, <1>12, <1>13, <1>14, <1>15, <1>16
     DEF Next

\* The flags and the directories are there or not.
LEMMA FlagNext ==
    ASSUME Shape, [Next]_vars
    PROVE  FlagType'
  <1> USE ContentAssumption, BoundsAssumption, BatsAssumption,
          SwitchAssumption
      DEF Shape, FilesType, MemoryType, FlagType, CountType, Unfinished
  <1>1. ASSUME NEW b \in Bats,
             Create(b)
       PROVE  FlagType'
    BY <1>1 DEF Create, Free, NewVersion
  <1>2. ASSUME NEW b \in Bats,
             Update(b)
       PROVE  FlagType'
    BY <1>2 DEF Update, Free, NewVersion, InUse, Persistent
  <1>3. ASSUME NEW b \in Bats,
             Delete(b)
       PROVE  FlagType'
    BY <1>3 DEF Delete, Free, Drop, Forget
  <1>4. ASSUME NEW b \in Bats,
             Undelete(b) \/ Load(b) \/ Unload(b) \/ SwapOut(b)
       PROVE  FlagType'
    BY <1>4 DEF Undelete, Free, Load, InUse, Persistent, Trimmable, Unload,
                SwapOut, MarkSwapped
  <1>5. CASE SwapMove \/ SwapWrite \/ SwapWritten
    BY <1>5 DEF SwapMove, Move, Drop, SwapWrite, SwapWritten
  <1>6. CASE SwapPrepare \/ Sync \/ Renew \/ PrepareBoot
    BY <1>6, PrepareStep DEF SwapPrepare, Sync, Renew, PrepareBoot, Prepare, PrepareFails
  <1>7. ASSUME NEW s \in BOOLEAN, NEW S \in SUBSET Bats,
             Begin(s, S)
       PROVE  FlagType'
    BY <1>7 DEF Begin, EndsDelta
  <1>8. ASSUME NEW b \in Bats,
             Backup(b) \/ Save(b)
       PROVE  FlagType'
    BY <1>8 DEF Backup, Returned, FromBak, FromBat, BackupFails, BackupTo,
                Counts, Move, Drop, Save
  <1>9. CASE BackedUp \/ Saved
    BY <1>9 DEF BackedUp, Saved
  <1>10. CASE OpenDir \/ WriteDir \/ ReuseDir
    BY <1>10 DEF OpenDir, WriteDir, NewDir, OldDir, Entry, ReuseDir
  <1>11. CASE Switch \/ SwitchAgain
    BY <1>11 DEF Switch, Rename, RenameWorks, SwitchAgain
  <1>12. CASE Reset \/ RemoveDel
    BY <1>12 DEF Reset, ResetCounters, RemoveDel
  <1>13. CASE Lock \/ Epilogue \/ Failed
    BY <1>13 DEF Lock, Epilogue, Leaves, Persistent, Failed
  <1>14. CASE Crash
    BY <1>14 DEF Crash
  <1>15. CASE Boot \/ RecoverSubdir \/ RecoverDir \/ MoveDir
    BY <1>15 DEF Boot, RecoverSubdir, Move, Drop, RecoverDir, MoveDir
  <1>16. CASE ReadEntries \/ RecoverHeaps \/ DiskScan \/ UNCHANGED vars
    BY <1>16 DEF ReadEntries, RecoverHeaps, Move, Drop, DiskScan, vars
  <1> HIDE DEF Shape, FilesType, MemoryType, FlagType, CountType, Unfinished
  <1> QED BY <1>1, <1>2, <1>3, <1>4, <1>5, <1>6, <1>7, <1>8, <1>9, <1>10,
             <1>11, <1>12, <1>13, <1>14, <1>15, <1>16
     DEF Next

\* The counters of the backups never become negative.
LEMMA CountNext ==
    ASSUME Shape, [Next]_vars
    PROVE  CountType'
  <1> USE ContentAssumption, BoundsAssumption, BatsAssumption,
          SwitchAssumption
      DEF Shape, FilesType, MemoryType, FlagType, CountType, Control,
          Unfinished, Versions
  <1>1. ASSUME NEW b \in Bats,
             Create(b)
       PROVE  CountType'
    BY <1>1 DEF Create, Free, NewVersion
  <1>2. ASSUME NEW b \in Bats,
             Update(b)
       PROVE  CountType'
    BY <1>2 DEF Update, Free, NewVersion, InUse, Persistent
  <1>3. ASSUME NEW b \in Bats,
             Delete(b)
       PROVE  CountType'
    BY <1>3 DEF Delete, Free, Drop, Forget
  <1>4. ASSUME NEW b \in Bats,
             Undelete(b) \/ Load(b) \/ Unload(b) \/ SwapOut(b)
       PROVE  CountType'
    BY <1>4 DEF Undelete, Free, Load, InUse, Persistent, Trimmable, Unload,
                SwapOut, MarkSwapped
  <1>5. CASE SwapMove \/ SwapWrite \/ SwapWritten
    BY <1>5 DEF SwapMove, Move, Drop, SwapWrite, SwapWritten
  <1>6. ASSUME NEW s \in BOOLEAN, NEW S \in SUBSET Bats,
             Begin(s, S)
       PROVE  CountType'
    BY <1>6 DEF Begin, EndsDelta
  <1>7. ASSUME NEW b \in Bats,
             Backup(b) \/ Save(b)
       PROVE  CountType'
    BY <1>7 DEF Backup, Returned, FromBak, FromBat, BackupFails, BackupTo,
                Counts, Move, Drop, Save
  <1>8. CASE BackedUp \/ Saved
    BY <1>8 DEF BackedUp, Saved
  <1>9. CASE OpenDir \/ WriteDir \/ ReuseDir
    BY <1>9 DEF OpenDir, WriteDir, NewDir, OldDir, Entry, ReuseDir
  <1>10. CASE Switch \/ SwitchAgain
    BY <1>10 DEF Switch, Rename, RenameWorks, SwitchAgain
  <1>11. CASE Reset \/ RemoveDel
    BY <1>11 DEF Reset, ResetCounters, RemoveDel
  <1>12. CASE Lock \/ Epilogue \/ Failed
    BY <1>12 DEF Lock, Epilogue, Leaves, Persistent, Failed
  <1>13. CASE Crash
    BY <1>13 DEF Crash
  <1>14. CASE Boot \/ RecoverSubdir \/ RecoverDir \/ MoveDir
    BY <1>14 DEF Boot, RecoverSubdir, Move, Drop, RecoverDir, MoveDir
  <1>15. CASE ReadEntries \/ RecoverHeaps \/ DiskScan \/ UNCHANGED vars
    BY <1>15 DEF ReadEntries, RecoverHeaps, Move, Drop, DiskScan, vars
  <1>16. CASE SwapPrepare
    <2>1. backupDir' \in 0..2
      BY <1>16, PrepareStep
    <2>2. backupFiles' \in Nat /\ backupSubdir' \in Nat
      <3>1. Prepare(FALSE) => backupFiles' \in Nat /\ backupSubdir' \in Nat
        BY DEF Prepare
      <3>2. PrepareFails(FALSE) => backupFiles' \in Nat /\ backupSubdir' \in Nat
        BY DEF PrepareFails
      <3> QED BY <1>16, <3>1, <3>2 DEF SwapPrepare
    <2> QED BY <1>16, <2>1, <2>2 DEF SwapPrepare
  <1>17. CASE Sync
    BY <1>17, PrepareStep DEF Sync, Prepare, PrepareFails
  <1>18. CASE Renew
    BY <1>18, PrepareStep DEF Renew
  <1>19. CASE PrepareBoot
    <2>1. backupDir' \in 0..2
      BY <1>19, PrepareStep
    <2>2. backupFiles' \in Nat /\ backupSubdir' \in Nat
      BY <1>19 DEF PrepareBoot, Prepare
    <2> QED BY <1>19, <2>1, <2>2 DEF PrepareBoot
  <1> HIDE DEF Shape, FilesType, MemoryType, FlagType, CountType, Control,
               Unfinished, Versions
  <1> QED BY <1>1, <1>2, <1>3, <1>4, <1>5, <1>6, <1>7, <1>8, <1>9, <1>10,
             <1>11, <1>12, <1>13, <1>14, <1>15, <1>16, <1>17, <1>18, <1>19
     DEF Next

\* backup_subdir is counted in backup_files, so the reset can subtract it.
LEMMA ControlNext ==
    ASSUME Shape, [Next]_vars
    PROVE  Control'
  <1> USE ContentAssumption, BoundsAssumption, BatsAssumption,
          SwitchAssumption
      DEF Shape, FilesType, MemoryType, FlagType, CountType, Control,
          Versions
  <1>1. ASSUME NEW b \in Bats,
             Create(b)
       PROVE  Control'
    BY <1>1 DEF Create, Free, NewVersion
  <1>2. ASSUME NEW b \in Bats,
             Update(b)
       PROVE  Control'
    BY <1>2 DEF Update, Free, NewVersion, InUse, Persistent
  <1>3. ASSUME NEW b \in Bats,
             Delete(b)
       PROVE  Control'
    BY <1>3 DEF Delete, Free, Drop, Forget
  <1>4. ASSUME NEW b \in Bats,
             Undelete(b) \/ Load(b) \/ Unload(b) \/ SwapOut(b)
       PROVE  Control'
    BY <1>4 DEF Undelete, Free, Load, InUse, Persistent, Trimmable, Unload,
                SwapOut, MarkSwapped
  <1>5. CASE SwapMove \/ SwapWrite \/ SwapWritten
    BY <1>5 DEF SwapMove, Move, Drop, SwapWrite, SwapWritten
  <1>6. ASSUME NEW s \in BOOLEAN, NEW S \in SUBSET Bats,
             Begin(s, S)
       PROVE  Control'
    BY <1>6 DEF Begin, EndsDelta
  <1>7. ASSUME NEW b \in Bats,
             Backup(b) \/ Save(b)
       PROVE  Control'
    BY <1>7 DEF Backup, Returned, FromBak, FromBat, BackupFails, BackupTo,
                Counts, Move, Drop, Save
  <1>8. CASE BackedUp \/ Saved
    BY <1>8 DEF BackedUp, Saved
  <1>9. CASE OpenDir \/ WriteDir \/ ReuseDir
    BY <1>9 DEF OpenDir, WriteDir, NewDir, OldDir, Entry, ReuseDir
  <1>10. CASE Switch \/ SwitchAgain
    BY <1>10 DEF Switch, Rename, RenameWorks, SwitchAgain
  <1>11. CASE Reset \/ RemoveDel
    BY <1>11 DEF Reset, ResetCounters, RemoveDel
  <1>12. CASE Lock \/ Epilogue \/ Failed
    BY <1>12 DEF Lock, Epilogue, Leaves, Persistent, Failed
  <1>13. CASE Crash
    BY <1>13 DEF Crash
  <1>14. CASE Boot \/ RecoverSubdir \/ RecoverDir \/ MoveDir
    BY <1>14 DEF Boot, RecoverSubdir, Move, Drop, RecoverDir, MoveDir
  <1>15. CASE ReadEntries \/ RecoverHeaps \/ DiskScan \/ UNCHANGED vars
    BY <1>15 DEF ReadEntries, RecoverHeaps, Move, Drop, DiskScan, vars
  <1>16. CASE SwapPrepare
    BY <1>16 DEF SwapPrepare, Prepare, PrepareFails, PrepareDisk,
                 PrepareWorks, PrepareFrom, PrepareTo, PrepareSource,
                 MakesBak, StartsSub, MakesSub, Target
  <1>17. CASE Sync
    BY <1>17 DEF Sync, Prepare, PrepareFails, PrepareDisk, PrepareWorks,
                 PrepareFrom, PrepareTo, PrepareSource, MakesBak,
                 StartsSub, MakesSub, Target
  <1>18. CASE Renew
    BY <1>18 DEF Renew, Prepare, PrepareFails, PrepareDisk, PrepareWorks,
                 PrepareFrom, PrepareTo, PrepareSource, MakesBak,
                 StartsSub, MakesSub, Target
  <1>19. CASE PrepareBoot
    BY <1>19 DEF PrepareBoot, Prepare, PrepareFails, PrepareDisk,
                 PrepareWorks, PrepareFrom, PrepareTo, PrepareSource,
                 MakesBak, StartsSub, MakesSub, Target
  <1> HIDE DEF Shape, FilesType, MemoryType, FlagType, CountType, Control,
               Versions
  <1> QED BY <1>1, <1>2, <1>3, <1>4, <1>5, <1>6, <1>7, <1>8, <1>9, <1>10,
             <1>11, <1>12, <1>13, <1>14, <1>15, <1>16, <1>17, <1>18, <1>19
     DEF Next

\* While BBP.dir is half written, backup_dir says that the good one is elsewhere.
LEMMA UnfinishedNext ==
    ASSUME Shape, Kept, [Next]_vars
    PROVE  Unfinished'
  <1> USE ContentAssumption, BoundsAssumption, BatsAssumption,
          SwitchAssumption
      DEF Shape, FilesType, MemoryType, FlagType, CountType, Control,
          Unfinished, Versions, Kept
  <1>1. ASSUME NEW b \in Bats,
             Create(b)
       PROVE  Unfinished'
    BY <1>1 DEF Create, Free, NewVersion
  <1>2. ASSUME NEW b \in Bats,
             Update(b)
       PROVE  Unfinished'
    BY <1>2 DEF Update, Free, NewVersion, InUse, Persistent
  <1>3. ASSUME NEW b \in Bats,
             Delete(b)
       PROVE  Unfinished'
    BY <1>3 DEF Delete, Free, Drop, Forget
  <1>4. ASSUME NEW b \in Bats,
             Undelete(b) \/ Load(b) \/ Unload(b) \/ SwapOut(b)
       PROVE  Unfinished'
    BY <1>4 DEF Undelete, Free, Load, InUse, Persistent, Trimmable, Unload,
                SwapOut, MarkSwapped
  <1>5. CASE SwapMove \/ SwapWrite \/ SwapWritten
    BY <1>5 DEF SwapMove, Move, Drop, SwapWrite, SwapWritten
  <1>6. ASSUME NEW s \in BOOLEAN, NEW S \in SUBSET Bats,
             Begin(s, S)
       PROVE  Unfinished'
    BY <1>6 DEF Begin, EndsDelta
  <1>7. ASSUME NEW b \in Bats,
             Backup(b) \/ Save(b)
       PROVE  Unfinished'
    BY <1>7 DEF Backup, Returned, FromBak, FromBat, BackupFails, BackupTo,
                Counts, Move, Drop, Save
  <1>8. CASE BackedUp \/ Saved
    BY <1>8 DEF BackedUp, Saved
  <1>9. CASE OpenDir \/ WriteDir \/ ReuseDir
    BY <1>9 DEF OpenDir, WriteDir, NewDir, OldDir, Entry, ReuseDir
  <1>10. CASE Switch \/ SwitchAgain
    BY <1>10 DEF Switch, Rename, RenameWorks, SwitchAgain
  <1>11. CASE Reset \/ RemoveDel
    BY <1>11 DEF Reset, ResetCounters, RemoveDel
  <1>12. CASE Lock \/ Epilogue \/ Failed
    BY <1>12 DEF Lock, Epilogue, Leaves, Persistent, Failed
  <1>13. CASE Crash
    BY <1>13 DEF Crash
  <1>14. CASE Boot \/ RecoverSubdir \/ RecoverDir \/ MoveDir
    BY <1>14 DEF Boot, RecoverSubdir, Move, Drop, RecoverDir, MoveDir
  <1>15. CASE ReadEntries \/ RecoverHeaps \/ DiskScan \/ UNCHANGED vars
    BY <1>15 DEF ReadEntries, RecoverHeaps, Move, Drop, DiskScan, vars
  <1>16. CASE SwapPrepare
    BY <1>16 DEF SwapPrepare, Prepare, PrepareFails, PrepareDisk,
                 PrepareWorks, PrepareFrom, PrepareTo, PrepareSource,
                 MakesBak, StartsSub, MakesSub, Target
  <1>17. CASE Sync
    BY <1>17 DEF Sync, Prepare, PrepareFails, PrepareDisk, PrepareWorks,
                 PrepareFrom, PrepareTo, PrepareSource, MakesBak,
                 StartsSub, MakesSub, Target
  <1>18. CASE Renew
    BY <1>18 DEF Renew, Prepare, PrepareFails, PrepareDisk, PrepareWorks,
                 PrepareFrom, PrepareTo, PrepareSource, MakesBak,
                 StartsSub, MakesSub, Target
  <1>19. CASE PrepareBoot
    BY <1>19 DEF PrepareBoot, Prepare, PrepareFails, PrepareDisk,
                 PrepareWorks, PrepareFrom, PrepareTo, PrepareSource,
                 MakesBak, StartsSub, MakesSub, Target
  <1> HIDE DEF Shape, FilesType, MemoryType, FlagType, CountType, Control,
               Unfinished, Versions, Kept
  <1> QED BY <1>1, <1>2, <1>3, <1>4, <1>5, <1>6, <1>7, <1>8, <1>9, <1>10,
             <1>11, <1>12, <1>13, <1>14, <1>15, <1>16, <1>17, <1>18, <1>19
     DEF Next

\* Only BATs that exist are written or swapped out.
LEMMA VersionsNext ==
    ASSUME Shape, [Next]_vars
    PROVE  Versions'
  <1> USE ContentAssumption, BoundsAssumption, BatsAssumption,
          SwitchAssumption
      DEF Shape, FilesType, MemoryType, FlagType, CountType, Versions,
          Persistent
  <1>1. ASSUME NEW b \in Bats,
             Create(b)
       PROVE  Versions'
    BY <1>1 DEF Create, Free, NewVersion
  <1>2. ASSUME NEW b \in Bats,
             Update(b)
       PROVE  Versions'
    BY <1>2 DEF Update, Free, NewVersion, InUse, Persistent
  <1>3. ASSUME NEW b \in Bats,
             Delete(b)
       PROVE  Versions'
    BY <1>3 DEF Delete, Free, Drop, Forget
  <1>4. ASSUME NEW b \in Bats,
             Undelete(b) \/ Load(b) \/ Unload(b) \/ SwapOut(b)
       PROVE  Versions'
    BY <1>4 DEF Undelete, Free, Load, InUse, Persistent, Trimmable, Unload,
                SwapOut, MarkSwapped
  <1>5. CASE SwapMove \/ SwapWrite \/ SwapWritten
    BY <1>5 DEF SwapMove, Move, Drop, SwapWrite, SwapWritten
  <1>6. CASE SwapPrepare \/ Sync \/ Renew \/ PrepareBoot
    BY <1>6 DEF SwapPrepare, Sync, Renew, PrepareBoot
  <1>7. ASSUME NEW s \in BOOLEAN, NEW S \in SUBSET Bats,
             Begin(s, S)
       PROVE  Versions'
    BY <1>7 DEF Begin, EndsDelta
  <1>8. ASSUME NEW b \in Bats,
             Backup(b) \/ Save(b)
       PROVE  Versions'
    BY <1>8 DEF Backup, Returned, FromBak, FromBat, BackupFails, BackupTo,
                Counts, Move, Drop, Save
  <1>9. CASE BackedUp \/ Saved
    BY <1>9 DEF BackedUp, Saved
  <1>10. CASE OpenDir \/ WriteDir \/ ReuseDir
    BY <1>10 DEF OpenDir, WriteDir, NewDir, OldDir, Entry, ReuseDir
  <1>11. CASE Switch \/ SwitchAgain
    BY <1>11 DEF Switch, Rename, RenameWorks, SwitchAgain
  <1>12. CASE Reset \/ RemoveDel
    BY <1>12 DEF Reset, ResetCounters, RemoveDel
  <1>13. CASE Lock \/ Epilogue \/ Failed
    BY <1>13 DEF Lock, Epilogue, Leaves, Persistent, Failed
  <1>14. CASE Crash
    BY <1>14 DEF Crash
  <1>15. CASE Boot \/ RecoverSubdir \/ RecoverDir \/ MoveDir
    BY <1>15 DEF Boot, RecoverSubdir, Move, Drop, RecoverDir, MoveDir
  <1>16. CASE ReadEntries \/ RecoverHeaps \/ DiskScan \/ UNCHANGED vars
    BY <1>16 DEF ReadEntries, RecoverHeaps, Move, Drop, DiskScan, vars
  <1> HIDE DEF Shape, FilesType, MemoryType, FlagType, CountType, Versions,
               Persistent
  <1> QED BY <1>1, <1>2, <1>3, <1>4, <1>5, <1>6, <1>7, <1>8, <1>9, <1>10,
             <1>11, <1>12, <1>13, <1>14, <1>15, <1>16
     DEF Next

\* BBPdir and BBPdir_subcommit write an entry for every BAT.
LEMMA NewDirType ==
    ASSUME Shape, sub => OldDir # NoFile
    PROVE  NewDir \in [Bats -> 0..MaxVersion]
  <1>1. sub => OldDir \in [Bats -> 0..MaxVersion]
    BY DEF Shape, FilesType, OldDir
  <1>2. \A b \in Bats : Entry(b) \in 0..MaxVersion
    BY BoundsAssumption DEF Shape, MemoryType, Entry
  <1> QED BY <1>1, <1>2 DEF NewDir

\* No step loses the last BBP.dir: one lemma for the three directories, with
\* backup_dir and BBP_dirty, since BBPprepare decides on them what to move.
LEMMA KeptNext ==
    ASSUME Shape, Kept, [Next]_vars
    PROVE  Kept'
  <1> USE ContentAssumption, BoundsAssumption, BatsAssumption,
          SwitchAssumption
      DEF Shape, Unfinished, FilesType, FlagType, CountType, Control,
          Versions, Kept, Located, DirKept, RecoveredDir, Overlay
  <1>1. ASSUME NEW b \in Bats,
             Create(b) \/ Update(b) \/ Delete(b) \/ Undelete(b) \/ Load(b)
               \/ Unload(b) \/ SwapOut(b)
       PROVE  Kept'
    BY <1>1 DEF Create, Free, NewVersion, Update, Delete, Drop, Undelete,
                Load, Unload, Trimmable, SwapOut, MarkSwapped
  <1>2. CASE SwapPrepare
    BY <1>2 DEF SwapPrepare, Prepare, PrepareFails, PrepareDisk,
                PrepareWorks, PrepareFrom, PrepareTo, PrepareSource,
                MakesBak, StartsSub, MakesSub, Target
  <1>3. CASE SwapMove \/ SwapWrite \/ SwapWritten
    BY <1>3 DEF SwapMove, Move, Drop, SwapWrite, SwapWritten
  <1>4. ASSUME NEW s \in BOOLEAN, NEW S \in SUBSET Bats,
             Begin(s, S)
       PROVE  Kept'
    BY <1>4 DEF Begin, EndsDelta
  <1>5. CASE Sync
    BY <1>5 DEF Sync, Prepare, PrepareFails, PrepareDisk, PrepareWorks,
                PrepareFrom, PrepareTo, PrepareSource, MakesBak,
                StartsSub, MakesSub, Target
  <1>6. ASSUME NEW b \in Bats,
             Backup(b) \/ Save(b)
       PROVE  Kept'
    BY <1>6 DEF Backup, Returned, FromBak, FromBat, BackupFails, BackupTo,
                Counts, Move, Drop, Save
  <1>7. CASE BackedUp \/ Saved
    BY <1>7 DEF BackedUp, Saved
  <1>8. CASE OpenDir \/ ReuseDir
    BY <1>8 DEF OpenDir, ReuseDir
  <1>9. CASE WriteDir
    <2>1. NewDir # NoFile
      <3>1. sub => OldDir # NoFile
        BY <1>9 DEF WriteDir
      <3>2. [Bats -> 0..MaxVersion] \subseteq [Bats -> Nat]
        OBVIOUS
      <3> QED BY <3>1, <3>2, NewDirType
    <2>2. pc' \in {"rename", "failed"} /\ batD' \in {batD, NewDir} /\ (pc' = "rename" => batD' = NewDir)
      BY <1>9 DEF WriteDir
    <2>3. DirKept'
      BY <1>9, <2>1, <2>2 DEF WriteDir
    <2> QED BY <1>9, <2>1, <2>2, <2>3 DEF WriteDir
  <1>10. CASE Switch
    BY <1>10 DEF Switch, Rename, RenameWorks
  <1>11. CASE SwitchAgain
    BY <1>11 DEF SwitchAgain, Rename, RenameWorks
  <1>12. CASE Lock \/ Reset \/ RemoveDel \/ Epilogue \/ Failed \/ Crash
    BY <1>12 DEF Lock, Reset, ResetCounters, RemoveDel, Epilogue, Failed, Crash
  <1>13. CASE Renew
    BY <1>13 DEF Renew, Prepare, PrepareFails, PrepareDisk, PrepareWorks,
                 PrepareFrom, PrepareTo, PrepareSource, MakesBak,
                 StartsSub, MakesSub, Target
  <1>14. CASE Boot \/ RecoverSubdir \/ RecoverDir \/ MoveDir
    BY <1>14 DEF Boot, RecoverSubdir, Move, Drop, RecoverDir, MoveDir
  <1>15. CASE ReadEntries \/ RecoverHeaps \/ DiskScan \/ UNCHANGED vars
    BY <1>15 DEF ReadEntries, RecoverHeaps, Move, Drop, DiskScan, vars
  <1>16. CASE PrepareBoot
    BY <1>16 DEF PrepareBoot, Prepare, PrepareFails, PrepareDisk,
                 PrepareWorks, PrepareFrom, PrepareTo, PrepareSource,
                 MakesBak, StartsSub, MakesSub, Target
  <1> HIDE DEF Shape, Unfinished, FilesType, FlagType, CountType, Control,
               Versions, Kept, Located, DirKept, RecoveredDir, Overlay
  <1> QED BY <1>1, <1>2, <1>3, <1>4, <1>5, <1>6, <1>7, <1>8, <1>9, <1>10,
             <1>11, <1>12, <1>13, <1>14, <1>15, <1>16
     DEF Next

----------------------------------------------------------------------------
\* A fresh database has a BBP.dir.
LEMMA InitKept == Init => Kept
  <1>1. Init => DirKept
    <2>1. [b \in Bats |-> 0] \in [Bats -> Nat]
      OBVIOUS
    <2> QED BY <2>1, ContentAssumption DEF Init, DirKept, RecoveredDir, Overlay
  <1> QED BY <1>1 DEF Init, Kept, Located

\* Both parts together are inductive.
LEMMA NextKept ==
    ASSUME Shape, Kept, [Next]_vars
    PROVE  Shape' /\ Kept'
  BY FilesNext, MemoryNext, FlagNext, CountNext, ControlNext, UnfinishedNext, VersionsNext, KeptNext
  DEF Shape

\* The invariant holds in every reachable state.
LEMMA Invariance == Spec => [](Shape /\ Kept)
  <1>1. Init => Shape /\ Kept
    BY InitShape, InitKept
  <1>2. Shape /\ Kept /\ [Next]_vars => Shape' /\ Kept'
    BY NextKept
  <1> QED BY <1>1, <1>2, PTL DEF Spec

\* The directories and the administration keep their shape: TypeOK holds for
\* any number of BATs, and whichever writes and removals fail.
THEOREM TypeCorrect == Spec => []TypeOK
  <1>1. Shape => TypeOK
    BY TypeParts DEF Shape
  <1> QED BY <1>1, Invariance, PTL

\* BBPsync and BBPrecover move BBP.dir between BATDIR, BAKDIR and SUBDIR, and
\* remove directories it may be in: one is left at every step, after failures
\* of every kind and after a commit that was done and reported as failed.
THEOREM DirSafety == Spec => []DirKept
  <1>1. Kept => DirKept
    BY DEF Kept
  <1> QED BY <1>1, Invariance, PTL
=============================================================================
