--------------------------- MODULE BBPsyncRetry ---------------------------
(***************************************************************************)
(* Commits of BBPsync that fail and are tried again.  Writes fail, DELDIR  *)
(* may stay, BBP.dir is reused when nothing changed, and the server goes   *)
(* on after a failure with the backups, the counters and the directories   *)
(* as the failed commit left them.                                         *)
(*                                                                         *)
(* A subcommit that fails leaves backups of its BATs in SUBDIR, which the  *)
(* next commit counts as its own.  This is sound only when that one is for *)
(* the same BATs, so the commits here are for all BATs (CommitsAll), which *)
(* is no restriction for TMcommit, nor for one BAT; and they are of one    *)
(* kind (OneKind).                                                         *)
(***************************************************************************)
EXTENDS BBPsyncProofs

\* No deleted BAT is in use, and the server does not go on after a commit
\* that was done and is reported as failed.
Steady == ~Referenced /\ ~AfterLate

\* The commits are of one kind: of all BATs, or subcommits.  A commit of all
\* BATs that fails leaves backups in BAKDIR of BATs that are not BBPSWAPPED,
\* which a subcommit may miss.  If they are subcommits, no change is made in
\* place, and BBPtrim keeps off what a subcommit lists.
Subcommits == TRUE \in Kinds
OneKind == Subcommits => FALSE \notin Kinds /\ ~InPlace /\ ~Trims

\* A commit or subcommit that begins is for all BATs.
CommitsAll == pc \in {"lock", "sync"} => list = Bats

\* The BBP.dir a restart reads is whole, and backup_dir is exact except between
\* the rename and the reset and in a restart.
Whole(d) == d \notin {NoFile, Torn}

DirPlaced ==
    /\ Whole(RecoveredDir)
    /\ pc \notin Booting \cup {"reset", "late"} =>
          /\ backupDir = 1 <=> bakD # NoFile
          /\ backupDir = 2 <=> subD # NoFile
    /\ pc \in {"phase1", "phase2", "writedir"} => backupDir = PrepareTo(sub)
    /\ pc = "rename" => backupDir = IF bbpd THEN PrepareTo(sub) ELSE 0
    /\ pc \in {"reset", "late"} => bakD = NoFile /\ subD = NoFile
    /\ pc \in {"remove", "renew"} => backupDir = 0
    /\ pc \in {"dir", "move", "read", "heaps", "prepare"} => subD = NoFile
    /\ pc \in {"read", "heaps", "prepare"} => bakD = NoFile
    /\ pc \in {"scan", "epilogue"} => backupDir = 1

\* The counters and the directories they stand for: while a counter is not 0
\* its directory is there, so that no commit makes one a second time.
Rooms ==
    /\ backupFiles = 0 => backupDir = 0
    /\ backupDir = 2 => backupSubdir > 0
    /\ pc \notin Booting /\ backupFiles > 0 => bakThere \/ (pc \in {"reset", "late"} /\ ~sub)
    /\ backupSubdir > 0 => subThere \/ pc \in {"reset", "late"}
    /\ pc \in Syncing /\ sub => backupSubdir > 0
    /\ pc \in Syncing => backupFiles > 0
    /\ pc = "epilogue" => backupSubdir = 0
    /\ pc # "idle" /\ Up => list = Bats

\* A BAT whose checkpoint is its state in memory.
Settled(b) ==
    /\ RecoveredDir[b] = Entry(b) /\ (Persistent(b) => ~dirty[b])
    /\ bakF[b] = NoFile /\ subF[b] = NoFile

\* A backup is the heap of the checkpoint, also one that an earlier commit
\* left, and it is in the directory backup_dir names; a heap without one is in
\* BATDIR.
BackupOf(b) ==
    /\ bakF[b] # NoFile => bakF[b] = RecoveredDir[b]
    /\ subF[b] # NoFile => subF[b] = RecoveredDir[b] /\ bakF[b] = NoFile
    /\ RecoveredDir[b] # 0 /\ bakF[b] = NoFile /\ subF[b] = NoFile => batF[b] = RecoveredDir[b]
    /\ subF[b] # NoFile => pc \in {"boot", "subdir"} \/ (backupDir = 2 /\ backupSubdir > 0)
    /\ bakF[b] # NoFile => pc \in Booting \/ backupDir = 1 \/ (pc = "phase1" /\ sub)
    /\ bakF[b] # NoFile => backupFiles > 0 \/ pc \in Booting
    /\ pc \in {"prepare", "scan"} => bakF[b] = NoFile

Backups == \A b \in Bats : BackupOf(b)

\* The status of a BAT says whether the checkpoint has it.  A BAT that differs
\* from the checkpoint has set BBP_dirty or needs an OID, so that the next
\* commit writes BBP.dir and does not reuse the old one.
MemoryOf(b) ==
    /\ Running => \/ status[b] \in {"EXISTING", "DELETED"} <=> RecoveredDir[b] # 0
                  \/ pc \in Committed \cup {"late"}
    /\ Up \/ pc \in {"prepare", "scan"} => (status[b] # "none" /\ ~dirty[b] => batF[b] = cur[b])
    /\ pc \in Booting \cup {"scan"} => ~dirty[b] /\ ~unaligned[b]
    /\ pc \in {"heaps", "prepare", "scan"} =>
          cur[b] = RecoveredDir[b] /\ status[b] \in {"none", "EXISTING"}
    /\ pc \in Committed => Settled(b)
    /\ Up => Settled(b) \/ bbpDirty \/ oidDirty \/ (unaligned[b] /\ Persistent(b))
    /\ pc \in {"lock", "sync"} \cup Syncing => ~(unaligned[b] /\ Persistent(b))
    /\ pc \in Syncing /\ ~bbpd => Settled(b)
    /\ status[b] = "none" => ~dirty[b]
    /\ dirty[b] => loaded[b]
    /\ unaligned[b] => dirty[b] \/ status[b] = "none"

InMemory == \A b \in Bats : MemoryOf(b)

\* BBPsave works on a dirty BAT between the commits, and writes only over a
\* heap that is not in the checkpoint or has a backup.
Swapping ==
    spc # "none" =>
      /\ sbat \in Bats /\ pc = "idle"
      /\ dirty[sbat] /\ Persistent(sbat)
      /\ spc \in {"prepare", "move"} => status[sbat] = "EXISTING"
      /\ spc = "move" => backupDir = 1 /\ backupFiles > 0
      /\ spc \in {"write", "written"} => RecoveredDir[sbat] = 0 \/ bakF[sbat] # NoFile

\* With subcommits, a BAT that has a backup in BAKDIR is BBPSWAPPED.  A failed
\* subcommit leaves BATs dirty without a delta, but also BBP.dir in SUBDIR, with
\* which they cannot be swapped out.
Marked(b) ==
    /\ Up /\ bakF[b] # NoFile => swapped[b]
    /\ pc \in {"idle", "failed"} /\ dirty[b] => delta[b] \/ swapped[b] \/ backupDir = 2
    /\ spc \in {"prepare", "move"} /\ sbat = b => swapped[b] \/ backupDir = 2

Marks ==
    /\ pc # "idle" /\ Up => sub \in Kinds
    /\ Subcommits => \A b \in Bats : Marked(b)

\* What phase 1 does for a BAT: phase 2 may write its heap, and a subcommit
\* leaves nothing of it in BAKDIR.
Saveable(b) ==
    /\ status[b] = "EXISTING" /\ dirty[b] => (IF sub THEN subF[b] ELSE bakF[b]) # NoFile
    /\ sub => bakF[b] = NoFile

\* The two phases, the BBP.dir they write, and the checkpoint the commit found,
\* which is the one on disk until the rename.
Phases ==
    /\ pc = "phase1" => \A b \in list \ left : Saveable(b)
    /\ pc = "phase2" =>
          /\ \A b \in list : Saveable(b)
          /\ \A b \in left : Persistent(b) /\ dirty[b] /\ b # saving
          /\ \A b \in list : Persistent(b) /\ dirty[b] => b \in left \/ b = saving
    /\ saving # 0 => pc = "phase2" /\ saving \in list /\ Persistent(saving) /\ dirty[saving]
    /\ pc \in {"writedir", "rename"} =>
          \A b \in list : (sub => bakF[b] = NoFile) /\ (Persistent(b) => ~dirty[b])
    /\ pc = "rename" => Whole(batD) /\ \A b \in Bats : batD[b] = Entry(b)
    /\ pc \in {"lock", "sync", "failed"} \cup Syncing => before = RecoveredDir

IInv == /\ Shape /\ Kept
        /\ DirPlaced /\ Rooms
        /\ Backups /\ InMemory /\ Swapping /\ Marks /\ Phases

USE DEF Heaps, Dirs, Up, Booting, Syncing, Committed, Places,
        diskF, diskD, dirs, memory, flags, backup, commit, swap, Steady

----------------------------------------------------------------------------
\* The first start of a database.
LEMMA InitIInv == Init => IInv
  <1> SUFFICES ASSUME Init PROVE IInv
    OBVIOUS
  <1>1. Shape /\ Kept
    BY InitShape, InitKept
  <1>2. DirPlaced
    <2>1. [b \in Bats |-> 0] \in [Bats -> Nat]
      OBVIOUS
    <2> QED BY <2>1, ContentAssumption DEF Init, DirPlaced, Whole, RecoveredDir, Overlay
  <1>3. Rooms /\ Swapping /\ Marks /\ Phases
    BY DEF Init, Rooms, Swapping, Marks, Marked, Phases
  <1>4. Backups
    BY ContentAssumption DEF Init, Backups, BackupOf, RecoveredDir, Overlay
  <1>5. InMemory
    BY DEF Init, InMemory, MemoryOf, Running
  <1> QED BY <1>1, <1>2, <1>3, <1>4, <1>5 DEF IInv

\* What a restart finds is the checkpoint: the heaps fit their entries.
LEMMA RestartFinds ==
    IInv => RecoveredDir \in [Bats -> 0..MaxVersion] /\ Recovered = RecoveredDir
  <1> SUFFICES ASSUME IInv
               PROVE  RecoveredDir \in [Bats -> 0..MaxVersion] /\ Recovered = RecoveredDir
    OBVIOUS
  <1>1. RecoveredDir \in [Bats -> 0..MaxVersion]
    BY DEF IInv, Shape, FilesType, DirPlaced, Whole, RecoveredDir, Overlay
  <1>2. ASSUME NEW b \in Bats, RecoveredDir[b] # 0
        PROVE  RecoveredFile(b) = RecoveredDir[b]
    BY <1>2 DEF IInv, Backups, BackupOf, RecoveredFile, Overlay
  <1>3. RecoveredDir \notin {NoFile, Torn}
    BY DEF IInv, DirPlaced, Whole
  <1> QED BY <1>1, <1>2, <1>3 DEF Recovered

\* The rename, at the first or the second attempt: BBP.dir is the new one and
\* no backup is left.
LEMMA RenameLeaves ==
    ASSUME IInv, pc = "rename", Rename, UNCHANGED batD
    PROVE  /\ RecoveredDir' = batD /\ bakD' = NoFile /\ subD' = NoFile
           /\ \A b \in Bats : bakF'[b] = NoFile /\ subF'[b] = NoFile
           /\ sub /\ bakThere => bakThere'
  <1> USE DEF IInv, Shape, FlagType, CountType
  <1>1. bakD' = NoFile /\ subD' = NoFile
    <2>1. CASE sub
      <3>1. backupDir # 1
        BY <2>1 DEF DirPlaced, PrepareTo
      <3> QED BY <2>1, <3>1 DEF Rename, DirPlaced
    <2>2. CASE ~sub
      BY <2>2 DEF Rename
    <2> QED BY <2>1, <2>2
  <1>2. \A b \in Bats : bakF'[b] = NoFile /\ subF'[b] = NoFile
    <2>1. CASE sub
      BY <2>1 DEF Rename, Phases, Rooms
    <2>2. CASE ~sub
      BY <2>2 DEF Rename
    <2> QED BY <2>1, <2>2
  <1>3. sub /\ bakThere => bakThere'
    BY DEF Rename
  <1> QED BY <1>1, <1>2, <1>3 DEF RecoveredDir, Overlay

\* The directory to rename is there, so a failure is an old DELDIR that stays.
LEMMA AgainSteps ==
    ASSUME IInv, SwitchAgain
    PROVE  /\ pc = "rename" /\ UNCHANGED batD
           /\ \/ pc' = "late" /\ Rename
              \/ pc' = "failed" /\ UNCHANGED <<diskF, diskD, dirs>>
  <1>1. IF sub THEN subThere ELSE bakThere
    BY DEF IInv, Shape, CountType, Rooms, SwitchAgain
  <1> QED BY <1>1 DEF SwitchAgain

\* BBPprepare, whether it works or not: the directories it makes.
LEMMA RoomsMade ==
    ASSUME NEW s \in BOOLEAN, PrepareDisk(s)
    PROVE  /\ bakThere' <=> bakThere \/ backupFiles = 0
           /\ subThere' <=> subThere \/ MakesSub(s)
           /\ backupDir' \in {PrepareFrom, PrepareTo(s)}
  BY DEF PrepareDisk, MakesBak

\* backup_dir follows BBP.dir also through a commit that fails.
LEMMA DirPlacedNext ==
    ASSUME Steady, IInv, CommitsAll, CommitsAll', [Next]_vars
    PROVE  DirPlaced'
  <1> USE ContentAssumption, BoundsAssumption, BatsAssumption,
          SwitchAssumption
      DEF IInv, Shape, FilesType, MemoryType, FlagType, CountType,
          Control, Unfinished, Versions, RecoveredDir, Overlay, Whole,
          PrepareTo, CommitsAll, Kept, DirKept, Rooms, DirPlaced,
          Backups, BackupOf, InMemory, MemoryOf, Swapping, Phases,
          Settled, Entry, Persistent, Running, Saveable
  <1>1. ASSUME NEW b \in Bats,
             Create(b) \/ Update(b) \/ Delete(b) \/ Undelete(b) \/ Load(b)
               \/ Unload(b) \/ SwapOut(b)
       PROVE  DirPlaced'
    BY <1>1 DEF Create, Free, NewVersion, InUse, Update, Forget, Delete, Drop,
                Undelete, Load, Unload, Trimmable, SwapOut, MarkSwapped
  <1>2. CASE SwapPrepare
    BY <1>2 DEF SwapPrepare, Prepare, PrepareFails, PrepareDisk,
                PrepareWorks, PrepareFrom, PrepareSource, MakesBak,
                StartsSub, MakesSub, Target
  <1>3. CASE SwapMove \/ SwapWrite \/ SwapWritten
    BY <1>3 DEF SwapMove, Move, Drop, SwapWrite, SwapWritten
  <1>4. ASSUME NEW s \in BOOLEAN, NEW S \in SUBSET Bats,
             Begin(s, S)
       PROVE  DirPlaced'
    BY <1>4 DEF Begin, EndsDelta
  <1>5. CASE Sync
    BY <1>5 DEF Sync, Prepare, PrepareFails, PrepareDisk, PrepareWorks,
                PrepareFrom, PrepareSource, MakesBak, StartsSub, MakesSub,
                Target
  <1>6. ASSUME NEW b \in Bats,
             Backup(b) \/ Save(b)
       PROVE  DirPlaced'
    BY <1>6 DEF Backup, Returned, FromBak, FromBat, BackupFails, BackupTo,
                Counts, Move, Drop, Save
  <1>7. CASE BackedUp \/ Saved
    BY <1>7 DEF BackedUp, Saved
  <1>8. CASE OpenDir \/ WriteDir \/ ReuseDir
    BY <1>8 DEF OpenDir, WriteDir, NewDir, OldDir, ReuseDir
  <1>9. CASE Switch
    <2>1. /\ RecoveredDir' = batD /\ bakD' = NoFile /\ subD' = NoFile
          /\ \A b \in Bats : bakF'[b] = NoFile /\ subF'[b] = NoFile
          /\ sub /\ bakThere => bakThere'
      BY <1>9, RenameLeaves DEF Switch
    <2> QED BY <1>9, <2>1 DEF Switch
  <1>10. CASE SwitchAgain
    <2>1. CASE pc' = "late"
      <3>1. /\ RecoveredDir' = batD /\ bakD' = NoFile /\ subD' = NoFile
            /\ \A b \in Bats : bakF'[b] = NoFile /\ subF'[b] = NoFile
            /\ sub /\ bakThere => bakThere'
        BY <1>10, <2>1, AgainSteps, RenameLeaves
      <3> QED BY <1>10, <2>1, <3>1 DEF SwitchAgain
    <2>2. CASE pc' = "failed"
      <3>1. UNCHANGED <<diskF, diskD, dirs>> /\ pc = "rename"
        BY <1>10, <2>2, AgainSteps
      <3>2. RecoveredDir' = RecoveredDir
        BY <3>1 DEF RecoveredDir, Overlay
      <3>3. UNCHANGED <<memory, flags, backup, commit, swap, fails>>
        BY <1>10 DEF SwitchAgain
      <3> HIDE DEF RecoveredDir
      <3> QED BY <2>2, <3>1, <3>2, <3>3
    <2> QED BY <1>10, <2>1, <2>2 DEF SwitchAgain
  <1>11. CASE Reset \/ RemoveDel
    BY <1>11 DEF Reset, ResetCounters, RemoveDel
  <1>12. CASE Renew
    BY <1>12 DEF Renew, Prepare, PrepareFails, PrepareDisk, PrepareWorks,
                 PrepareFrom, PrepareSource, MakesBak, StartsSub,
                 MakesSub, Target
  <1>13. CASE Lock \/ Epilogue \/ Failed \/ Crash
    BY <1>13 DEF Lock, Epilogue, Leaves, Failed, Crash
  <1>14. CASE Boot \/ RecoverSubdir
    BY <1>14 DEF Boot, RecoverSubdir, Move, Drop
  <1>15. CASE RecoverDir \/ MoveDir \/ ReadEntries
    BY <1>15 DEF RecoverDir, MoveDir, ReadEntries
  <1>16. CASE RecoverHeaps
    BY <1>16 DEF RecoverHeaps, Move, Drop
  <1>17. CASE PrepareBoot
    BY <1>17 DEF PrepareBoot, Prepare, PrepareFails, PrepareDisk,
                 PrepareWorks, PrepareFrom, PrepareSource, MakesBak,
                 StartsSub, MakesSub, Target
  <1>18. CASE DiskScan \/ UNCHANGED vars
    BY <1>18 DEF DiskScan, vars
  <1> HIDE DEF IInv, Shape, FilesType, MemoryType, FlagType, CountType,
               Control, Unfinished, Versions, RecoveredDir, Overlay, Whole,
               PrepareTo, CommitsAll, Kept, DirKept, Rooms, DirPlaced,
               Backups, BackupOf, InMemory, MemoryOf, Swapping, Phases,
               Settled, Entry, Persistent, Running, Saveable
  <1> QED BY <1>1, <1>2, <1>3, <1>4, <1>5, <1>6, <1>7, <1>8, <1>9, <1>10,
             <1>11, <1>12, <1>13, <1>14, <1>15, <1>16, <1>17, <1>18
     DEF Next

\* The counters that a failed commit leaves stand for directories that are there.
LEMMA RoomsNext ==
    ASSUME Steady, IInv, CommitsAll, CommitsAll', [Next]_vars
    PROVE  Rooms'
  <1> USE ContentAssumption, BoundsAssumption, BatsAssumption,
          SwitchAssumption
      DEF IInv, Shape, FilesType, MemoryType, FlagType, CountType,
          Control, Unfinished, Versions, RecoveredDir, Overlay, Whole,
          PrepareTo, CommitsAll, Kept, DirKept, Rooms, DirPlaced,
          Backups, BackupOf, InMemory, MemoryOf, Swapping, Phases,
          Settled, Entry, Persistent, Running, Saveable
  <1>1. ASSUME NEW b \in Bats,
             Create(b) \/ Update(b) \/ Delete(b) \/ Undelete(b) \/ Load(b)
               \/ Unload(b) \/ SwapOut(b)
       PROVE  Rooms'
    BY <1>1 DEF Create, Free, NewVersion, InUse, Update, Forget, Delete, Drop,
                Undelete, Load, Unload, Trimmable, SwapOut, MarkSwapped
  <1>2. CASE SwapPrepare
    BY <1>2 DEF SwapPrepare, Prepare, PrepareFails, PrepareDisk,
                PrepareWorks, PrepareFrom, PrepareSource, MakesBak,
                StartsSub, MakesSub, Target
  <1>3. CASE SwapMove \/ SwapWrite \/ SwapWritten
    BY <1>3 DEF SwapMove, Move, Drop, SwapWrite, SwapWritten
  <1>4. ASSUME NEW s \in BOOLEAN, NEW S \in SUBSET Bats,
             Begin(s, S)
       PROVE  Rooms'
    BY <1>4 DEF Begin, EndsDelta
  <1>5. CASE Sync
    <2>1. bakThere'
      BY <1>5, RoomsMade DEF Sync, Prepare, PrepareFails
    <2>2. backupSubdir' > 0 => subThere'
      BY <1>5, RoomsMade DEF Sync, Prepare, PrepareFails, PrepareWorks, Target, StartsSub, MakesSub
    <2>3. CASE Prepare(sub) /\ pc' = "phase1"
      <3>1. /\ backupFiles' = backupFiles + 1 /\ (sub => backupSubdir' = backupSubdir + 1)
            /\ backupDir' = PrepareTo(sub)
        BY <2>3 DEF Prepare, PrepareDisk
      <3> QED BY <1>5, <2>1, <2>2, <2>3, <3>1 DEF Sync
    <2>4. CASE PrepareFails(sub) /\ pc' = "failed"
      <3>1. UNCHANGED <<backupFiles, backupSubdir>> /\ backupDir' = PrepareFrom
        BY <2>4 DEF PrepareFails, PrepareDisk
      <3> QED BY <1>5, <2>1, <2>2, <2>4, <3>1 DEF Sync, PrepareFrom
    <2> QED BY <1>5, <2>3, <2>4 DEF Sync
  <1>6. ASSUME NEW b \in Bats,
             Backup(b) \/ Save(b)
       PROVE  Rooms'
    BY <1>6 DEF Backup, Returned, FromBak, FromBat, BackupFails, BackupTo,
                Counts, Move, Drop, Save
  <1>7. CASE BackedUp \/ Saved
    BY <1>7 DEF BackedUp, Saved
  <1>8. CASE OpenDir \/ WriteDir \/ ReuseDir
    BY <1>8 DEF OpenDir, WriteDir, NewDir, OldDir, ReuseDir
  <1>9. CASE Switch
    <2>1. /\ RecoveredDir' = batD /\ bakD' = NoFile /\ subD' = NoFile
          /\ \A b \in Bats : bakF'[b] = NoFile /\ subF'[b] = NoFile
          /\ sub /\ bakThere => bakThere'
      BY <1>9, RenameLeaves DEF Switch
    <2> QED BY <1>9, <2>1 DEF Switch
  <1>10. CASE SwitchAgain
    <2>1. CASE pc' = "late"
      <3>1. /\ RecoveredDir' = batD /\ bakD' = NoFile /\ subD' = NoFile
            /\ \A b \in Bats : bakF'[b] = NoFile /\ subF'[b] = NoFile
            /\ sub /\ bakThere => bakThere'
        BY <1>10, <2>1, AgainSteps, RenameLeaves
      <3> QED BY <1>10, <2>1, <3>1 DEF SwitchAgain
    <2>2. CASE pc' = "failed"
      <3>1. UNCHANGED <<diskF, diskD, dirs>> /\ pc = "rename"
        BY <1>10, <2>2, AgainSteps
      <3>2. RecoveredDir' = RecoveredDir
        BY <3>1 DEF RecoveredDir, Overlay
      <3>3. UNCHANGED <<memory, flags, backup, commit, swap, fails>>
        BY <1>10 DEF SwitchAgain
      <3> HIDE DEF RecoveredDir
      <3> QED BY <2>2, <3>1, <3>2, <3>3
    <2> QED BY <1>10, <2>1, <2>2 DEF SwitchAgain
  <1>11. CASE Reset \/ RemoveDel
    BY <1>11 DEF Reset, ResetCounters, RemoveDel
  <1>12. CASE Renew
    <2>1. bakThere'
      <3>1. bakThere' <=> bakThere \/ backupFiles = 0
        BY <1>12, RoomsMade DEF Renew
      <3> QED BY <1>12, <3>1 DEF Renew
    <2>2. backupDir' \in {PrepareFrom, 1}
      BY <1>12, RoomsMade DEF Renew
    <2>3. backupSubdir' = 0
      BY <1>12 DEF Renew
    <2>4. backupFiles' = 0 => backupDir' = 0
      BY <1>12, <2>2 DEF Renew, PrepareFrom, PrepareDisk
    <2>5. backupDir' # 2
      BY <1>12, <2>2 DEF Renew, PrepareFrom
    <2>6. pc = "renew" /\ pc' = "epilogue" /\ UNCHANGED <<sub, list>>
      BY <1>12 DEF Renew
    <2> QED BY <1>12, <2>1, <2>3, <2>4, <2>5, <2>6
  <1>13. CASE Lock \/ Epilogue \/ Failed \/ Crash
    BY <1>13 DEF Lock, Epilogue, Leaves, Failed, Crash
  <1>14. CASE Boot \/ RecoverSubdir
    BY <1>14 DEF Boot, RecoverSubdir, Move, Drop
  <1>15. CASE RecoverDir \/ MoveDir \/ ReadEntries
    BY <1>15 DEF RecoverDir, MoveDir, ReadEntries
  <1>16. CASE RecoverHeaps
    BY <1>16 DEF RecoverHeaps, Move, Drop
  <1>17. CASE PrepareBoot
    <2>1. bakThere'
      <3>1. bakThere' <=> bakThere \/ backupFiles = 0
        BY <1>17, RoomsMade DEF PrepareBoot, Prepare
      <3> QED BY <1>17, <3>1 DEF PrepareBoot
    <2>2. backupFiles' = backupFiles + 1 /\ backupSubdir' = backupSubdir
      BY <1>17 DEF PrepareBoot, Prepare
    <2>3. backupDir' # 2
      <3>1. backupDir' \in {PrepareFrom, 1}
        BY <1>17, RoomsMade DEF PrepareBoot, Prepare
      <3> QED BY <1>17, <3>1 DEF PrepareBoot, PrepareFrom
    <2> QED BY <1>17, <2>1, <2>2, <2>3 DEF PrepareBoot
  <1>18. CASE DiskScan \/ UNCHANGED vars
    BY <1>18 DEF DiskScan, vars
  <1> HIDE DEF IInv, Shape, FilesType, MemoryType, FlagType, CountType,
               Control, Unfinished, Versions, RecoveredDir, Overlay, Whole,
               PrepareTo, CommitsAll, Kept, DirKept, Rooms, DirPlaced,
               Backups, BackupOf, InMemory, MemoryOf, Swapping, Phases,
               Settled, Entry, Persistent, Running, Saveable
  <1> QED BY <1>1, <1>2, <1>3, <1>4, <1>5, <1>6, <1>7, <1>8, <1>9, <1>10,
             <1>11, <1>12, <1>13, <1>14, <1>15, <1>16, <1>17, <1>18
     DEF Next

\* A heap of the checkpoint is overwritten only after its backup, which may be
\* one of an earlier commit that failed.
LEMMA BackupsNext ==
    ASSUME Steady, IInv, CommitsAll, CommitsAll', [Next]_vars
    PROVE  Backups'
  <1> USE ContentAssumption, BoundsAssumption, BatsAssumption,
          SwitchAssumption
      DEF IInv, Shape, FilesType, MemoryType, FlagType, CountType,
          Control, Unfinished, Versions, RecoveredDir, Overlay, Whole,
          PrepareTo, CommitsAll, Kept, DirKept, Rooms, DirPlaced,
          Backups, BackupOf, InMemory, MemoryOf, Swapping, Phases,
          Settled, Entry, Persistent, Running, Saveable
  <1>1. ASSUME NEW b \in Bats,
             Create(b) \/ Update(b) \/ Delete(b) \/ Undelete(b) \/ Load(b)
               \/ Unload(b) \/ SwapOut(b)
       PROVE  Backups'
    BY <1>1 DEF Create, Free, NewVersion, InUse, Update, Forget, Delete, Drop,
                Undelete, Load, Unload, Trimmable, SwapOut, MarkSwapped
  <1>2. CASE SwapPrepare
    BY <1>2 DEF SwapPrepare, Prepare, PrepareFails, PrepareDisk,
                PrepareWorks, PrepareFrom, PrepareSource, MakesBak,
                StartsSub, MakesSub, Target
  <1>3. CASE SwapMove
    BY <1>3 DEF SwapMove, Move, Drop
  <1>4. CASE SwapWrite \/ SwapWritten
    BY <1>4 DEF SwapWrite, SwapWritten
  <1>5. ASSUME NEW s \in BOOLEAN, NEW S \in SUBSET Bats,
             Begin(s, S)
       PROVE  Backups'
    BY <1>5 DEF Begin, EndsDelta
  <1>6. CASE Sync
    BY <1>6 DEF Sync, Prepare, PrepareFails, PrepareDisk, PrepareWorks,
                PrepareFrom, PrepareSource, MakesBak, StartsSub, MakesSub,
                Target
  <1>7. ASSUME NEW b \in Bats,
             Backup(b)
       PROVE  Backups'
    BY <1>7 DEF Backup, Returned, FromBak, FromBat, BackupFails, BackupTo,
                Counts, Move, Drop
  <1>8. ASSUME NEW b \in Bats,
             Save(b)
       PROVE  Backups'
    BY <1>8 DEF Save
  <1>9. CASE BackedUp \/ Saved
    BY <1>9 DEF BackedUp, Saved
  <1>10. CASE OpenDir \/ ReuseDir
    BY <1>10 DEF OpenDir, ReuseDir
  <1>11. CASE WriteDir
    BY <1>11 DEF WriteDir, NewDir, OldDir
  <1>12. CASE Switch
    <2>1. /\ RecoveredDir' = batD /\ bakD' = NoFile /\ subD' = NoFile
          /\ \A b \in Bats : bakF'[b] = NoFile /\ subF'[b] = NoFile
          /\ sub /\ bakThere => bakThere'
      BY <1>12, RenameLeaves DEF Switch
    <2> QED BY <1>12, <2>1 DEF Switch
  <1>13. CASE SwitchAgain
    <2>1. CASE pc' = "late"
      <3>1. /\ RecoveredDir' = batD /\ bakD' = NoFile /\ subD' = NoFile
            /\ \A b \in Bats : bakF'[b] = NoFile /\ subF'[b] = NoFile
            /\ sub /\ bakThere => bakThere'
        BY <1>13, <2>1, AgainSteps, RenameLeaves
      <3> QED BY <1>13, <2>1, <3>1 DEF SwitchAgain
    <2>2. CASE pc' = "failed"
      <3>1. UNCHANGED <<diskF, diskD, dirs>> /\ pc = "rename"
        BY <1>13, <2>2, AgainSteps
      <3>2. RecoveredDir' = RecoveredDir
        BY <3>1 DEF RecoveredDir, Overlay
      <3>3. UNCHANGED <<memory, flags, backup, commit, swap, fails>>
        BY <1>13 DEF SwitchAgain
      <3> HIDE DEF RecoveredDir
      <3> QED BY <2>2, <3>1, <3>2, <3>3
    <2> QED BY <1>13, <2>1, <2>2 DEF SwitchAgain
  <1>14. CASE Reset \/ RemoveDel
    BY <1>14 DEF Reset, ResetCounters, RemoveDel
  <1>15. CASE Renew
    BY <1>15 DEF Renew, Prepare, PrepareFails, PrepareDisk, PrepareWorks,
                 PrepareFrom, PrepareSource, MakesBak, StartsSub,
                 MakesSub, Target
  <1>16. CASE Epilogue
    BY <1>16 DEF Epilogue, Leaves
  <1>17. CASE Lock \/ Failed \/ Crash \/ Boot
    BY <1>17 DEF Lock, Failed, Crash, Boot
  <1>18. CASE RecoverSubdir
    BY <1>18 DEF RecoverSubdir, Move, Drop
  <1>19. CASE RecoverDir \/ MoveDir
    BY <1>19 DEF RecoverDir, MoveDir
  <1>20. CASE ReadEntries
    BY <1>20 DEF ReadEntries
  <1>21. CASE RecoverHeaps
    BY <1>21 DEF RecoverHeaps, Move, Drop
  <1>22. CASE PrepareBoot
    BY <1>22 DEF PrepareBoot, Prepare, PrepareFails, PrepareDisk,
                 PrepareWorks, PrepareFrom, PrepareSource, MakesBak,
                 StartsSub, MakesSub, Target
  <1>23. CASE DiskScan \/ UNCHANGED vars
    BY <1>23 DEF DiskScan, vars
  <1> HIDE DEF IInv, Shape, FilesType, MemoryType, FlagType, CountType,
               Control, Unfinished, Versions, RecoveredDir, Overlay, Whole,
               PrepareTo, CommitsAll, Kept, DirKept, Rooms, DirPlaced,
               Backups, BackupOf, InMemory, MemoryOf, Swapping, Phases,
               Settled, Entry, Persistent, Running, Saveable
  <1> QED BY <1>1, <1>2, <1>3, <1>4, <1>5, <1>6, <1>7, <1>8, <1>9, <1>10,
             <1>11, <1>12, <1>13, <1>14, <1>15, <1>16, <1>17, <1>18, <1>19,
             <1>20, <1>21, <1>22, <1>23
     DEF Next

\* What differs from the checkpoint is marked for the next commit.
LEMMA InMemoryNext ==
    ASSUME Steady, IInv, CommitsAll, CommitsAll', [Next]_vars
    PROVE  InMemory'
  <1> USE ContentAssumption, BoundsAssumption, BatsAssumption,
          SwitchAssumption
      DEF IInv, Shape, FilesType, MemoryType, FlagType, CountType,
          Control, Unfinished, Versions, RecoveredDir, Overlay, Whole,
          PrepareTo, CommitsAll, Kept, DirKept, Rooms, DirPlaced,
          Backups, BackupOf, InMemory, MemoryOf, Swapping, Phases,
          Settled, Entry, Persistent, Running, Saveable
  <1>1. ASSUME NEW b \in Bats,
             Create(b) \/ Update(b) \/ Delete(b) \/ Undelete(b) \/ Load(b)
               \/ Unload(b) \/ SwapOut(b)
       PROVE  InMemory'
    BY <1>1 DEF Create, Free, NewVersion, InUse, Update, Forget, Delete, Drop,
                Undelete, Load, Unload, Trimmable, SwapOut, MarkSwapped
  <1>2. CASE SwapPrepare
    BY <1>2 DEF SwapPrepare, Prepare, PrepareFails, PrepareDisk,
                PrepareWorks, PrepareFrom, PrepareSource, MakesBak,
                StartsSub, MakesSub, Target
  <1>3. CASE SwapMove
    BY <1>3 DEF SwapMove, Move, Drop
  <1>4. CASE SwapWrite \/ SwapWritten
    BY <1>4 DEF SwapWrite, SwapWritten
  <1>5. ASSUME NEW s \in BOOLEAN, NEW S \in SUBSET Bats,
             Begin(s, S)
       PROVE  InMemory'
    BY <1>5 DEF Begin, EndsDelta
  <1>6. CASE Sync
    BY <1>6 DEF Sync, Prepare, PrepareFails, PrepareDisk, PrepareWorks,
                PrepareFrom, PrepareSource, MakesBak, StartsSub, MakesSub,
                Target
  <1>7. ASSUME NEW b \in Bats,
             Backup(b)
       PROVE  InMemory'
    BY <1>7 DEF Backup, Returned, FromBak, FromBat, BackupFails, BackupTo,
                Counts, Move, Drop
  <1>8. ASSUME NEW b \in Bats,
             Save(b)
       PROVE  InMemory'
    BY <1>8 DEF Save
  <1>9. CASE BackedUp \/ Saved
    BY <1>9 DEF BackedUp, Saved
  <1>10. CASE OpenDir \/ ReuseDir
    BY <1>10 DEF OpenDir, ReuseDir
  <1>11. CASE WriteDir
    BY <1>11 DEF WriteDir, NewDir, OldDir
  <1>12. CASE Switch
    <2>1. /\ RecoveredDir' = batD /\ bakD' = NoFile /\ subD' = NoFile
          /\ \A b \in Bats : bakF'[b] = NoFile /\ subF'[b] = NoFile
          /\ sub /\ bakThere => bakThere'
      BY <1>12, RenameLeaves DEF Switch
    <2> QED BY <1>12, <2>1 DEF Switch
  <1>13. CASE SwitchAgain
    <2>1. CASE pc' = "late"
      <3>1. /\ RecoveredDir' = batD /\ bakD' = NoFile /\ subD' = NoFile
            /\ \A b \in Bats : bakF'[b] = NoFile /\ subF'[b] = NoFile
            /\ sub /\ bakThere => bakThere'
        BY <1>13, <2>1, AgainSteps, RenameLeaves
      <3> QED BY <1>13, <2>1, <3>1 DEF SwitchAgain
    <2>2. CASE pc' = "failed"
      <3>1. UNCHANGED <<diskF, diskD, dirs>> /\ pc = "rename"
        BY <1>13, <2>2, AgainSteps
      <3>2. RecoveredDir' = RecoveredDir
        BY <3>1 DEF RecoveredDir, Overlay
      <3>3. UNCHANGED <<memory, flags, backup, commit, swap, fails>>
        BY <1>13 DEF SwitchAgain
      <3> HIDE DEF RecoveredDir
      <3> QED BY <2>2, <3>1, <3>2, <3>3
    <2> QED BY <1>13, <2>1, <2>2 DEF SwitchAgain
  <1>14. CASE Reset \/ RemoveDel
    BY <1>14 DEF Reset, ResetCounters, RemoveDel
  <1>15. CASE Renew
    BY <1>15 DEF Renew, Prepare, PrepareFails, PrepareDisk, PrepareWorks,
                 PrepareFrom, PrepareSource, MakesBak, StartsSub,
                 MakesSub, Target
  <1>16. CASE Epilogue
    BY <1>16 DEF Epilogue, Leaves
  <1>17. CASE Lock \/ Failed \/ Crash \/ Boot
    BY <1>17 DEF Lock, Failed, Crash, Boot
  <1>18. CASE RecoverSubdir
    BY <1>18 DEF RecoverSubdir, Move, Drop
  <1>19. CASE RecoverDir \/ MoveDir
    BY <1>19 DEF RecoverDir, MoveDir
  <1>20. CASE ReadEntries
    BY <1>20 DEF ReadEntries
  <1>21. CASE RecoverHeaps
    BY <1>21 DEF RecoverHeaps, Move, Drop
  <1>22. CASE PrepareBoot
    BY <1>22 DEF PrepareBoot, Prepare, PrepareFails, PrepareDisk,
                 PrepareWorks, PrepareFrom, PrepareSource, MakesBak,
                 StartsSub, MakesSub, Target
  <1>23. CASE DiskScan \/ UNCHANGED vars
    BY <1>23 DEF DiskScan, vars
  <1> HIDE DEF IInv, Shape, FilesType, MemoryType, FlagType, CountType,
               Control, Unfinished, Versions, RecoveredDir, Overlay, Whole,
               PrepareTo, CommitsAll, Kept, DirKept, Rooms, DirPlaced,
               Backups, BackupOf, InMemory, MemoryOf, Swapping, Phases,
               Settled, Entry, Persistent, Running, Saveable
  <1> QED BY <1>1, <1>2, <1>3, <1>4, <1>5, <1>6, <1>7, <1>8, <1>9, <1>10,
             <1>11, <1>12, <1>13, <1>14, <1>15, <1>16, <1>17, <1>18, <1>19,
             <1>20, <1>21, <1>22, <1>23
     DEF Next

\* BATs are swapped out between the commits only.
LEMMA SwappingNext ==
    ASSUME Steady, OneKind, IInv, CommitsAll, CommitsAll', [Next]_vars
    PROVE  Swapping'
  <1> USE ContentAssumption, BoundsAssumption, BatsAssumption,
          SwitchAssumption
      DEF IInv, Shape, FilesType, MemoryType, FlagType, CountType,
          Control, Unfinished, Versions, RecoveredDir, Overlay, Whole,
          PrepareTo, CommitsAll, Kept, DirKept, Rooms, DirPlaced,
          Backups, BackupOf, InMemory, MemoryOf, Swapping, Phases,
          Settled, Entry, Persistent, Running, Saveable
  <1>1. ASSUME NEW b \in Bats,
             Create(b) \/ Update(b) \/ Delete(b) \/ Undelete(b) \/ Load(b)
               \/ Unload(b) \/ SwapOut(b)
       PROVE  Swapping'
    <2>1. SwapOut(b) => pc = "idle"
      <3>1. pc = "lock" => ~Trims
        BY DEF OneKind, Marks, Subcommits
      <3> QED BY <3>1 DEF SwapOut, Trimmable, Free
    <2> QED BY <1>1, <2>1
    DEF Create, Free, NewVersion, InUse, Update, Forget, Delete, Drop, Undelete, Load, Unload,
        SwapOut, MarkSwapped
  <1>2. CASE SwapPrepare
    BY <1>2 DEF SwapPrepare, Prepare, PrepareFails, PrepareDisk,
                PrepareWorks, PrepareFrom, PrepareSource, MakesBak,
                StartsSub, MakesSub, Target
  <1>3. CASE SwapMove
    BY <1>3 DEF SwapMove, Move, Drop
  <1>4. CASE SwapWrite \/ SwapWritten
    BY <1>4 DEF SwapWrite, SwapWritten
  <1>5. ASSUME NEW s \in BOOLEAN, NEW S \in SUBSET Bats,
             Begin(s, S)
       PROVE  Swapping'
    <2>1. spc = "none"
      <3>1. s => ~Trims
        BY <1>5 DEF Begin, OneKind, Subcommits
      <3>2. S = Bats
        BY <1>5 DEF Begin
      <3> QED BY <1>5, <3>1, <3>2 DEF Begin
    <2> QED BY <1>5, <2>1 DEF Begin
  <1>6. CASE Sync
    BY <1>6 DEF Sync, Prepare, PrepareFails, PrepareDisk, PrepareWorks,
                PrepareFrom, PrepareSource, MakesBak, StartsSub, MakesSub,
                Target
  <1>7. ASSUME NEW b \in Bats,
             Backup(b)
       PROVE  Swapping'
    BY <1>7 DEF Backup, Returned, FromBak, FromBat, BackupFails, BackupTo,
                Counts, Move, Drop
  <1>8. ASSUME NEW b \in Bats,
             Save(b)
       PROVE  Swapping'
    BY <1>8 DEF Save
  <1>9. CASE BackedUp \/ Saved
    BY <1>9 DEF BackedUp, Saved
  <1>10. CASE OpenDir \/ ReuseDir
    BY <1>10 DEF OpenDir, ReuseDir
  <1>11. CASE WriteDir
    BY <1>11 DEF WriteDir, NewDir, OldDir
  <1>12. CASE Switch
    <2>1. /\ RecoveredDir' = batD /\ bakD' = NoFile /\ subD' = NoFile
          /\ \A b \in Bats : bakF'[b] = NoFile /\ subF'[b] = NoFile
          /\ sub /\ bakThere => bakThere'
      BY <1>12, RenameLeaves DEF Switch
    <2> QED BY <1>12, <2>1 DEF Switch
  <1>13. CASE SwitchAgain
    <2>1. CASE pc' = "late"
      <3>1. /\ RecoveredDir' = batD /\ bakD' = NoFile /\ subD' = NoFile
            /\ \A b \in Bats : bakF'[b] = NoFile /\ subF'[b] = NoFile
            /\ sub /\ bakThere => bakThere'
        BY <1>13, <2>1, AgainSteps, RenameLeaves
      <3> QED BY <1>13, <2>1, <3>1 DEF SwitchAgain
    <2>2. CASE pc' = "failed"
      <3>1. UNCHANGED <<diskF, diskD, dirs>> /\ pc = "rename"
        BY <1>13, <2>2, AgainSteps
      <3>2. RecoveredDir' = RecoveredDir
        BY <3>1 DEF RecoveredDir, Overlay
      <3>3. UNCHANGED <<memory, flags, backup, commit, swap, fails>>
        BY <1>13 DEF SwitchAgain
      <3> HIDE DEF RecoveredDir
      <3> QED BY <2>2, <3>1, <3>2, <3>3
    <2> QED BY <1>13, <2>1, <2>2 DEF SwitchAgain
  <1>14. CASE Reset \/ RemoveDel
    BY <1>14 DEF Reset, ResetCounters, RemoveDel
  <1>15. CASE Renew
    BY <1>15 DEF Renew, Prepare, PrepareFails, PrepareDisk, PrepareWorks,
                 PrepareFrom, PrepareSource, MakesBak, StartsSub,
                 MakesSub, Target
  <1>16. CASE Epilogue
    BY <1>16 DEF Epilogue, Leaves
  <1>17. CASE Lock \/ Failed \/ Crash \/ Boot
    BY <1>17 DEF Lock, Failed, Crash, Boot
  <1>18. CASE RecoverSubdir
    BY <1>18 DEF RecoverSubdir, Move, Drop
  <1>19. CASE RecoverDir \/ MoveDir
    BY <1>19 DEF RecoverDir, MoveDir
  <1>20. CASE ReadEntries
    BY <1>20 DEF ReadEntries
  <1>21. CASE RecoverHeaps
    BY <1>21 DEF RecoverHeaps, Move, Drop
  <1>22. CASE PrepareBoot
    BY <1>22 DEF PrepareBoot, Prepare, PrepareFails, PrepareDisk,
                 PrepareWorks, PrepareFrom, PrepareSource, MakesBak,
                 StartsSub, MakesSub, Target
  <1>23. CASE DiskScan \/ UNCHANGED vars
    BY <1>23 DEF DiskScan, vars
  <1> HIDE DEF IInv, Shape, FilesType, MemoryType, FlagType, CountType,
               Control, Unfinished, Versions, RecoveredDir, Overlay, Whole,
               PrepareTo, CommitsAll, Kept, DirKept, Rooms, DirPlaced,
               Backups, BackupOf, InMemory, MemoryOf, Swapping, Phases,
               Settled, Entry, Persistent, Running, Saveable
  <1> QED BY <1>1, <1>2, <1>3, <1>4, <1>5, <1>6, <1>7, <1>8, <1>9, <1>10,
             <1>11, <1>12, <1>13, <1>14, <1>15, <1>16, <1>17, <1>18, <1>19,
             <1>20, <1>21, <1>22, <1>23
     DEF Next

\* A BAT that no checkpoint has seen has no backup.
LEMMA NewHasNoBackup ==
    ASSUME IInv, NEW b \in Bats, Free(b), status[b] \in {"none", "NEW"}
    PROVE  bakF[b] = NoFile
  <1>1. pc = "idle"
    BY DEF Free, IInv, Rooms
  <1>2. RecoveredDir[b] = 0
    BY <1>1 DEF IInv, InMemory, MemoryOf, Running
  <1>3. bakF[b] # 0
    BY ContentAssumption DEF IInv, Shape, FilesType
  <1> QED BY <1>2, <1>3 DEF IInv, Backups, BackupOf

\* A subcommit finds a BBP.dir to move to SUBDIR.
LEMMA SubSyncs ==
    ASSUME IInv, Sync, sub
    PROVE  pc' = "phase1"
  <1> USE DEF IInv, Shape, FlagType, CountType
  <1>1. PrepareWorks(sub)
    <2>1. StartsSub(sub) => MakesSub(sub)
      BY DEF Sync, StartsSub, MakesSub, MakesBak, Rooms
    <2>2. Target(sub)
      <3>1. CASE backupSubdir = 0
        BY <2>1, <3>1 DEF Target, StartsSub
      <3>2. CASE backupSubdir # 0
        <4>1. pc = "sync"
          BY DEF Sync
        <4>2. subThere
          BY <3>2, <4>1 DEF Rooms
        <4> QED BY <4>2 DEF Target
      <3> QED BY <3>1, <3>2
    <2>3. PrepareFrom # 2 => PrepareSource # NoFile
      BY DEF Sync, PrepareFrom, PrepareSource, DirPlaced, Whole, RecoveredDir, Overlay, Rooms
    <2> QED BY <2>1, <2>2, <2>3 DEF PrepareWorks, PrepareTo
  <1> QED BY <1>1 DEF Sync, PrepareFails

\* Whatever is swapped out between subcommits is marked, and the mark stays
\* until the epilogue, when no backup is left.
LEMMA MarksNext ==
    ASSUME Steady, OneKind, IInv, CommitsAll, CommitsAll', [Next]_vars
    PROVE  Marks'
  <1>a. (pc # "idle" /\ Up => sub \in Kinds)'
    <2> USE DEF IInv, Marks
    <2>1. CASE \E b \in Bats : Create(b) \/ Update(b) \/ Delete(b) \/ Undelete(b) \/ Load(b)
                                 \/ Unload(b) \/ SwapOut(b) \/ Backup(b) \/ Save(b)
      BY <2>1 DEF Create, Update, Delete, Undelete, Load, Unload, SwapOut, Backup, Save
    <2>2. CASE SwapPrepare \/ SwapMove \/ SwapWrite \/ SwapWritten \/ Lock \/ Sync \/ BackedUp
      BY <2>2 DEF SwapPrepare, SwapMove, SwapWrite, SwapWritten, Lock, Sync, BackedUp
    <2>3. CASE Begin(FALSE, Bats) \/ \E S \in (SUBSET Bats) \ {{}} : Begin(TRUE, S)
      BY <2>3 DEF Begin
    <2>4. CASE Saved \/ OpenDir \/ WriteDir \/ ReuseDir \/ Switch \/ SwitchAgain
      BY <2>4 DEF Saved, OpenDir, WriteDir, ReuseDir, Switch, SwitchAgain
    <2>5. CASE Reset \/ RemoveDel \/ Renew \/ Epilogue \/ Failed \/ Crash \/ UNCHANGED vars
      BY <2>5 DEF Reset, RemoveDel, Renew, Epilogue, Failed, Crash, vars
    <2>6. CASE Boot \/ RecoverSubdir \/ RecoverDir \/ MoveDir \/ ReadEntries
      BY <2>6 DEF Boot, RecoverSubdir, RecoverDir, MoveDir, ReadEntries
    <2>7. CASE RecoverHeaps \/ PrepareBoot \/ DiskScan
      BY <2>7 DEF RecoverHeaps, PrepareBoot, DiskScan
    <2> QED BY <2>1, <2>2, <2>3, <2>4, <2>5, <2>6, <2>7 DEF Next
  <1> SUFFICES ASSUME Subcommits, NEW c \in Bats
               PROVE  Marked(c)'
    BY <1>a DEF Marks, Subcommits
  <1>b. /\ Marked(c) /\ FALSE \notin Kinds /\ ~InPlace /\ ~Trims
        /\ pc # "idle" /\ Up => sub
    <2>1. FALSE \notin Kinds /\ ~InPlace /\ ~Trims
      BY DEF OneKind
    <2>2. pc # "idle" /\ Up => sub
      BY <2>1 DEF IInv, Shape, FlagType, Marks
    <2> QED BY <2>1, <2>2 DEF IInv, Marks
  <1> USE <1>b
      DEF IInv, Shape, FilesType, MemoryType, Marked
  <1>1. ASSUME NEW b \in Bats,
             Create(b) \/ Update(b) \/ Delete(b) \/ Undelete(b) \/ Load(b)
               \/ Unload(b) \/ SwapOut(b)
       PROVE  Marked(c)'
    <2>1. CASE Delete(b)
      <3>1. CASE status[b] = "NEW"
        <4>1. bakF[b] = NoFile /\ sbat # b
          BY <2>1, <3>1, NewHasNoBackup DEF Delete, Free
        <4> QED BY <2>1, <3>1, <4>1 DEF Delete, Forget
      <3> QED BY <2>1, <3>1 DEF Delete
    <2>2. CASE Create(b) \/ Update(b)
      BY <2>2 DEF Create, Update, NewVersion
    <2>3. CASE Undelete(b) \/ Load(b) \/ Unload(b)
      BY <2>3 DEF Undelete, Load, Unload
    <2>4. CASE SwapOut(b)
      <3>1. pc = "idle"
        BY <2>4 DEF SwapOut, Trimmable, Free, Rooms
      <3> QED BY <2>4, <3>1 DEF SwapOut, MarkSwapped
    <2> QED BY <1>1, <2>1, <2>2, <2>3, <2>4
  <1>2. CASE SwapPrepare
    <2>1. ASSUME backupDir = 2
          PROVE  spc' = "none" /\ backupDir' = 2
      <3>1. PrepareFrom = 2 /\ PrepareSource = NoFile
        BY <1>2, <2>1
        DEF SwapPrepare, Versions, PrepareFrom, PrepareSource, Rooms, DirPlaced, CountType
      <3>2. ~PrepareWorks(FALSE)
        BY <3>1 DEF PrepareWorks, PrepareTo
      <3> QED BY <1>2, <3>1, <3>2 DEF SwapPrepare, Prepare, PrepareFails, PrepareDisk
    <2> QED BY <1>2, <2>1 DEF SwapPrepare
  <1>3. CASE SwapMove
    BY <1>3 DEF SwapMove, Move, Swapping
  <1>4. CASE SwapWrite \/ SwapWritten
    BY <1>4 DEF SwapWrite, SwapWritten
  <1>5. ASSUME NEW s \in BOOLEAN, NEW S \in SUBSET Bats,
             Begin(s, S)
       PROVE  Marked(c)'
    BY <1>5 DEF Begin, EndsDelta
  <1>6. CASE Lock
    BY <1>6 DEF Lock
  <1>7. CASE Sync
    BY <1>7, SubSyncs DEF Sync, Swapping
  <1>8. ASSUME NEW b \in Bats,
             Backup(b)
       PROVE  Marked(c)'
    BY <1>8 DEF Backup, BackupTo, FromBat, Move, Drop, DirPlaced, PrepareTo, Swapping
  <1>9. ASSUME NEW b \in Bats,
             Save(b)
       PROVE  Marked(c)'
    BY <1>9 DEF Save
  <1>10. CASE BackedUp
    BY <1>10 DEF BackedUp
  <1>11. CASE Saved
    BY <1>11 DEF Saved, DirPlaced, PrepareTo
  <1>12. CASE OpenDir
    BY <1>12 DEF OpenDir
  <1>13. CASE WriteDir
    BY <1>13 DEF WriteDir, DirPlaced, PrepareTo
  <1>14. CASE ReuseDir
    <2>1. spc = "none"
      BY <1>14 DEF ReuseDir, Swapping
    <2>2. backupDir = 2
      BY <1>14 DEF ReuseDir, DirPlaced, PrepareTo
    <2> QED BY <1>14, <2>1, <2>2 DEF ReuseDir
  <1>15. CASE Switch
    BY <1>15 DEF Switch, Rename
  <1>16. CASE SwitchAgain
    <2>1. dirty[c] => backupDir = 2
      <3>1. bbpd => backupDir = 2
        BY <1>16 DEF SwitchAgain, DirPlaced, PrepareTo
      <3>2. ~bbpd => Settled(c)
        BY <1>16 DEF SwitchAgain, InMemory, MemoryOf
      <3>3. Settled(c) /\ dirty[c] => status[c] = "DELETED"
        BY DEF Settled, InMemory, MemoryOf, Persistent
      <3>4. ~(Settled(c) /\ status[c] = "DELETED")
        BY <1>16 DEF SwitchAgain, Settled, InMemory, MemoryOf, Entry, Persistent, Running
      <3> QED BY <3>1, <3>2, <3>3, <3>4
    <2> QED BY <1>16, <2>1 DEF SwitchAgain, Rename
  <1>17. CASE Reset \/ RemoveDel
    BY <1>17 DEF Reset, ResetCounters, RemoveDel, Swapping
  <1>18. CASE Renew
    BY <1>18 DEF Renew, Swapping
  <1>19. CASE Epilogue
    <2>1. bakF[c] = NoFile /\ (Persistent(c) => ~dirty[c]) /\ c \in list
      BY <1>19 DEF Epilogue, InMemory, MemoryOf, Settled, Rooms
    <2> QED BY <1>19, <2>1 DEF Epilogue, Leaves, Swapping
  <1>20. CASE Failed
    BY <1>20 DEF Failed, Swapping
  <1>21. CASE Crash
    BY <1>21 DEF Crash
  <1>22. CASE Boot \/ RecoverSubdir \/ RecoverDir \/ MoveDir \/ ReadEntries
    BY <1>22 DEF Boot, RecoverSubdir, RecoverDir, MoveDir, ReadEntries, Swapping
  <1>23. CASE RecoverHeaps \/ PrepareBoot
    BY <1>23 DEF RecoverHeaps, PrepareBoot, Swapping
  <1>24. CASE DiskScan
    BY <1>24 DEF DiskScan, InMemory, MemoryOf, Backups, BackupOf, Swapping
  <1>25. CASE UNCHANGED vars
    BY <1>25 DEF vars
  <1> HIDE <1>b
  <1> HIDE DEF IInv, Shape, FilesType, MemoryType, Marked
  <1> QED
    BY <1>1, <1>2, <1>3, <1>4, <1>5, <1>6, <1>7, <1>8, <1>9, <1>10,
       <1>11, <1>12, <1>13, <1>14, <1>15, <1>16, <1>17, <1>18, <1>19,
       <1>20, <1>21, <1>22, <1>23, <1>24, <1>25
    DEF Next

\* Phase 1 finds or makes the backups of what phase 2 writes.
LEMMA PhasesNext ==
    ASSUME Steady, OneKind, IInv, CommitsAll, CommitsAll', [Next]_vars
    PROVE  Phases'
  <1> USE ContentAssumption, BoundsAssumption, BatsAssumption,
          SwitchAssumption
      DEF IInv, Shape, FilesType, MemoryType, FlagType, CountType,
          Control, Unfinished, Versions, RecoveredDir, Overlay, Whole,
          PrepareTo, CommitsAll, Kept, DirKept, Rooms, DirPlaced,
          Backups, BackupOf, InMemory, MemoryOf, Swapping, Phases,
          Settled, Entry, Persistent, Running, Saveable
  <1>1. ASSUME NEW b \in Bats,
             Create(b) \/ Update(b) \/ Delete(b) \/ Undelete(b) \/ Load(b)
               \/ Unload(b) \/ SwapOut(b)
       PROVE  Phases'
    BY <1>1 DEF Create, Free, NewVersion, InUse, Update, Forget, Delete, Drop,
                Undelete, Load, Unload, Trimmable, SwapOut, MarkSwapped
  <1>2. CASE SwapPrepare
    BY <1>2 DEF SwapPrepare, Prepare, PrepareFails, PrepareDisk,
                PrepareWorks, PrepareFrom, PrepareSource, MakesBak,
                StartsSub, MakesSub, Target
  <1>3. CASE SwapMove
    BY <1>3 DEF SwapMove, Move, Drop
  <1>4. CASE SwapWrite \/ SwapWritten
    BY <1>4 DEF SwapWrite, SwapWritten
  <1>5. ASSUME NEW s \in BOOLEAN, NEW S \in SUBSET Bats,
             Begin(s, S)
       PROVE  Phases'
    <2>1. before' = RecoveredDir
      BY <1>5, RestartFinds DEF Begin, EndsDelta
    <2> QED BY <1>5, <2>1 DEF Begin, EndsDelta
  <1>6. CASE Sync
    BY <1>6 DEF Sync, Prepare, PrepareFails, PrepareDisk, PrepareWorks,
                PrepareFrom, PrepareSource, MakesBak, StartsSub, MakesSub,
                Target
  <1>7. ASSUME NEW b \in Bats,
             Backup(b)
       PROVE  Phases'
    <2>1. sub /\ bakF[b] # NoFile => swapped[b]
      BY <1>7 DEF Backup, Marks, Marked, Subcommits
    <2> QED BY <1>7, <2>1
            DEF Backup, Returned, FromBak, FromBat, BackupFails, BackupTo,
                Counts, Move, Drop
  <1>8. ASSUME NEW b \in Bats,
             Save(b)
       PROVE  Phases'
    BY <1>8 DEF Save
  <1>9. CASE BackedUp \/ Saved
    BY <1>9 DEF BackedUp, Saved
  <1>10. CASE OpenDir \/ ReuseDir
    BY <1>10 DEF OpenDir, ReuseDir
  <1>11. CASE WriteDir
    BY <1>11 DEF WriteDir, NewDir, OldDir
  <1>12. CASE Switch
    <2>1. /\ RecoveredDir' = batD /\ bakD' = NoFile /\ subD' = NoFile
          /\ \A b \in Bats : bakF'[b] = NoFile /\ subF'[b] = NoFile
          /\ sub /\ bakThere => bakThere'
      BY <1>12, RenameLeaves DEF Switch
    <2> QED BY <1>12, <2>1 DEF Switch
  <1>13. CASE SwitchAgain
    <2>1. CASE pc' = "late"
      <3>1. /\ RecoveredDir' = batD /\ bakD' = NoFile /\ subD' = NoFile
            /\ \A b \in Bats : bakF'[b] = NoFile /\ subF'[b] = NoFile
            /\ sub /\ bakThere => bakThere'
        BY <1>13, <2>1, AgainSteps, RenameLeaves
      <3> QED BY <1>13, <2>1, <3>1 DEF SwitchAgain
    <2>2. CASE pc' = "failed"
      <3>1. UNCHANGED <<diskF, diskD, dirs>> /\ pc = "rename"
        BY <1>13, <2>2, AgainSteps
      <3>2. RecoveredDir' = RecoveredDir
        BY <3>1 DEF RecoveredDir, Overlay
      <3>3. UNCHANGED <<memory, flags, backup, commit, swap, fails>>
        BY <1>13 DEF SwitchAgain
      <3> HIDE DEF RecoveredDir
      <3> QED BY <2>2, <3>1, <3>2, <3>3
    <2> QED BY <1>13, <2>1, <2>2 DEF SwitchAgain
  <1>14. CASE Reset \/ RemoveDel
    BY <1>14 DEF Reset, ResetCounters, RemoveDel
  <1>15. CASE Renew
    BY <1>15 DEF Renew, Prepare, PrepareFails, PrepareDisk, PrepareWorks,
                 PrepareFrom, PrepareSource, MakesBak, StartsSub,
                 MakesSub, Target
  <1>16. CASE Epilogue
    BY <1>16 DEF Epilogue, Leaves
  <1>17. CASE Lock \/ Failed \/ Crash \/ Boot
    BY <1>17 DEF Lock, Failed, Crash, Boot
  <1>18. CASE RecoverSubdir
    BY <1>18 DEF RecoverSubdir, Move, Drop
  <1>19. CASE RecoverDir \/ MoveDir
    BY <1>19 DEF RecoverDir, MoveDir
  <1>20. CASE ReadEntries
    BY <1>20 DEF ReadEntries
  <1>21. CASE RecoverHeaps
    BY <1>21 DEF RecoverHeaps, Move, Drop
  <1>22. CASE PrepareBoot
    BY <1>22 DEF PrepareBoot, Prepare, PrepareFails, PrepareDisk,
                 PrepareWorks, PrepareFrom, PrepareSource, MakesBak,
                 StartsSub, MakesSub, Target
  <1>23. CASE DiskScan \/ UNCHANGED vars
    BY <1>23 DEF DiskScan, vars
  <1> HIDE DEF IInv, Shape, FilesType, MemoryType, FlagType, CountType,
               Control, Unfinished, Versions, RecoveredDir, Overlay, Whole,
               PrepareTo, CommitsAll, Kept, DirKept, Rooms, DirPlaced,
               Backups, BackupOf, InMemory, MemoryOf, Swapping, Phases,
               Settled, Entry, Persistent, Running, Saveable
  <1> QED BY <1>1, <1>2, <1>3, <1>4, <1>5, <1>6, <1>7, <1>8, <1>9, <1>10,
             <1>11, <1>12, <1>13, <1>14, <1>15, <1>16, <1>17, <1>18, <1>19,
             <1>20, <1>21, <1>22, <1>23
     DEF Next

\* Every step keeps the invariant.
LEMMA NextIInv ==
    ASSUME Steady, OneKind, IInv, CommitsAll, CommitsAll', [Next]_vars
    PROVE  IInv'
  <1>1. Shape' /\ Kept'
    BY NextKept DEF IInv
  <1>2. DirPlaced' /\ Rooms'
    BY DirPlacedNext, RoomsNext
  <1>3. Backups' /\ InMemory' /\ Swapping' /\ Marks' /\ Phases'
    BY BackupsNext, InMemoryNext, SwappingNext, MarksNext, PhasesNext
  <1> QED BY <1>1, <1>2, <1>3 DEF IInv

\* The invariant holds as long as the commits are for all BATs.
LEMMA Invariant ==
    ASSUME Steady, OneKind
    PROVE  Spec /\ []CommitsAll => []IInv
  <1>1. IInv /\ CommitsAll /\ CommitsAll' /\ [Next]_vars => IInv'
    BY NextIInv
  <1> QED BY <1>1, InitIInv, PTL DEF Spec

\* The invariant says what the properties say.
LEMMA Consequences ==
    IInv => Recoverable /\ Undone /\ Durable /\ CountersSound /\ BackupDirExact
  <1>1. IInv => Recoverable
    BY RestartFinds, BoundsAssumption, ContentAssumption DEF Recoverable
  <1>2. IInv => Undone
    BY RestartFinds DEF IInv, Phases, Undone
  <1>3. IInv => Durable
    BY RestartFinds DEF IInv, Shape, CountType, InMemory, MemoryOf, Settled, Durable
  <1>4. IInv => CountersSound
    <2> SUFFICES ASSUME IInv, Up PROVE CountersSound
      BY DEF CountersSound
    <2>1. backupFiles = 0 => bakD = NoFile /\ subD = NoFile /\ \A b \in Bats : bakF[b] = NoFile
      BY DEF IInv, Shape, CountType, Control, Rooms, DirPlaced, Backups, BackupOf
    <2>2. backupSubdir = 0 => subD = NoFile /\ \A b \in Bats : subF[b] = NoFile
      BY DEF IInv, Shape, CountType, Control, Rooms, DirPlaced, Backups, BackupOf
    <2> QED BY <2>1, <2>2 DEF CountersSound
  <1>5. IInv => BackupDirExact
    BY DEF IInv, DirPlaced, BackupDirExact
  <1> QED BY <1>1, <1>2, <1>3, <1>4, <1>5

\* However writes, renames and removals fail and commits are tried again: a
\* restart finds a complete checkpoint, a commit that gives up has changed
\* nothing of it, one that succeeds is durable, and the counters are right.
THEOREM RetrySafety ==
    ASSUME Steady, OneKind
    PROVE  Spec /\ []CommitsAll =>
             [](Recoverable /\ Undone /\ Durable /\ CountersSound /\ BackupDirExact)
  BY Invariant, Consequences, PTL

----------------------------------------------------------------------------
\* TMcommit is for all BATs, and so are the subcommits of a database of one BAT.
LEMMA AllCommits ==
    ASSUME ~Subcommits \/ \A b, c \in Bats : b = c
    PROVE  Spec => []CommitsAll
  <1>1. Init => CommitsAll
    BY DEF Init, CommitsAll
  <1>2. ASSUME CommitsAll, [Next]_vars
        PROVE  CommitsAll'
    <2>1. CASE Begin(FALSE, Bats) \/ \E S \in (SUBSET Bats) \ {{}} : Begin(TRUE, S)
      <3>1. ASSUME Subcommits, NEW S \in (SUBSET Bats) \ {{}}
            PROVE  S = Bats
        <4>1. S \subseteq Bats /\ S # {}
          OBVIOUS
        <4>2. PICK b \in S : TRUE
          BY <4>1
        <4> QED BY <3>1, <4>1, <4>2
      <3> QED BY <2>1, <3>1 DEF Begin, CommitsAll, Subcommits
    <2>2. CASE Lock
      BY <1>2, <2>2 DEF Lock, CommitsAll
    <2> SUFFICES ASSUME ~(Begin(FALSE, Bats) \/ \E S \in (SUBSET Bats) \ {{}} : Begin(TRUE, S)),
                        ~Lock
                 PROVE  pc' \notin {"lock", "sync"} \/ UNCHANGED <<pc, list>>
      BY <1>2, <2>1, <2>2 DEF CommitsAll
    <2>3. ASSUME NEW b \in Bats, Create(b) \/ Update(b) \/ Delete(b) \/ Undelete(b) \/ Load(b)
               \/ Unload(b) \/ SwapOut(b)
          PROVE  UNCHANGED <<pc, list>>
      BY <2>3 DEF Create, Update, Delete, Undelete, Load, Unload, SwapOut
    <2>4. CASE SwapPrepare \/ SwapMove \/ SwapWrite \/ SwapWritten
      BY <2>4 DEF SwapPrepare, SwapMove, SwapWrite, SwapWritten
    <2>5. ASSUME NEW b \in Bats, Backup(b) \/ Save(b)
          PROVE  pc' \notin {"lock", "sync"} \/ UNCHANGED <<pc, list>>
      BY <2>5 DEF Backup, Save
    <2>6. CASE Sync \/ BackedUp \/ Saved \/ OpenDir \/ WriteDir \/ ReuseDir
      BY <2>6 DEF Sync, BackedUp, Saved, OpenDir, WriteDir, ReuseDir
    <2>7. CASE Switch \/ SwitchAgain \/ Reset \/ RemoveDel \/ Renew \/ Epilogue \/ Failed
      BY <2>7 DEF Switch, SwitchAgain, Reset, RemoveDel, Renew, Epilogue, Failed
    <2>8. CASE Crash \/ Boot \/ RecoverSubdir \/ RecoverDir \/ MoveDir \/ ReadEntries
      BY <2>8 DEF Crash, Boot, RecoverSubdir, RecoverDir, MoveDir, ReadEntries
    <2>9. CASE RecoverHeaps \/ PrepareBoot \/ DiskScan \/ UNCHANGED vars
      BY <2>9 DEF RecoverHeaps, PrepareBoot, DiskScan, vars
    <2> QED BY <1>2, <2>3, <2>4, <2>5, <2>6, <2>7, <2>8, <2>9 DEF Next
  <1> QED BY <1>1, <1>2, PTL DEF Spec

\* TMcommit alone, for any number of BATs and with every way a BAT is changed and
\* swapped out: no failure and no number of attempts loses anything.
THEOREM FullCommitSafety ==
    ASSUME Steady, ~Subcommits
    PROVE  Spec => [](Recoverable /\ Undone /\ Durable)
  <1>1. Spec => []CommitsAll
    BY AllCommits
  <1>2. OneKind
    BY DEF OneKind
  <1>3. Spec /\ []CommitsAll => [](Recoverable /\ Undone /\ Durable)
    BY <1>2, RetrySafety, PTL
  <1> QED BY <1>1, <1>3, PTL

\* Subcommits of one BAT that is swapped out with a delta: its checkpoint
\* survives every failure and every number of attempts.
THEOREM OneBatSafety ==
    ASSUME Steady, OneKind, \A b, c \in Bats : b = c
    PROVE  Spec => [](Recoverable /\ Undone)
  <1>1. Spec => []CommitsAll
    BY AllCommits
  <1>2. Spec /\ []CommitsAll => [](Recoverable /\ Undone)
    BY RetrySafety, PTL
  <1> QED BY <1>1, <1>2, PTL
=============================================================================
