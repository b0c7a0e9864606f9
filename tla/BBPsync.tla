------------------------------ MODULE BBPsync ------------------------------
(***************************************************************************)
(* The checkpoints of the BAT buffer pool: TMcommit, TMsubcommit_list and  *)
(* BBPsync, the backups they keep (gdk_tm.c, gdk_bbp.c), the saving of     *)
(* BATs that are swapped out between and during commits (BBPsave), and     *)
(* what BBPinit does after a crash.  Every rename, removal and write of a  *)
(* file is a step; a crash can come between any two, and in a write.       *)
(*                                                                         *)
(* A BAT has one heap file, and an entry in BBP.dir that describes it.     *)
(* Contents are version numbers: an entry and a heap that fit each other   *)
(* have the same number.  The heaps are of storage STORE_MEM (the .new and *)
(* .kill files of STORE_PRIV and the unprotected STORE_MMAP are left out). *)
(* Renames are atomic and reach the disk in order.                         *)
(*                                                                         *)
(* A BAT in memory may have a delta (DELTAdirty): rows that are not        *)
(* committed.  A commit finds a BAT that is not in memory only if it was   *)
(* swapped out with a delta (BBPSWAPPED).                                  *)
(***************************************************************************)
EXTENDS Naturals, FiniteSets

CONSTANTS Bats,         \* the BAT identifiers
          MaxVersion,   \* bound on the versions of a BAT
          MaxFails,     \* bound on the failing writes
          MaxFiles,     \* no commit or swap begins with more backups counted
          Kinds,        \* the commits: TRUE a subcommit, FALSE one of all BATs
          InPlace,      \* whether a change may leave a BAT without a delta
          Trims,        \* whether BBPtrim may swap out what a subcommit lists
                        \* before that has the trim locks
          NoFile, Torn, \* a file that is not there, a file half written
          NewOids,      \* whether a BAT is created before each commit
          Referenced,   \* whether a MAL variable keeps a logical reference
                        \* to a deleted BAT
          DelStays,     \* whether the removal of DELDIR may fail
          AfterLate     \* whether the server goes on after a commit that was
                        \* done and reported as failed

ASSUME BatsAssumption == IsFiniteSet(Bats) /\ 0 \notin Bats
ASSUME BoundsAssumption == MaxVersion \in Nat \ {0} /\ {MaxFails, MaxFiles} \subseteq Nat
ASSUME ContentAssumption == /\ NoFile # Torn
                            /\ \A x \in {NoFile, Torn} : x \notin Nat /\ x \notin [Bats -> Nat]
ASSUME KindsAssumption == Kinds \subseteq BOOLEAN
ASSUME SwitchAssumption == {InPlace, Trims, NewOids, Referenced, DelStays, AfterLate} \subseteq BOOLEAN

VARIABLES
    batF, bakF, subF,    \* heap files in BATDIR, BAKDIR and SUBDIR
    batD, bakD, subD,    \* BBP.dir in these directories
    bakThere, subThere,  \* BAKDIR and SUBDIR exist
    delThere,            \* DELDIR exists and is not empty
    ver,                 \* the last version given to a BAT
    cur,                 \* the version in memory
    status,              \* BBP_status: "none", "NEW", "EXISTING", "DELETED"
    dirty,               \* BATdirty
    unaligned,           \* halign or talign is 0
    loaded,              \* BBP_cache # NULL
    delta,               \* DELTAdirty
    swapped,             \* BBPSWAPPED
    bbpDirty, oidDirty,  \* BBP_dirty; OIDdirty()
    backupDir, backupFiles, backupSubdir,
    pc,                  \* where the commit, or the restart, is
    sub, list,           \* a subcommit?  the BATs it commits
    left,                \* the BATs the current loop has left
    bbpd,                \* the local bbpdirty of BBPsync
    saving,              \* the BAT phase 2 is writing, or 0
    spc, sbat,           \* where BBPsave is, and for which BAT
    fails,               \* failures so far
    before               \* the checkpoint when the commit began

diskF  == <<batF, bakF, subF>>
diskD  == <<batD, bakD, subD>>
dirs   == <<bakThere, subThere, delThere>>
memory == <<ver, cur, status, dirty, unaligned, loaded, delta, swapped>>
flags  == <<bbpDirty, oidDirty>>
backup == <<backupDir, backupFiles, backupSubdir>>
commit == <<sub, list, left, bbpd, saving, before>>
swap   == <<spc, sbat>>
vars == <<diskF, diskD, dirs, memory, flags, backup, pc, commit, swap, fails>>

Persistent(b) == status[b] \in {"EXISTING", "NEW"}

\* The entry new_bbpentry writes for b: only persistent BATs have one.
Entry(b) == IF Persistent(b) THEN cur[b] ELSE 0

(***************************************************************************)
(* What a restart makes of the disk: the BBP.dir and the heaps nearest to  *)
(* the last commit, where SUBDIR overrides BAKDIR and BAKDIR overrides     *)
(* BATDIR; and per BAT the version, or Torn if heap and entry do not fit.  *)
(***************************************************************************)
Overlay(s, k, t) == IF s # NoFile THEN s ELSE IF k # NoFile THEN k ELSE t
RecoveredDir == Overlay(subD, bakD, batD)
RecoveredFile(b) == Overlay(subF[b], bakF[b], batF[b])
Recovered ==
    [b \in Bats |-> IF RecoveredDir \in {NoFile, Torn} THEN Torn
                    ELSE IF RecoveredDir[b] = 0 THEN 0
                    ELSE IF RecoveredFile(b) = RecoveredDir[b] THEN RecoveredDir[b]
                    ELSE Torn]

\* A database directory just created, with the empty BBP.dir of BBPinit.
Init ==
    /\ batF = [b \in Bats |-> NoFile] /\ bakF = batF /\ subF = batF
    /\ batD = [b \in Bats |-> 0] /\ bakD = NoFile /\ subD = NoFile
    /\ bakThere = FALSE /\ subThere = FALSE /\ delThere = FALSE
    /\ ver = [b \in Bats |-> 0] /\ cur = ver
    /\ status = [b \in Bats |-> "none"]
    /\ dirty = [b \in Bats |-> FALSE] /\ unaligned = dirty
    /\ loaded = dirty /\ delta = dirty /\ swapped = dirty
    /\ bbpDirty = FALSE /\ oidDirty = FALSE
    /\ backupDir = 0 /\ backupFiles = 0 /\ backupSubdir = 0
    /\ pc = "boot" /\ sub = FALSE /\ list = {} /\ left = {} /\ bbpd = FALSE
    /\ saving = 0 /\ before = [b \in Bats |-> 0]
    /\ spc = "none" /\ sbat = 0
    /\ fails = 0

Move(dst, src, b) == [dst EXCEPT ![b] = src[b]]
Drop(src, b) == [src EXCEPT ![b] = NoFile]

----------------------------------------------------------------------------
(***************************************************************************)
(* BBPprepare, under GDKtmLock.  backup_dir says where BBP.dir is kept: 0  *)
(* in BATDIR, 1 in BAKDIR, 2 in SUBDIR.  The recoveries it starts with,    *)
(* when a counter is 0, find nothing to move: see CountersSound.           *)
(***************************************************************************)
PrepareFrom == IF backupFiles = 0 THEN 0 ELSE backupDir
PrepareTo(s) == IF s THEN 2 ELSE 1
PrepareSource == IF PrepareFrom = 0 THEN batD ELSE bakD
MakesBak == backupFiles = 0
StartsSub(s) == s /\ backupSubdir = 0
MakesSub(s) == StartsSub(s) /\ (bakThere \/ MakesBak)
Target(s) == IF s THEN subThere \/ MakesSub(s) ELSE bakThere \/ MakesBak

PrepareWorks(s) ==
    /\ StartsSub(s) => MakesSub(s)
    /\ PrepareFrom = PrepareTo(s) \/ (PrepareSource # NoFile /\ Target(s))

\* The directories, and BBP.dir.
PrepareDisk(s) ==
    /\ bakThere' = (bakThere \/ MakesBak)
    /\ subThere' = (subThere \/ MakesSub(s))
    /\ UNCHANGED delThere
    /\ backupDir' = IF PrepareWorks(s) THEN PrepareTo(s) ELSE PrepareFrom
    /\ IF PrepareFrom = PrepareTo(s) \/ ~PrepareWorks(s) THEN UNCHANGED diskD
       ELSE /\ batD' = IF PrepareFrom = 0 THEN NoFile ELSE batD
            /\ bakD' = IF ~s THEN PrepareSource ELSE IF PrepareFrom = 0 THEN bakD ELSE NoFile
            /\ subD' = IF s THEN PrepareSource ELSE subD

Prepare(s) ==
    /\ PrepareWorks(s)
    /\ PrepareDisk(s)
    /\ backupFiles' = backupFiles + 1
    /\ backupSubdir' = IF s THEN backupSubdir + 1 ELSE backupSubdir

PrepareFails(s) ==
    /\ ~PrepareWorks(s)
    /\ PrepareDisk(s)
    /\ UNCHANGED <<backupFiles, backupSubdir>>

----------------------------------------------------------------------------
(***************************************************************************)
(* The users of the BATs.  A commit of all BATs holds the BBP lock; on the *)
(* BATs of a subcommit "we assume exclusive access".                       *)
(***************************************************************************)
Up == pc \notin {"boot", "subdir", "dir", "move", "read", "heaps", "prepare", "scan"}
Free(b) == /\ Up
           /\ pc # "idle" => sub /\ b \notin list
           /\ sbat # b

\* A BAT someone refers to; the others are on their way out.
InUse(b) == Persistent(b) \/ (Referenced /\ status[b] = "DELETED")

\* A new value.  It leaves no delta when it is put in place of the old one
\* (BUNinplace) or when its rows are committed at once (BATcommit).
NewVersion(b) ==
    /\ ver[b] < MaxVersion
    /\ ver' = [ver EXCEPT ![b] = @ + 1]
    /\ cur' = [cur EXCEPT ![b] = ver[b] + 1]
    /\ dirty' = [dirty EXCEPT ![b] = TRUE]
    /\ \E d \in BOOLEAN : (d \/ InPlace) /\ delta' = [delta EXCEPT ![b] = d]

\* A new BAT takes its alignment from OIDnew, and BATmode makes it persistent.
Create(b) ==
    /\ Free(b)
    /\ status[b] = "none"
    /\ NewVersion(b)
    /\ status' = [status EXCEPT ![b] = "NEW"]
    /\ unaligned' = [unaligned EXCEPT ![b] = FALSE]
    /\ loaded' = [loaded EXCEPT ![b] = TRUE]
    /\ bbpDirty' = TRUE /\ oidDirty' = TRUE
    /\ UNCHANGED <<diskF, diskD, dirs, swapped, backup, pc, commit, swap, fails>>

\* Appends and updates clear the alignment.
Update(b) ==
    /\ Free(b)
    /\ loaded[b] /\ InUse(b)
    /\ NewVersion(b)
    /\ unaligned' = [unaligned EXCEPT ![b] = TRUE]
    /\ UNCHANGED <<diskF, diskD, dirs, status, loaded, swapped, flags, backup, pc, commit, swap, fails>>

\* b leaves memory, with all that is known of it.
Forget(b) ==
    /\ dirty' = [dirty EXCEPT ![b] = FALSE]
    /\ loaded' = [loaded EXCEPT ![b] = FALSE]
    /\ delta' = [delta EXCEPT ![b] = FALSE]
    /\ swapped' = [swapped EXCEPT ![b] = FALSE]

\* BATmode(b, TRANSIENT).  A BAT no checkpoint has seen is destroyed with
\* its file.
Delete(b) ==
    /\ Free(b)
    /\ loaded[b]
    /\ \/ /\ status[b] = "EXISTING"
          /\ status' = [status EXCEPT ![b] = "DELETED"]
          /\ UNCHANGED <<batF, dirty, loaded, delta, swapped>>
       \/ /\ status[b] = "NEW"
          /\ status' = [status EXCEPT ![b] = "none"]
          /\ Forget(b)
          /\ batF' = IF Referenced THEN batF ELSE Drop(batF, b)
    /\ bbpDirty' = TRUE
    /\ UNCHANGED <<bakF, subF, diskD, dirs, ver, cur, unaligned, oidDirty, backup, pc, commit, swap, fails>>

\* BATmode(b, PERSISTENT) on a deleted BAT.
Undelete(b) ==
    /\ Free(b)
    /\ loaded[b] /\ status[b] = "DELETED"
    /\ status' = [status EXCEPT ![b] = "EXISTING"]
    /\ bbpDirty' = TRUE
    /\ UNCHANGED <<diskF, diskD, dirs, ver, cur, dirty, unaligned, loaded, delta, swapped, oidDirty, backup, pc, commit, swap, fails>>

\* BATload_intern.
Load(b) ==
    /\ Free(b)
    /\ ~loaded[b] /\ InUse(b)
    /\ loaded' = [loaded EXCEPT ![b] = TRUE]
    /\ UNCHANGED <<diskF, diskD, dirs, ver, cur, status, dirty, unaligned, delta, swapped, flags, backup, pc, commit, swap, fails>>

----------------------------------------------------------------------------
(***************************************************************************)
(* BBPfree, of BBPtrim or BBPdecref: a dirty BAT is saved (BBPsave), then  *)
(* it leaves memory.  Only BBPtrim touches the BATs of a subcommit, and    *)
(* only until that has the trim locks; it may be busy with one when the    *)
(* subcommit begins.                                                       *)
(***************************************************************************)
Trimmable(b) == Free(b) \/ (Trims /\ pc = "lock" /\ sbat # b)

\* BBPfree of a clean BAT; the descriptor, with the delta, stays.
Unload(b) ==
    /\ Trimmable(b)
    /\ loaded[b] /\ ~dirty[b]
    /\ loaded' = [loaded EXCEPT ![b] = FALSE]
    /\ UNCHANGED <<diskF, diskD, dirs, ver, cur, status, dirty, unaligned, delta, swapped, flags, backup, pc, commit, swap, fails>>

\* BBPsave, which other callers than BBPfree end with: only a BAT with a delta
\* becomes BBPSWAPPED, and makes BBP.dir dirty.
NeverSwapped(b) == UNCHANGED <<swapped, bbpDirty>>   \* mutant
MarkSwapped(b) ==
    /\ swapped' = [swapped EXCEPT ![b] = @ \/ delta[b]]
    /\ bbpDirty' = (bbpDirty \/ delta[b])

SwapOut(b) ==
    /\ Trimmable(b)
    /\ spc = "none" /\ backupFiles < MaxFiles
    /\ dirty[b] /\ InUse(b)
    /\ sbat' = b
    /\ MarkSwapped(b)
    /\ spc' = IF status[b] = "EXISTING" THEN "prepare" ELSE "write"
    /\ UNCHANGED <<diskF, diskD, dirs, ver, cur, status, dirty, unaligned, loaded, delta, oidDirty, backup, pc, commit, fails>>

\* BBPbackup(b, FALSE): when BBP.dir is in SUBDIR this fails, and the BAT
\* stays in memory.
SwapPrepare ==
    /\ spc = "prepare"
    /\ \/ /\ Prepare(FALSE)
          /\ spc' = "move"
          /\ UNCHANGED sbat
       \/ /\ PrepareFails(FALSE)
          /\ spc' = "none"
          /\ sbat' = 0
    /\ UNCHANGED <<diskF, memory, flags, pc, commit, fails>>

\* do_backup: the committed heap moves to BAKDIR unless one is there.
SwapMove ==
    /\ spc = "move"
    /\ \/ /\ bakF[sbat] = NoFile /\ bakThere
          /\ bakF' = Move(bakF, batF, sbat) /\ batF' = Drop(batF, sbat)
          /\ spc' = "write"
          /\ UNCHANGED sbat
       \/ /\ bakF[sbat] # NoFile \/ batF[sbat] = NoFile
          /\ spc' = "write"
          /\ UNCHANGED <<bakF, batF, sbat>>
       \/ /\ ~bakThere /\ batF[sbat] # NoFile
          /\ spc' = "none" /\ sbat' = 0
          /\ UNCHANGED <<bakF, batF>>
    /\ UNCHANGED <<subF, diskD, dirs, memory, flags, backup, pc, commit, fails>>

\* BATsave, in two steps.
SwapWrite ==
    /\ spc = "write"
    /\ batF' = [batF EXCEPT ![sbat] = Torn]
    /\ spc' = "written"
    /\ UNCHANGED <<bakF, subF, diskD, dirs, memory, flags, backup, pc, commit, sbat, fails>>

SwapWritten ==
    /\ spc = "written"
    /\ batF' = [batF EXCEPT ![sbat] = cur[sbat]]
    /\ dirty' = [dirty EXCEPT ![sbat] = FALSE]
    /\ unaligned' = [unaligned EXCEPT ![sbat] = FALSE]
    /\ oidDirty' = (oidDirty \/ unaligned[sbat])
    /\ spc' = "none" /\ sbat' = 0
    /\ UNCHANGED <<bakF, subF, diskD, dirs, ver, cur, status, loaded, delta, swapped, bbpDirty, backup, pc, commit, fails>>

----------------------------------------------------------------------------
(***************************************************************************)
(* TMcommit and TMsubcommit_list: the prelude, then BBPsync                *)
(***************************************************************************)

\* prelude: BATcommit ends the deltas and gives the BATs their alignment back,
\* with OIDs; it sees those in memory and the BBPSWAPPED ones.  TMcommit has
\* taken all locks before.
EndsDelta(b, S) == b \in S /\ Persistent(b) /\ (loaded[b] \/ swapped[b])
Begin(s, S) ==
    /\ pc = "idle" /\ backupFiles < MaxFiles
    /\ s \in Kinds
    /\ IF s THEN Trims \/ sbat \notin S ELSE spc = "none" /\ S = Bats
    /\ sub' = s /\ list' = S
    /\ unaligned' = [b \in Bats |-> unaligned[b] /\ ~EndsDelta(b, S)]
    /\ delta' = [b \in Bats |-> delta[b] /\ ~EndsDelta(b, S)]
    /\ oidDirty' = (oidDirty \/ NewOids \/ \E b \in S : unaligned[b] /\ EndsDelta(b, S))
    /\ before' = Recovered
    /\ pc' = IF s THEN "lock" ELSE "sync"
    /\ UNCHANGED <<diskF, diskD, dirs, ver, cur, status, dirty, loaded, swapped, bbpDirty, backup, left, bbpd, saving, swap, fails>>

\* TMsubcommit_list takes the trim locks, which BBPtrim holds while it swaps
\* a BAT out.
Lock ==
    /\ pc = "lock"
    /\ sbat \notin list
    /\ pc' = "sync"
    /\ UNCHANGED <<diskF, diskD, dirs, memory, flags, backup, commit, swap, fails>>

\* BBPprepare(subcommit), and bbpdirty.
Sync ==
    /\ pc = "sync"
    /\ \/ Prepare(sub) /\ pc' = "phase1"
       \/ PrepareFails(sub) /\ pc' = "failed"
    /\ bbpd' = (bbpDirty \/ oidDirty)
    /\ bbpDirty' = (bbpDirty \/ oidDirty)
    /\ left' = list
    /\ UNCHANGED <<diskF, memory, oidDirty, sub, list, saving, before, swap, fails>>

\* PHASE 1, BBPbackup and do_backup for one BAT.  The move into a directory
\* that is not there fails.
\*
\* dirty_bat finds a BAT in memory, or the descriptor of a BBPSWAPPED one; of
\* the latter a commit of all BATs needs only a count.
Returned(b) == IF loaded[b] THEN sub \/ dirty[b] ELSE swapped[b]
NotFromBak(b) == FALSE   \* mutant: the backup of a swapped BAT is forgotten
FromBak(b) == /\ sub /\ bakF[b] # NoFile
              /\ (status[b] = "EXISTING" /\ Returned(b)) \/ status[b] = "DELETED"
NoBackup(b) == FALSE     \* mutant: no backup
OverwriteBackup(b) ==    \* mutant: over a backup that is there
    status[b] = "EXISTING" /\ dirty[b] /\ batF[b] # NoFile
FromBat(b) == /\ status[b] = "EXISTING" /\ dirty[b] /\ batF[b] # NoFile
              /\ IF sub THEN subF[b] = NoFile /\ bakF[b] = NoFile ELSE bakF[b] = NoFile
BackupFails(b) ==
    /\ ~(IF sub THEN subThere ELSE bakThere)
    /\ status[b] = "EXISTING"
    /\ FromBak(b) \/ FromBat(b)

BackupTo(b) ==
    \/ /\ FromBak(b) /\ subThere
       /\ subF' = Move(subF, bakF, b) /\ bakF' = Drop(bakF, b) /\ UNCHANGED batF
    \/ /\ FromBat(b) /\ sub
       /\ subF' = Move(subF, batF, b) /\ batF' = Drop(batF, b) /\ UNCHANGED bakF
    \/ /\ FromBat(b) /\ ~sub
       /\ bakF' = Move(bakF, batF, b) /\ batF' = Drop(batF, b) /\ UNCHANGED subF
    \/ /\ ~(FromBak(b) /\ subThere) /\ ~FromBat(b)
       /\ UNCHANGED diskF

\* Each BBPbackup goes through BBPprepare again, which only counts.
Counts(b) == status[b] = "EXISTING" /\ Returned(b)

Backup(b) ==
    /\ pc = "phase1"
    /\ b \in left
    /\ backupFiles' = IF Counts(b) THEN backupFiles + 1 ELSE backupFiles
    /\ backupSubdir' = IF sub /\ Counts(b) THEN backupSubdir + 1 ELSE backupSubdir
    /\ \/ /\ ~BackupFails(b)
          /\ BackupTo(b)
          /\ left' = left \ {b}
          /\ UNCHANGED pc
       \/ /\ BackupFails(b)
          /\ pc' = "failed"
          /\ UNCHANGED <<diskF, left>>
    /\ UNCHANGED <<diskD, dirs, memory, flags, backupDir, sub, list, bbpd, saving, before, swap, fails>>

BackedUp ==
    /\ pc = "phase1"
    /\ left = {}
    /\ left' = {b \in list : Persistent(b) /\ dirty[b]}
    /\ pc' = "phase2"
    /\ UNCHANGED <<diskF, diskD, dirs, memory, flags, backup, sub, list, bbpd, saving, before, swap, fails>>

\* PHASE 2, BATsave for one BAT: the heap is half written before it is whole.
Save(b) ==
    /\ pc = "phase2" /\ saving = 0
    /\ b \in left
    /\ batF' = [batF EXCEPT ![b] = Torn]
    /\ left' = left \ {b}
    /\ saving' = b
    /\ UNCHANGED <<bakF, subF, diskD, dirs, memory, flags, backup, pc, sub, list, bbpd, before, swap, fails>>

Saved ==
    /\ pc = "phase2" /\ saving # 0
    /\ \/ /\ batF' = [batF EXCEPT ![saving] = cur[saving]]
          /\ dirty' = [dirty EXCEPT ![saving] = FALSE]
          /\ UNCHANGED <<pc, fails>>
       \/ /\ fails < MaxFails /\ fails' = fails + 1
          /\ pc' = "failed"
          /\ UNCHANGED <<batF, dirty>>
    /\ saving' = 0
    /\ UNCHANGED <<bakF, subF, diskD, dirs, ver, cur, status, unaligned, loaded, delta, swapped, flags, backup, sub, list, left, bbpd, before, swap>>

\* BBPdir opens BBP.dir for writing and flushes the OIDs with the header.
OpenDir ==
    /\ pc = "phase2" /\ left = {} /\ saving = 0 /\ bbpd
    /\ batD' = Torn
    /\ oidDirty' = FALSE
    /\ pc' = "writedir"
    /\ UNCHANGED <<diskF, bakD, subD, dirs, memory, bbpDirty, backup, commit, swap, fails>>

\* A subcommit copies the entries of the other BATs from the backup, without
\* which it is fatal: the server ends, as in a crash.
OldDir == IF subThere /\ subD # NoFile THEN subD ELSE bakD
StaleDir ==              \* mutant: every entry is copied
    [b \in Bats |-> IF sub THEN OldDir[b] ELSE Entry(b)]
NewDir == [b \in Bats |-> IF sub /\ b \notin list THEN OldDir[b] ELSE Entry(b)]

WriteDir ==
    /\ pc = "writedir"
    /\ sub => OldDir # NoFile
    /\ \/ batD' = NewDir /\ pc' = "rename" /\ UNCHANGED fails
       \/ fails < MaxFails /\ fails' = fails + 1 /\ pc' = "failed" /\ UNCHANGED batD
    /\ UNCHANGED <<diskF, bakD, subD, dirs, memory, flags, backup, commit, swap>>

\* Mutant: BBP.dir is left in the backup.
ReuseNothing ==
    /\ pc = "phase2" /\ left = {} /\ saving = 0 /\ ~bbpd
    /\ backupDir' = 0
    /\ pc' = "rename"
    /\ UNCHANGED <<diskF, diskD, dirs, memory, flags, backupFiles, backupSubdir, commit, swap, fails>>

\* Nothing in BBP.dir changed: the old one is moved back.
ReuseDir ==
    /\ pc = "phase2" /\ left = {} /\ saving = 0 /\ ~bbpd
    /\ \/ /\ batD' = IF backupDir = 1 THEN bakD ELSE subD
          /\ bakD' = IF backupDir = 1 THEN NoFile ELSE bakD
          /\ subD' = IF backupDir = 1 THEN subD ELSE NoFile
          /\ backupDir' = 0
          /\ pc' = "rename"
          /\ UNCHANGED fails
       \/ /\ fails < MaxFails /\ fails' = fails + 1
          /\ pc' = "failed"
          /\ UNCHANGED <<diskD, backupDir>>
    /\ UNCHANGED <<diskF, dirs, memory, flags, backupFiles, backupSubdir, commit, swap>>

\* The rename of the backup directory to DELDIR, the commit.
Rename ==
    /\ subF' = [b \in Bats |-> NoFile] /\ subD' = NoFile /\ subThere' = FALSE
    /\ IF sub
       THEN /\ delThere' = (subD # NoFile \/ \E b \in Bats : subF[b] # NoFile)
            /\ UNCHANGED <<bakF, bakD, bakThere>>
       ELSE /\ delThere' = (subThere \/ bakD # NoFile \/ \E b \in Bats : bakF[b] # NoFile)
            /\ bakF' = [b \in Bats |-> NoFile] /\ bakD' = NoFile /\ bakThere' = FALSE

RenameWorks == (IF sub THEN subThere ELSE bakThere) /\ ~delThere

Switch ==
    /\ pc = "rename"
    /\ RenameWorks
    /\ Rename
    /\ pc' = "reset"
    /\ UNCHANGED <<batF, batD, memory, flags, backup, commit, swap, fails>>

\* The rename failed: perhaps an old DELDIR is in the way.  It is removed and
\* the rename is tried again, but ret keeps the result of the first attempt.
SwitchAgain ==
    /\ pc = "rename"
    /\ ~RenameWorks
    /\ \/ /\ IF sub THEN subThere ELSE bakThere
          /\ Rename
          /\ pc' = "late"
       \/ /\ ~(IF sub THEN subThere ELSE bakThere)
          /\ delThere' = FALSE
          /\ pc' = "failed"
          /\ UNCHANGED <<bakF, subF, bakD, subD, bakThere, subThere>>
       \/ /\ DelStays /\ delThere
          /\ pc' = "failed"
          /\ UNCHANGED <<bakF, subF, bakD, subD, dirs>>
    /\ UNCHANGED <<batF, batD, memory, flags, backup, commit, swap, fails>>

\* AFTERMATH: the flag and the counters.
ResetAll == backupFiles' = 0 /\ backupDir' = 0 /\ backupSubdir' = 0   \* mutant
ResetHalf ==                                                         \* mutant
    /\ backupFiles' = IF sub THEN backupFiles - backupSubdir ELSE 0
    /\ backupSubdir' = 0 /\ UNCHANGED backupDir
ResetCounters ==
    /\ backupFiles' = IF sub THEN backupFiles - backupSubdir ELSE 0
    /\ backupDir' = 0 /\ backupSubdir' = 0

Reset ==
    /\ pc = "reset"
    /\ bbpDirty' = FALSE
    /\ ResetCounters
    /\ pc' = "remove"
    /\ UNCHANGED <<diskF, diskD, dirs, memory, oidDirty, commit, swap, fails>>

RemoveDel ==
    /\ pc = "remove"
    /\ \/ delThere' = FALSE
       \/ DelStays /\ UNCHANGED delThere
    /\ pc' = "renew"
    /\ UNCHANGED <<diskF, diskD, bakThere, subThere, memory, flags, backup, commit, swap, fails>>

\* BBPprepare(0), and the cap on backup_files.
Renew ==
    /\ pc = "renew"
    /\ PrepareDisk(FALSE)
    /\ backupFiles' = IF PrepareWorks(FALSE) \/ backupFiles > 1 THEN 1 ELSE backupFiles
    /\ pc' = "epilogue"
    /\ UNCHANGED <<diskF, memory, flags, backupSubdir, commit, swap, fails>>

\* epilogue: the status of the BATs after the commit; the deleted ones go, no
\* listed one is BBPSWAPPED any more.
Leaves(b) == b \in list /\ ~Persistent(b)
Epilogue ==
    /\ pc = "epilogue"
    /\ status' = [b \in Bats |-> IF b \notin list THEN status[b]
                                 ELSE IF Persistent(b) THEN "EXISTING" ELSE "none"]
    /\ batF' = [b \in Bats |-> IF b \in list /\ status[b] = "DELETED" /\ ~Referenced
                                THEN NoFile ELSE batF[b]]
    /\ dirty' = [b \in Bats |-> dirty[b] /\ ~Leaves(b)]
    /\ loaded' = [b \in Bats |-> loaded[b] /\ ~Leaves(b)]
    /\ delta' = [b \in Bats |-> delta[b] /\ ~Leaves(b)]
    /\ swapped' = [b \in Bats |-> swapped[b] /\ b \notin list]
    /\ pc' = "idle"
    /\ UNCHANGED <<bakF, subF, diskD, dirs, ver, cur, unaligned, flags, backup, commit, swap, fails>>

\* BBPsync answers GDK_FAIL and leaves everything as it is.
Failed ==
    /\ pc \in IF AfterLate THEN {"failed", "late"} ELSE {"failed"}
    /\ pc' = "idle"
    /\ UNCHANGED <<diskF, diskD, dirs, memory, flags, backup, commit, swap, fails>>

----------------------------------------------------------------------------
(***************************************************************************)
(* A crash, and BBPinit                                                    *)
(***************************************************************************)
Crash ==
    /\ pc' = "boot"
    /\ cur' = [b \in Bats |-> 0]
    /\ status' = [b \in Bats |-> "none"]
    /\ dirty' = [b \in Bats |-> FALSE]
    /\ unaligned' = [b \in Bats |-> FALSE]
    /\ loaded' = [b \in Bats |-> FALSE]
    /\ delta' = [b \in Bats |-> FALSE]
    /\ swapped' = [b \in Bats |-> FALSE]
    /\ bbpDirty' = FALSE /\ oidDirty' = FALSE
    /\ backupDir' = 0 /\ backupFiles' = 0 /\ backupSubdir' = 0
    /\ sub' = FALSE /\ list' = {} /\ left' = {} /\ bbpd' = FALSE
    /\ saving' = 0 /\ before' = [b \in Bats |-> 0]
    /\ spc' = "none" /\ sbat' = 0
    /\ UNCHANGED <<diskF, diskD, dirs, ver, fails>>

Boot ==
    /\ pc = "boot"
    /\ \/ delThere' = FALSE
       \/ DelStays /\ UNCHANGED delThere
    /\ pc' = "subdir"
    /\ UNCHANGED <<diskF, diskD, bakThere, subThere, memory, flags, backup, commit, swap, fails>>

\* BBPrecover_subdir: all files of SUBDIR back to BAKDIR, in any order.
RecoverSubdir ==
    /\ pc = "subdir"
    /\ \/ \E b \in Bats : /\ subF[b] # NoFile
                          /\ bakF' = Move(bakF, subF, b) /\ subF' = Drop(subF, b)
                          /\ UNCHANGED <<bakD, subD, subThere, pc>>
       \/ /\ subD # NoFile
          /\ bakD' = subD /\ subD' = NoFile
          /\ UNCHANGED <<bakF, subF, subThere, pc>>
       \/ /\ subD = NoFile /\ \A b \in Bats : subF[b] = NoFile
          /\ subThere' = FALSE
          /\ pc' = "dir"
          /\ UNCHANGED <<bakF, subF, bakD, subD>>
    /\ UNCHANGED <<batF, batD, bakThere, delThere, memory, flags, backup, commit, swap, fails>>

\* recover_dir: the present BBP.dir becomes BBP.bak, then the backup returns.
RecoverDir ==
    /\ pc = "dir"
    /\ IF bakD # NoFile THEN batD' = NoFile /\ pc' = "move"
       ELSE pc' = "read" /\ UNCHANGED batD
    /\ UNCHANGED <<diskF, bakD, subD, dirs, memory, flags, backup, commit, swap, fails>>

MoveDir ==
    /\ pc = "move"
    /\ batD' = bakD /\ bakD' = NoFile
    /\ pc' = "read"
    /\ UNCHANGED <<diskF, subD, dirs, memory, flags, backup, commit, swap, fails>>

\* BBPreadEntries; a BBP.dir that cannot be read is fatal.
ReadEntries ==
    /\ pc = "read"
    /\ batD \notin {NoFile, Torn}
    /\ cur' = batD
    /\ status' = [b \in Bats |-> IF batD[b] # 0 THEN "EXISTING" ELSE "none"]
    /\ pc' = "heaps"
    /\ UNCHANGED <<diskF, diskD, dirs, ver, dirty, unaligned, loaded, delta, swapped, flags, backup, commit, swap, fails>>

\* BBPrecover: the heaps of known BATs go back to BATDIR, others to LEFTDIR.
RecoverHeaps ==
    /\ pc = "heaps"
    /\ \/ \E b \in Bats : /\ bakF[b] # NoFile
                          /\ bakF' = Drop(bakF, b)
                          /\ batF' = IF status[b] # "none" THEN Move(batF, bakF, b) ELSE batF
                          /\ UNCHANGED <<bakThere, pc>>
       \/ /\ \A b \in Bats : bakF[b] = NoFile
          /\ bakThere' = FALSE
          /\ pc' = "prepare"
          /\ UNCHANGED <<batF, bakF>>
    /\ UNCHANGED <<subF, diskD, subThere, delThere, memory, flags, backup, commit, swap, fails>>

PrepareBoot ==
    /\ pc = "prepare"
    /\ Prepare(FALSE)
    /\ pc' = "scan"
    /\ UNCHANGED <<diskF, memory, flags, commit, swap, fails>>

\* BBPdiskscan removes what belongs to no BAT.
DiskScan ==
    /\ pc = "scan"
    /\ batF' = [b \in Bats |-> IF status[b] = "none" THEN NoFile ELSE batF[b]]
    /\ pc' = "idle"
    /\ UNCHANGED <<bakF, subF, diskD, dirs, memory, flags, backup, commit, swap, fails>>

----------------------------------------------------------------------------
Next ==
    \/ \E b \in Bats : Create(b) \/ Update(b) \/ Delete(b) \/ Undelete(b) \/ Load(b)
    \/ \E b \in Bats : Unload(b) \/ SwapOut(b)
    \/ SwapPrepare \/ SwapMove \/ SwapWrite \/ SwapWritten
    \/ Begin(FALSE, Bats)
    \/ \E S \in (SUBSET Bats) \ {{}} : Begin(TRUE, S)
    \/ Lock \/ Sync \/ (\E b \in Bats : Backup(b)) \/ BackedUp
    \/ (\E b \in Bats : Save(b)) \/ Saved
    \/ OpenDir \/ WriteDir \/ ReuseDir \/ Switch \/ SwitchAgain
    \/ Reset \/ RemoveDel \/ Renew \/ Epilogue \/ Failed
    \/ Crash
    \/ Boot \/ RecoverSubdir \/ RecoverDir \/ MoveDir \/ ReadEntries
    \/ RecoverHeaps \/ PrepareBoot \/ DiskScan

Spec == Init /\ [][Next]_vars

----------------------------------------------------------------------------
(***************************************************************************)
(* Properties                                                              *)
(***************************************************************************)
Heaps == {NoFile, Torn} \cup (1..MaxVersion)
Dirs == {NoFile, Torn} \cup [Bats -> 0..MaxVersion]

\* The shape of the directories and of the administration in memory.
TypeOK ==
    /\ batF \in [Bats -> Heaps] /\ bakF \in [Bats -> Heaps] /\ subF \in [Bats -> Heaps]
    /\ batD \in Dirs /\ bakD \in Dirs \ {Torn} /\ subD \in Dirs \ {Torn}
    /\ {bakThere, subThere, delThere} \subseteq BOOLEAN
    /\ ver \in [Bats -> 0..MaxVersion] /\ cur \in [Bats -> 0..MaxVersion]
    /\ status \in [Bats -> {"none", "NEW", "EXISTING", "DELETED"}]
    /\ dirty \in [Bats -> BOOLEAN] /\ unaligned \in [Bats -> BOOLEAN]
    /\ loaded \in [Bats -> BOOLEAN]
    /\ delta \in [Bats -> BOOLEAN] /\ swapped \in [Bats -> BOOLEAN]
    /\ bbpDirty \in BOOLEAN /\ oidDirty \in BOOLEAN
    /\ backupDir \in 0..2 /\ backupFiles \in Nat /\ backupSubdir \in Nat
    /\ sub \in BOOLEAN /\ list \in SUBSET Bats /\ left \in SUBSET Bats
    /\ bbpd \in BOOLEAN
    /\ sbat \in Bats \cup {0} /\ saving \in Bats \cup {0}
    /\ fails \in 0..MaxFails

\* "If something fails, the pre-sync status can be obtained by moving back all
\* backed up files": at every moment a restart finds a heap that fits its
\* entry for every BAT of the checkpoint, whatever the commit, the swapping
\* and an earlier restart have done.
Recoverable == \A b \in Bats : Recovered[b] # Torn

\* A BBP.dir, whole or not, is always in one of the three directories, also
\* after failures of every kind: without one BBPinit takes the database for a
\* new one and makes it empty.
DirKept == RecoveredDir # NoFile

\* BBPsync answers success only when a restart would find the current state
\* of every BAT it was to commit ...
Durable == pc = "epilogue" => \A b \in list : Recovered[b] = Entry(b)

\* When BBPsync gives up, a restart would find what it would have found before
\* the commit.  ("late" is not giving up: there the second attempt at the
\* rename made the commit, and the caller is told that it failed.)
Undone == pc = "failed" => Recovered = before

\* backup_dir tells where BBP.dir is when a commit may begin, so that the next
\* commit finds it.
BackupDirExact ==
    pc = "idle" => /\ (backupDir = 1) <=> (bakD # NoFile)
                   /\ (backupDir = 2) <=> (subD # NoFile)

\* backup_files and backup_subdir are 0 only when there is nothing in BAKDIR
\* and SUBDIR: otherwise BBPprepare would take the recovery path of a restart
\* in a running server and put old heaps over new ones.
CountersSound ==
    Up => /\ backupFiles = 0 =>
                bakD = NoFile /\ subD = NoFile /\ \A b \in Bats : bakF[b] = NoFile
          /\ backupSubdir = 0 => subD = NoFile /\ \A b \in Bats : subF[b] = NoFile

\* The states of the server that a restart has not reached yet are those of
\* the checkpoint.
Running == Up \/ pc \in {"heaps", "prepare", "scan"}
Abstract == INSTANCE Checkpoint WITH
                ckpt <- Recovered,
                current <- [b \in Bats |-> IF Running THEN Entry(b) ELSE Recovered[b]]

\* Commits are atomic: the protocol implements Checkpoint, where a commit is
\* one step and a restart returns to the last one.
ImplementsCheckpoint == Abstract!Spec
=============================================================================
