---------------------------- MODULE LoggerProofs ----------------------------
(***************************************************************************)
(* The control of the logger for any columns, changes and bounds: the      *)
(* switches of the log file, their cleanup and the restarts never meet a   *)
(* LOGFILE or a list of old files that is not as it should be (NeverFatal).*)
(***************************************************************************)
EXTENDS Logger, TLAPS

\* store_manager holds off other switches until it has cleaned up, and there is
\* no crash between the first LOGFILE and the first catalog.
Guarded == ~Overlap /\ "first" \notin Windows

\* Where the thread with the lock is: in a transaction or between them, in a
\* switch before and after the new file is named, in a cleanup.
Working   == {"ready", "sequence", "tend", "flush", "apply"}
Switching == {"exit", "moved", "created", "committed", "listed"}
Opening   == {"open", "seqs"}
Cleaning  == {"files", "bak", "unlock"}

Ids == Nat \ {0}

\* The id a restart reads: LOGFILE.bak comes first.
Named == IF logbak = NoFile THEN log ELSE logbak

\* A catalog and an id are there both, or none of them.
Restartable ==
    /\ base.made \in BOOLEAN /\ "made" \in DOMAIN base
    /\ IF base.made THEN Named \in Ids
       ELSE pc = "first" \/ (log = NoFile /\ logbak = NoFile)

\* LOGFILE and LOGFILE.bak at each place of a switch and of a restart.
Placed ==
    /\ pc = "restore" => logbak # NoFile
    /\ pc = "load" => logbak = NoFile
    /\ pc = "first" => logbak = NoFile /\ log = id /\ id \in Ids
    /\ pc \in Working \cup Opening \cup Cleaning \cup {"exit"} =>
          base.made /\ logbak = NoFile /\ log = id /\ id \in Ids
    /\ pc \in {"moved", "created"} => base.made /\ logbak = id /\ id \in Ids
    /\ pc \in {"committed", "listed"} => base.made /\ logbak \in Ids /\ id \in Ids
    /\ pc = "listed" => log = id

\* Who switches and who cleans up: one at a time, and store_manager only in a
\* server that is up.
OneSwitch ==
    /\ pc \in {"boot", "restore", "load", "first"} => ~up /\ ~locked
    /\ pc \in Working => ~locked
    /\ pc \in Cleaning => locked
    /\ locked => clean = "no"
    /\ clean \in {"no", "switch", "check", "files", "bak", "done"}
    /\ clean # "no" => up
    /\ clean = "switch" => pc \in Switching \cup Opening
    /\ clean \in {"check", "files", "bak", "done"} => pc \in Working
    /\ pc \in Switching => locked \/ clean = "switch"

\* The list of the old files is there until it is removed.
Listed ==
    /\ pc \in Opening /\ (locked \/ clean = "switch") => HasList
    /\ pc \in {"files", "bak"} => HasList
    /\ clean \in {"check", "files", "bak"} => HasList

PCs == {"boot", "restore", "load", "first"} \cup Working \cup Switching \cup Opening \cup Cleaning

\* NeverFatal is in the range of pc.
IInv == pc \in PCs /\ up \in BOOLEAN /\ locked \in BOOLEAN /\ Restartable /\ Placed /\ OneSwitch /\ Listed

----------------------------------------------------------------------------
\* The invariant holds when the server is started for the first time.
LEMMA InitIInv == Init => IInv
<1> SUFFICES ASSUME Init PROVE IInv
  OBVIOUS
<1>1. /\ base.made = FALSE /\ "made" \in DOMAIN base /\ log = NoFile /\ logbak = NoFile
      /\ pc = "boot" /\ up = FALSE /\ locked = FALSE /\ clean = "no"
  BY DEF Init
<1> HIDE DEF Init
<1>2. Restartable
  BY <1>1 DEF Restartable
<1>3. Placed /\ OneSwitch /\ Listed
  BY <1>1 DEF Placed, OneSwitch, Listed, Working, Switching, Opening, Cleaning
<1> QED BY <1>1, <1>2, <1>3 DEF IInv, PCs

\* A step that leaves the files, and where the thread and store_manager are,
\* alone.
LEMMA Quiet ==
    ASSUME IInv, UNCHANGED <<base, log, logbak, bak, id, up, locked, clean, pc>>
    PROVE  IInv'
BY DEF IInv, Restartable, Named, Placed, OneSwitch, Listed, HasList

\* A transaction goes from one of its steps to another.
LEMMA TransactionKeeps == IInv /\ Transaction => IInv'
<1> SUFFICES ASSUME IInv, Transaction PROVE IInv'
  OBVIOUS
<1>1. /\ base'.made = base.made /\ "made" \in DOMAIN base'
      /\ pc \in Working /\ pc' \in Working
      /\ UNCHANGED <<log, logbak, bak, id, up, locked, clean>>
  <2>1. CASE \E change \in [Names -> Kinds], alone \in BOOLEAN : LogTrans(change, alone)
    BY <2>1 DEF LogTrans, disk, cleanup, IInv, Restartable, Working
  <2>2. CASE log_sequence
    <3>1. pc = "sequence" /\ pc' = "tend" /\ UNCHANGED <<base, log, logbak, bak, id, up, cleanup>>
      BY <2>2 DEF log_sequence
    <3> QED BY <3>1 DEF cleanup, IInv, Restartable, OneSwitch, Working
  <2>3. CASE log_tend
    <3>1. base'.made = base.made /\ "made" \in DOMAIN base'
      BY <2>3 DEF log_tend, SavedSnapshots, IInv, Restartable
    <3>2. pc = "tend" /\ pc' = "flush" /\ UNCHANGED <<log, logbak, bak, id, up, cleanup>>
      BY <2>3 DEF log_tend
    <3> QED BY <3>1, <3>2 DEF cleanup, IInv, OneSwitch, Working
  <2>4. CASE FlushEnd
    BY <2>4 DEF FlushEnd, cleanup, IInv, Restartable, Working
  <2>5. CASE Apply
    BY <2>5 DEF Apply, disk, cleanup, IInv, Restartable, Working
  <2> QED BY <2>1, <2>2, <2>3, <2>4, <2>5 DEF Transaction
<1> QED BY <1>1 DEF IInv, PCs, Restartable, Named, Placed, OneSwitch, Listed, HasList, Working, Switching, Opening, Cleaning

\* A commit of the buffer pool makes a catalog.
LEMMA CommittedMade == \A s : Committed(s).made = TRUE /\ "made" \in DOMAIN Committed(s)
BY DEF Committed

\* A switch of the log file, from the lock to the new file.
LEMMA SwitchKeeps == Guarded /\ IInv /\ (FlushLog \/ logger_exit \/ logger_open) => IInv'
<1> SUFFICES ASSUME Guarded, IInv, FlushLog \/ logger_exit \/ logger_open PROVE IInv'
  OBVIOUS
<1> USE DEF IInv, PCs, Restartable, Named, Placed, OneSwitch, Listed, HasList, Ids,
            Working, Switching, Opening, Cleaning
<1>1. CASE FlushLog
  <2>1. /\ pc = "ready" /\ up /\ pc' = "exit" /\ UNCHANGED <<disk, id, up>>
        /\ \E session \in BOOLEAN : /\ clean = "no" \/ (session /\ Overlap)
                                    /\ locked' = session
                                    /\ clean' = IF session THEN clean ELSE "switch"
    BY <1>1 DEF FlushLog
  <2> QED BY <2>1 DEF disk, Guarded
<1>2. CASE MoveLog
  <2>1. pc = "exit" /\ pc' = "moved" /\ logbak' = log /\ log' = NoFile
        /\ UNCHANGED <<base, bak, id, up, cleanup>>
    BY <1>2 DEF MoveLog
  <2> QED BY <2>1, NoFileAssumption DEF cleanup
<1>3. CASE CreateLog
  <2>1. pc = "moved" /\ pc' = "created" /\ log' = 0 /\ UNCHANGED <<base, logbak, bak, id, up, cleanup>>
    BY <1>3 DEF CreateLog
  <2> QED BY <2>1, NoFileAssumption DEF cleanup
<1>4. CASE logger_commit
  <2>1. pc = "created" /\ pc' = "committed" /\ id' = id + 1 /\ UNCHANGED <<log, logbak, bak, up, cleanup>>
    BY <1>4 DEF logger_commit
  <2>2. base'.made = TRUE /\ "made" \in DOMAIN base'
    BY <1>4, CommittedMade DEF logger_commit
  <2>3. logbak \in Ids /\ logbak # NoFile /\ id \in Ids /\ id' \in Ids
    BY <2>1, NoFileAssumption
  <2>4. Restartable' /\ Placed'
    BY <2>1, <2>2, <2>3 DEF cleanup
  <2>5. OneSwitch' /\ Listed'
    BY <2>1 DEF cleanup
  <2> QED BY <2>1, <2>4, <2>5 DEF cleanup
<1>5. CASE WriteId
  <2>1. pc = "committed" /\ pc' = "listed" /\ log' = id /\ UNCHANGED <<base, logbak, bak, id, up, cleanup>>
    BY <1>5 DEF WriteId
  <2> QED BY <2>1, NoFileAssumption DEF cleanup
<1>6. CASE SwitchLog
  <2>1. pc = "listed" /\ pc' = "open" /\ logbak' = NoFile /\ UNCHANGED <<base, log, id, up, cleanup>>
    BY <1>6 DEF SwitchLog
  <2>2. id \in DOMAIN bak'
    BY <1>6 DEF SwitchLog
  <2> QED BY <2>1, <2>2, NoFileAssumption DEF cleanup
<1>7. CASE OpenLog
  <2>1. pc = "open" /\ pc' = "seqs" /\ UNCHANGED <<base, log, logbak, bak, id, up, cleanup>>
    BY <1>7 DEF OpenLog
  <2> QED BY <2>1 DEF cleanup
<1>8. CASE WriteSeqs
  <2>1. /\ pc = "seqs" /\ UNCHANGED <<base, log, logbak, bak, id, up>>
        /\ clean' = IF clean = "switch" THEN "check" ELSE clean
        /\ locked' = (locked \/ (~up /\ lg.changes))
        /\ pc' = IF ~up /\ lg.changes THEN "exit" ELSE IF locked THEN "files" ELSE "ready"
    BY <1>8 DEF WriteSeqs
  <2>2. CASE ~up /\ lg.changes
    <3>1. pc' = "exit" /\ locked' = TRUE
      BY <2>1, <2>2
    <3> QED BY <2>1, <2>2, <3>1
  <2>3. CASE ~(~up /\ lg.changes)
    <3>1. pc' = (IF locked THEN "files" ELSE "ready") /\ (locked' <=> locked) /\ locked' \in BOOLEAN
      BY <2>1, <2>3
    <3> QED BY <2>1, <3>1
  <2> QED BY <2>2, <2>3
<1> QED BY <1>1, <1>2, <1>3, <1>4, <1>5, <1>6, <1>7, <1>8 DEF logger_exit, logger_open

\* The cleanup of who has the lock, and the one of store_manager.
LEMMA CleanupKeeps == IInv /\ logger_cleanup => IInv'
<1> SUFFICES ASSUME IInv, logger_cleanup PROVE IInv'
  OBVIOUS
<1> USE DEF IInv, PCs, Restartable, Named, Placed, OneSwitch, Listed, HasList, Ids,
            Working, Switching, Opening, Cleaning
<1>1. CASE CleanFiles
  <2>1. pc = "files" /\ pc' = "bak" /\ UNCHANGED <<base, log, logbak, bak, id, up, cleanup>>
    BY <1>1 DEF CleanFiles
  <2> QED BY <2>1 DEF cleanup
<1>2. CASE CleanBak
  <2>1. pc = "bak" /\ pc' = "unlock" /\ UNCHANGED <<base, log, logbak, id, up, cleanup>>
    BY <1>2 DEF CleanBak
  <2> QED BY <2>1 DEF cleanup
<1>3. CASE Unlock
  <2>1. pc = "unlock" /\ pc' = "ready" /\ locked' = FALSE /\ UNCHANGED <<disk, id, up, clean>>
    BY <1>3 DEF Unlock
  <2> QED BY <2>1 DEF disk
<1>4. CASE CheckLogging
  <2>1. clean = "check" /\ clean' \in {"files", "done"} /\ UNCHANGED <<disk, id, pc, up, locked>>
    BY <1>4 DEF CheckLogging
  <2> QED BY <2>1 DEF disk
<1>5. CASE ManagerFiles
  <2>1. clean = "files" /\ clean' = "bak" /\ UNCHANGED <<base, log, logbak, bak, id, pc, up, locked>>
    BY <1>5 DEF ManagerFiles
  <2> QED BY <2>1
<1>6. CASE ManagerBak
  <2>1. clean = "bak" /\ clean' = "done" /\ UNCHANGED <<base, log, logbak, id, pc, up, locked>>
    BY <1>6 DEF ManagerBak
  <2> QED BY <2>1
<1>7. CASE ManagerDone
  <2>1. pc = "ready" /\ pc' = "ready" /\ clean' = "no" /\ UNCHANGED <<disk, id, up, locked>>
    BY <1>7 DEF ManagerDone
  <2> QED BY <2>1 DEF disk
<1> QED BY <1>1, <1>2, <1>3, <1>4, <1>5, <1>6, <1>7 DEF logger_cleanup

\* A restart: what it finds is what was left at the crash.
LEMMA CreateKeeps == IInv /\ logger_create => IInv'
<1> SUFFICES ASSUME IInv, logger_create PROVE IInv'
  OBVIOUS
<1> USE DEF IInv, PCs, Restartable, Named, Placed, OneSwitch, Listed, HasList, Ids,
            Working, Switching, Opening, Cleaning
<1>1. CASE UnlinkLog
  <2>1. /\ pc = "boot" /\ UNCHANGED <<base, logbak, bak, id, up, cleanup>>
        /\ log' = IF logbak = NoFile THEN log ELSE NoFile
        /\ pc' = IF logbak = NoFile THEN "load" ELSE "restore"
    BY <1>1 DEF UnlinkLog
  <2> QED BY <2>1 DEF cleanup
<1>2. CASE RestoreLog
  <2>1. pc = "restore" /\ pc' = "load" /\ log' = logbak /\ logbak' = NoFile
        /\ UNCHANGED <<base, bak, id, up, cleanup>>
    BY <1>2 DEF RestoreLog
  <2> QED BY <2>1 DEF cleanup
<1>3. CASE LoadFirst
  <2>1. pc = "load" /\ pc' = "first" /\ ~base.made /\ log' = 2 /\ id' = 2
        /\ UNCHANGED <<base, logbak, bak, up, cleanup>>
    BY <1>3 DEF LoadFirst
  <2> QED BY <2>1 DEF cleanup
<1>4. CASE FirstCommit
  <2>1. pc = "first" /\ pc' = "open" /\ UNCHANGED <<log, logbak, bak, id, up, cleanup>>
    BY <1>4 DEF FirstCommit
  <2>2. base'.made = TRUE /\ "made" \in DOMAIN base'
    BY <1>4, CommittedMade DEF FirstCommit
  <2> QED BY <2>1, <2>2 DEF cleanup
<1>5. CASE Load
  <2>1. pc = "load" /\ (base.made \/ log # NoFile)
    BY <1>5 DEF Load
  <2>2. base.made /\ log \in Ids
    BY <2>1
  <2>3. ~(~base.made \/ log \in {NoFile, 0})
    BY <2>2, NoFileAssumption
  <2>4. pc' = "open" /\ id' = log /\ UNCHANGED <<disk, up, cleanup>>
    BY <1>5, <2>3 DEF Load
  <2> QED BY <2>1, <2>2, <2>4 DEF disk, cleanup
<1>6. CASE Started
  <2>1. pc = "ready" /\ up' = TRUE /\ UNCHANGED <<disk, id, pc, cleanup>>
    BY <1>6 DEF Started
  <2> QED BY <2>1 DEF disk, cleanup
<1> QED BY <1>1, <1>2, <1>3, <1>4, <1>5, <1>6 DEF logger_create

\* A crash leaves the files.
LEMMA CrashKeeps == Guarded /\ IInv /\ Crash => IInv'
<1> SUFFICES ASSUME Guarded, IInv, Crash PROVE IInv'
  OBVIOUS
<1>1. /\ pc' = "boot" /\ up' = FALSE /\ locked' = FALSE /\ clean' = "no"
      /\ UNCHANGED <<base, log, logbak, bak>>
  BY DEF Crash
<1>2. pc # "first"
  <2>1. ~InWindow("first")
    BY DEF Crash, MayCrash, Guarded, AllWindows
  <2> QED BY <2>1 DEF InWindow
<1> QED BY <1>1, <1>2 DEF IInv, PCs, Restartable, Named, Placed, OneSwitch, Listed,
                          Working, Switching, Opening, Cleaning

\* The invariant of the control, when nobody switches the log during a cleanup
\* of store_manager and no crash comes before the first catalog.
THEOREM Invariance == ASSUME Guarded PROVE Spec => []IInv
<1>1. IInv /\ [Next]_vars => IInv'
  <2> SUFFICES ASSUME IInv, [Next]_vars PROVE IInv'
    OBVIOUS
  <2>1. CASE UNCHANGED vars
    BY <2>1, Quiet DEF vars, disk, cleanup
  <2>2. CASE Next
    BY <2>2, TransactionKeeps, SwitchKeeps, CleanupKeeps, CreateKeeps, CrashKeeps DEF Next
  <2> QED BY <2>1, <2>2
<1> QED BY <1>1, InitIInv, PTL DEF Spec

\* The server never ends because LOGFILE and the catalog do not fit together or
\* because a list of old files is gone (logger_load, logger_cleanup).
THEOREM FatalSafety == ASSUME Guarded PROVE Spec => []NeverFatal
<1>1. IInv => NeverFatal
  BY DEF IInv, PCs, Working, Switching, Opening, Cleaning, NeverFatal
<1> QED BY <1>1, Invariance, PTL
=============================================================================
