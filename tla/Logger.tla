------------------------------- MODULE Logger -------------------------------
(***************************************************************************)
(* The write-ahead logger (gdk_logger.c) as the SQL store drives it        *)
(* (store.c, bat_storage.c).  A transaction writes START, its changes and  *)
(* END to the file log.<id>; from time to time logger_restart makes the    *)
(* BATs persistent and switches to a new file; logger_create replays the   *)
(* file that LOGFILE names onto the last checkpoint of the buffer pool.    *)
(*                                                                         *)
(* Columns have names, the logger's catalog maps a name to a BAT, and the  *)
(* content of a BAT is the sequence of the transactions that wrote its     *)
(* rows.  A subcommit of the buffer pool is one step (module Checkpoint);  *)
(* every other write, rename and removal of a file is a step of its own,   *)
(* and a crash keeps any part of what was written but not synchronised.    *)
(***************************************************************************)
EXTENDS Naturals, SequencesExt

CONSTANTS Names,        \* of columns
          Ops,          \* the kinds of changes of each column
          MaxTrans,     \* bound on the transactions
          MaxId,        \* bound on lg->id: no flush begins with a larger one
          MaxCrashes,   \* bound on the crashes
          Windows,      \* the windows in which a crash may come, too
          Overlap,      \* a session may switch the log while store_manager cleans up
          NoFile, NoColumn

AllWindows == {"first", "commit", "sequences", "truncated"}
Kinds == {"none", "insert", "update", "clear", "create", "bulk", "drop"}

ASSUME NamesAssumption == IsFiniteSet(Names)
ASSUME OpsAssumption == Ops \in [Names -> SUBSET Kinds]
ASSUME LoggerBounds == {MaxTrans, MaxId, MaxCrashes} \subseteq Nat
ASSUME NoFileAssumption == NoFile \notin Nat
ASSUME WindowsAssumption == Windows \subseteq AllWindows /\ Overlap \in BOOLEAN

VARIABLES
    base,          \* the BATs of the last checkpoint: [made, cat, bats, snaps]
    log, logbak,   \* the id in LOGFILE and LOGFILE.bak; 0 when none is in yet
    bak,           \* the ids in the LOGFILE.bak-<id>
    files,         \* the records in the log.<id>
    buf,           \* records written to lg->log and not yet flushed
    id,            \* lg->id, the log file in use
    lg,            \* the rest of the struct logger, and the BATs in memory
    view, next,    \* the columns as users see them; after the transaction
    direct,        \* store_nr_active = 1 when the transaction commits
    cleared,       \* the columns it cleared
    pc, up,        \* where the thread with the lock is; logger_create done
    locked,        \* it cleans up before it unlocks: no switch of store_manager
    clean,         \* where store_manager is in its switch and its cleanup
    logging,       \* the flag of store.c
    trans, crashes,
    db, oids       \* what was committed: columns, and object ids in use

disk == <<base, log, logbak, bak, files>>
users == <<view, next, direct, cleared>>
history == <<db, oids>>
cleanup == <<locked, clean, logging>>
vars == <<disk, buf, id, lg, users, pc, up, cleanup, trans, crashes, history>>

NoColumns == [n \in Names |-> NoColumn]
NewLogger == [tid |-> 0, cat |-> [n \in Names |-> 0], bats |-> <<>>, snaps |-> {},
              freed |-> {}, seq |-> 0, changes |-> FALSE]

Init ==
    /\ base = [made |-> FALSE, cat |-> [n \in Names |-> 0], bats |-> <<>>, snaps |-> {}]
    /\ log = NoFile /\ logbak = NoFile
    /\ bak = <<>> /\ files = <<>> /\ buf = <<>>
    /\ id = 1 /\ lg = NewLogger
    /\ view = NoColumns /\ next = NoColumns /\ direct = FALSE /\ cleared = {}
    /\ pc = "boot" /\ up = FALSE
    /\ locked = FALSE /\ clean = "no" /\ logging = FALSE
    /\ trans = 0 /\ crashes = 0
    /\ db = NoColumns /\ oids = 0

(***************************************************************************)
(* The catalog.  A BAT that leaves it is freed by the next bm_commit, and  *)
(* is no snapshot any more.                                                *)
(***************************************************************************)
Fresh(s) == Min((1 .. Cardinality(DOMAIN s.bats) + 1) \ DOMAIN s.bats)
NewBat(s, content) == [s EXCEPT !.bats = (Fresh(s) :> content) @@ @]

logger_del_bat(s, n) ==
    [s EXCEPT !.freed = @ \cup {s.cat[n]},
              !.snaps = {e \in @ : e[1] # s.cat[n]},
              !.cat[n] = 0]

logger_add_bat(s, n, b) ==
    IF s.cat[n] = b THEN s
    ELSE [(IF s.cat[n] = 0 THEN s ELSE logger_del_bat(s, n)) EXCEPT !.cat[n] = b]

Snapshot(s, b) ==
    [s EXCEPT !.snaps = {e \in @ : e[1] # b} \cup {<<b, s.tid>>}]

Columns(s) ==
    [n \in Names |-> IF s.cat[n] = 0 THEN NoColumn ELSE s.bats[s.cat[n]]]

Replace(rows, row) == IF rows = <<>> THEN <<row>> ELSE [rows EXCEPT ![1] = row]

(***************************************************************************)
(* The replay of a log file.                                               *)
(***************************************************************************)
avoid_snapshot(s, b) == \E e \in s.snaps : e[1] = b /\ s.tid <= e[2]

Content(rows, c) ==
    CASE c.op = "INSERT" -> Append(rows, c.row)
      [] c.op = "UPDATE" -> Replace(rows, c.row)
      [] c.op = "CLEAR"  -> <<>>

\* la_bat_updates and la_bat_clear.
la_bat_content(s, c) ==
    IF s.cat[c.name] = 0 \/ avoid_snapshot(s, s.cat[c.name]) THEN s
    ELSE [s EXCEPT !.bats[s.cat[c.name]] = Content(@, c)]

la_bat_create(s, c) == logger_add_bat(NewBat(s, <<>>), c.name, Fresh(s))

la_bat_use(s, c) ==
    IF c.bid \notin DOMAIN s.bats THEN s
    ELSE Snapshot(logger_add_bat(s, c.name, c.bid), c.bid)

la_bat_destroy(s, c) == IF s.cat[c.name] = 0 THEN s ELSE logger_del_bat(s, c.name)

la_apply(s, c) ==
    LET t == [s EXCEPT !.changes = TRUE] IN
    CASE c.op \in {"INSERT", "UPDATE", "CLEAR"} -> la_bat_content(t, c)
      [] c.op = "CREATE"  -> la_bat_create(t, c)
      [] c.op = "USE"     -> la_bat_use(t, c)
      [] c.op = "DESTROY" -> la_bat_destroy(t, c)

tr_commit(s, tr) == FoldLeft(la_apply, s, tr)

\* log_read_updates needs the BAT, or its CREATE in the same transaction.
Readable(r, c) ==
    /\ r.open
    /\ c.op \in {"INSERT", "UPDATE"} =>
         \/ r.lg.cat[c.name] # 0
         \/ \E k \in DOMAIN r.tr : r.tr[k].op = "CREATE" /\ r.tr[k].name = c.name

\* One record, in the loop of logger_readlog: transactions follow each other
\* in a file, so that at most one is open; what is left open is aborted.
ReadRecord(r, c) ==
    CASE r.err -> r
      [] c.op = "START" -> [r EXCEPT !.open = TRUE, !.tr = <<>>, !.lg.tid = Max({@, c.tid})]
      [] c.op = "SEQ" -> [r EXCEPT !.lg.seq = c.val]
      [] c.op = "END" -> IF r.open THEN [r EXCEPT !.open = FALSE, !.lg = tr_commit(@, r.tr)]
                         ELSE [r EXCEPT !.err = TRUE]
      [] OTHER -> IF Readable(r, c) THEN [r EXCEPT !.tr = Append(@, c)]
                  ELSE [r EXCEPT !.err = TRUE]

logger_readlog(s, records) ==
    FoldLeft(ReadRecord, [lg |-> s, open |-> FALSE, tr |-> <<>>, err |-> FALSE], records).lg

\* The logger that logger_load makes of the checkpoint and the file named
\* by LOGFILE, when records are appended to it: the id is not persistent.
Loaded(i, more) ==
    logger_readlog([NewLogger EXCEPT !.cat = base.cat, !.bats = base.bats, !.snaps = base.snaps],
                   (IF i \in DOMAIN files THEN files[i] ELSE <<>>) \o more)

(***************************************************************************)
(* A transaction: sql_trans_commit, under the lock of the store.           *)
(***************************************************************************)
\* A snapshot is taken of a large column that is new, or whose BAT is still
\* empty while no other transaction is active.
Allowed(n, kind, alone) ==
    CASE kind = "none"   -> TRUE
      [] kind = "create" -> view[n] = NoColumn
      [] kind = "bulk"   -> view[n] # NoColumn => alone /\ lg.bats[lg.cat[n]] = <<>>
      [] kind = "update" -> view[n] \notin {NoColumn, <<>>}
      [] OTHER           -> view[n] # NoColumn

Changed(n, kind, row) ==
    CASE kind = "none"   -> view[n]
      [] kind = "create" -> <<row>>
      [] kind = "bulk"   -> IF view[n] = NoColumn THEN <<row>> ELSE Append(view[n], row)
      [] kind = "insert" -> Append(view[n], row)
      [] kind = "update" -> Replace(view[n], row)
      [] kind = "clear"  -> <<>>
      [] kind = "drop"   -> NoColumn

\* The records of one column (log_bat_persists, log_bat_transient, log_bat,
\* log_bat_clear, log_delta).
Records(s, n, kind, row) ==
    CASE kind = "none"   -> <<>>
      [] kind = "create" -> <<[op |-> "CREATE", name |-> n], [op |-> "INSERT", name |-> n, row |-> row]>>
      [] kind = "bulk"   -> <<[op |-> "USE", name |-> n, bid |-> Fresh(s)]>>
      [] kind = "insert" -> <<[op |-> "INSERT", name |-> n, row |-> row]>>
      [] kind = "update" -> <<[op |-> "UPDATE", name |-> n, row |-> row]>>
      [] kind = "clear"  -> <<[op |-> "CLEAR", name |-> n]>>
      [] kind = "drop"   -> <<[op |-> "DESTROY", name |-> n]>>

\* What logging the column does to the catalog and the snapshots.
LogColumn(s, n, kind, rows) ==
    LET t == logger_add_bat(NewBat(s, rows), n, Fresh(s)) IN
    CASE kind = "create" -> t
      [] kind = "bulk"   -> Snapshot(t, Fresh(s))
      [] kind = "drop"   -> logger_del_bat(s, n)
      [] OTHER           -> s

Creates(change) ==
    \E n \in Names : change[n] \in {"create", "bulk"} /\ view[n] = NoColumn

\* R_SNAPSHOT, log_tstart and R_LOG.
LogTrans(change, alone) ==
    LET row == trans + 1
        new == [n \in Names |-> Changed(n, change[n], row)]
        one(a, n) == [lg |-> LogColumn(a.lg, n, change[n], new[n]),
                      records |-> a.records \o Records(a.lg, n, change[n], row)]
        start == [lg |-> [lg EXCEPT !.tid = @ + 1, !.changes = TRUE],
                  records |-> <<[op |-> "START", tid |-> lg.tid + 1]>>]
        all == FoldLeft(one, start, SetToSeq(Names))
    IN  /\ pc = "ready" /\ up /\ trans < MaxTrans
        /\ \A n \in Names : change[n] \in Ops[n] /\ Allowed(n, change[n], alone)
        /\ \E n \in Names : change[n] # "none"
        /\ lg' = all.lg /\ buf' = all.records
        /\ next' = new /\ direct' = alone
        /\ cleared' = {n \in Names : change[n] = "clear"}
        /\ trans' = row
        /\ pc' = IF Creates(change) THEN "sequence" ELSE "tend"
        /\ UNCHANGED <<disk, id, view, up, cleanup, crashes, history>>

Flushed(records) == [files EXCEPT ![id] = @ \o records]

\* New objects took ids: log_sequence, which flushes.
log_sequence ==
    /\ pc = "sequence"
    /\ lg' = [lg EXCEPT !.seq = @ + 1]
    /\ files' = Flushed(buf \o <<[op |-> "SEQ", val |-> lg.seq + 1]>>)
    /\ buf' = <<>>
    /\ pc' = "tend"
    /\ UNCHANGED <<base, log, logbak, bak, id, users, up, cleanup, trans, crashes, history>>

\* Mutant: END is written before the snapshots are saved.
NoSubcommit == base

\* The first part of log_tend: the new snapshots become persistent.
SavedSnapshots ==
    LET new == {e[1] : e \in {e \in lg.snaps : e[2] = lg.tid}} IN
    IF lg.snaps = base.snaps THEN base
    ELSE [made |-> base.made, cat |-> base.cat, snaps |-> lg.snaps,
          bats |-> [b \in DOMAIN base.bats \cup new |->
                       IF b \in new THEN lg.bats[b] ELSE base.bats[b]]]

log_tend ==
    /\ pc = "tend"
    /\ base' = SavedSnapshots
    /\ buf' = Append(buf, [op |-> "END"])
    /\ pc' = "flush"
    /\ UNCHANGED <<log, logbak, bak, files, id, lg, users, up, cleanup, trans, crashes, history>>

\* The rest of it: flush and synchronise.  The transaction is committed.
FlushEnd ==
    /\ pc = "flush"
    /\ files' = Flushed(buf)
    /\ buf' = <<>>
    /\ db' = next /\ oids' = lg.seq
    /\ pc' = "apply"
    /\ UNCHANGED <<base, log, logbak, bak, id, lg, users, up, cleanup, trans, crashes>>

\* R_APPLY, with no other transaction active: the BATs get the rows at once;
InPlace(s, n) ==
    IF s.cat[n] = 0 \/ next[n] = view[n] THEN s ELSE [s EXCEPT !.bats[s.cat[n]] = next[n]]

\* else deltas keep them until the next flush, and a cleared column gets a
\* new BAT (empty_col).
InDelta(s, n) ==
    IF n \in cleared THEN logger_add_bat(NewBat(s, next[n]), n, Fresh(s)) ELSE s

Apply ==
    /\ pc = "apply"
    /\ lg' = IF direct THEN FoldLeft(InPlace, lg, SetToSeq(Names))
                       ELSE FoldLeft(InDelta, lg, SetToSeq(Names))
    /\ view' = next
    /\ pc' = "ready"
    /\ UNCHANGED <<disk, buf, id, next, direct, cleared, up, cleanup, trans, crashes, history>>

(***************************************************************************)
(* The switch to a new log file: store_manager or store_apply_deltas, then *)
(* logger_exit and logger_open.                                            *)
(***************************************************************************)
\* Mutant: a column with an empty BAT is forgotten.
MergeFilled(s, n) ==
    IF s.cat[n] = 0 \/ s.bats[s.cat[n]] = <<>> THEN s ELSE [s EXCEPT !.bats[s.cat[n]] = view[n]]

\* gtrans_update: the deltas go into the BATs.
Merge(s, n) == IF s.cat[n] = 0 THEN s ELSE [s EXCEPT !.bats[s.cat[n]] = view[n]]

\* store_apply_deltas has the lock until it has cleaned up, store_manager
\* until it has switched.
FlushLog ==
    /\ pc = "ready" /\ up /\ id < MaxId
    /\ \E session \in BOOLEAN :
         /\ clean = "no" \/ (session /\ Overlap)
         /\ locked' = session
         /\ clean' = IF session THEN clean ELSE "switch"
    /\ logging' = TRUE
    /\ lg' = FoldLeft(Merge, lg, SetToSeq(Names))
    /\ pc' = "exit"
    /\ UNCHANGED <<disk, buf, id, users, up, trans, crashes, history>>

MoveLog ==
    /\ pc = "exit"
    /\ logbak' = log /\ log' = NoFile
    /\ pc' = "moved"
    /\ UNCHANGED <<base, bak, files, buf, id, lg, users, up, cleanup, trans, crashes, history>>

CreateLog ==
    /\ pc = "moved"
    /\ log' = 0
    /\ pc' = "created"
    /\ UNCHANGED <<base, logbak, bak, files, buf, id, lg, users, up, cleanup, trans, crashes, history>>

\* bm_commit: the BATs of the catalog are saved, the freed ones deleted.
Committed(s) ==
    LET used == {s.cat[n] : n \in Names} \ {0} IN
    [made |-> TRUE, cat |-> s.cat, snaps |-> s.snaps,
     bats |-> [b \in used \cup (DOMAIN base.bats \ s.freed) |->
                  IF b \in used THEN s.bats[b] ELSE base.bats[b]]]

logger_commit ==
    /\ pc = "created"
    /\ base' = Committed([lg EXCEPT !.snaps = {}])
    /\ id' = id + 1
    /\ lg' = [lg EXCEPT !.snaps = {}, !.freed = {}]
    /\ pc' = "committed"
    /\ UNCHANGED <<log, logbak, bak, files, buf, users, up, cleanup, trans, crashes, history>>

WriteId ==
    /\ pc = "committed"
    /\ log' = id
    /\ pc' = "listed"
    /\ UNCHANGED <<base, logbak, bak, files, buf, id, lg, users, up, cleanup, trans, crashes, history>>

SwitchLog ==
    /\ pc = "listed"
    /\ bak' = [i \in DOMAIN bak \cup {id} |-> IF i = id THEN logbak ELSE bak[i]]
    /\ logbak' = NoFile
    /\ lg' = [lg EXCEPT !.changes = FALSE]
    /\ pc' = "open"
    /\ UNCHANGED <<base, log, files, buf, id, users, up, cleanup, trans, crashes, history>>

\* logger_open: the file of the current id is truncated,
OpenLog ==
    /\ pc = "open"
    /\ files' = (id :> <<>>) @@ files
    /\ pc' = "seqs"
    /\ UNCHANGED <<base, log, logbak, bak, buf, id, lg, users, up, cleanup, trans, crashes, history>>

\* Mutant: none is written.
NoSequences == <<>>

\* and the sequence numbers are written to it (log_sequence_nrs).
Sequences == IF lg.seq = 0 THEN <<>> ELSE <<[op |-> "SEQ", val |-> lg.seq]>>

\* logger_create goes on to switch the file if it has replayed anything.
WriteSeqs ==
    LET again == ~up /\ lg.changes IN
    /\ pc = "seqs"
    /\ files' = Flushed(Sequences)
    /\ pc' = IF again THEN "exit" ELSE IF locked THEN "files" ELSE "ready"
    /\ locked' = (locked \/ again)
    /\ clean' = IF clean = "switch" THEN "check" ELSE clean
    /\ UNCHANGED <<base, log, logbak, bak, buf, id, lg, users, up, logging, trans, crashes, history>>

(***************************************************************************)
(* logger_cleanup reads lg->id twice: for the list of files and to remove  *)
(* the list.  First the one under the lock; store_apply_deltas does not    *)
(* look at its result.                                                     *)
(***************************************************************************)
HasList == id \in DOMAIN bak
Unlisted == IF HasList THEN [i \in DOMAIN files \ {bak[id]} |-> files[i]] ELSE files
Unlinked == [i \in DOMAIN bak \ {id} |-> bak[i]]

CleanFiles ==
    /\ pc = "files"
    /\ files' = Unlisted
    /\ pc' = CASE HasList -> "bak" [] ~HasList /\ up -> "unlock" [] OTHER -> "fatal"
    /\ UNCHANGED <<base, log, logbak, bak, buf, id, lg, users, up, cleanup, trans, crashes, history>>

CleanBak ==
    /\ pc = "bak"
    /\ bak' = Unlinked
    /\ pc' = "unlock"
    /\ UNCHANGED <<base, log, logbak, files, buf, id, lg, users, up, cleanup, trans, crashes, history>>

Unlock ==
    /\ pc = "unlock"
    /\ logging' = FALSE /\ locked' = FALSE
    /\ pc' = "ready"
    /\ UNCHANGED <<disk, buf, id, lg, users, up, clean, trans, crashes, history>>

\* The one of store_manager, which runs without the lock.
CheckLogging ==
    /\ clean = "check"
    /\ clean' = IF logging THEN "files" ELSE "done"
    /\ UNCHANGED <<disk, buf, id, lg, users, pc, up, locked, logging, trans, crashes, history>>

ManagerFiles ==
    /\ clean = "files"
    /\ files' = Unlisted
    /\ clean' = IF HasList THEN "bak" ELSE "failed"
    /\ UNCHANGED <<base, log, logbak, bak, buf, id, lg, users, pc, up, locked, logging, trans, crashes, history>>

ManagerBak ==
    /\ clean = "bak"
    /\ bak' = Unlinked
    /\ clean' = "done"
    /\ UNCHANGED <<base, log, logbak, files, buf, id, lg, users, pc, up, locked, logging, trans, crashes, history>>

\* It takes the lock to reset the flag, and ends the server if the cleanup failed.
ManagerDone ==
    /\ clean \in {"done", "failed"} /\ pc = "ready"
    /\ pc' = IF clean = "done" THEN pc ELSE "fatal"
    /\ logging' = FALSE /\ clean' = "no"
    /\ UNCHANGED <<disk, buf, id, lg, users, up, locked, trans, crashes, history>>

(***************************************************************************)
(* logger_create.                                                          *)
(***************************************************************************)
\* Mutant: the backup is looked for after the log file.
IgnoreBak ==
    /\ pc = "boot"
    /\ pc' = IF logbak = NoFile \/ log # NoFile THEN "load" ELSE "restore"
    /\ UNCHANGED <<disk, buf, id, lg, users, up, cleanup, trans, crashes, history>>

\* LOGFILE.bak is there when a switch was interrupted: it is put back.
UnlinkLog ==
    /\ pc = "boot"
    /\ log' = IF logbak = NoFile THEN log ELSE NoFile
    /\ pc' = IF logbak = NoFile THEN "load" ELSE "restore"
    /\ UNCHANGED <<base, logbak, bak, files, buf, id, lg, users, up, cleanup, trans, crashes, history>>

RestoreLog ==
    /\ pc = "restore"
    /\ log' = logbak /\ logbak' = NoFile
    /\ pc' = "load"
    /\ UNCHANGED <<base, bak, files, buf, id, lg, users, up, cleanup, trans, crashes, history>>

LoadFirst ==
    /\ pc = "load"
    /\ ~base.made /\ log = NoFile
    /\ id' = 2 /\ lg' = [NewLogger EXCEPT !.changes = TRUE]
    /\ log' = 2
    /\ pc' = "first"
    /\ UNCHANGED <<base, logbak, bak, files, buf, users, up, cleanup, trans, crashes, history>>

FirstCommit ==
    /\ pc = "first"
    /\ base' = Committed(lg)
    /\ pc' = "open"
    /\ UNCHANGED <<log, logbak, bak, files, buf, id, lg, users, up, cleanup, trans, crashes, history>>

\* Catalog and log file must be there both, and the file hold an id.
Load ==
    LET fatal == ~base.made \/ log \in {NoFile, 0} IN
    /\ pc = "load"
    /\ base.made \/ log # NoFile
    /\ id' = IF fatal THEN id ELSE log
    /\ lg' = IF fatal THEN lg ELSE Loaded(log, <<>>)
    /\ pc' = IF fatal THEN "fatal" ELSE "open"
    /\ UNCHANGED <<disk, buf, users, up, cleanup, trans, crashes, history>>

\* logger_create returns and the store reads its columns.
Started ==
    /\ pc = "ready" /\ ~up
    /\ up' = TRUE
    /\ view' = Columns(lg)
    /\ UNCHANGED <<disk, buf, id, lg, next, direct, cleared, pc, cleanup, trans, crashes, history>>

(***************************************************************************)
(* A crash.  In four windows the disk is not what it should be, and a      *)
(* crash comes there only when Windows says so:                            *)
(*   first       LOGFILE is written, the first catalog not yet committed;  *)
(*   commit      logger_commit is done, LOGFILE.bak still names the file   *)
(*               whose changes the checkpoint has;                         *)
(*   sequences   LOGFILE names a file without the sequence numbers yet;    *)
(*   truncated   logger_create truncated the file it replayed, and the     *)
(*               result is not yet persistent.                             *)
(***************************************************************************)
InWindow(w) ==
    CASE w = "first"     -> pc = "first"
      [] w = "commit"    -> up /\ pc \in {"committed", "listed"}
      [] w = "sequences" -> (locked \/ clean = "switch") /\ pc \in {"open", "seqs"}
      [] w = "truncated" -> ~up /\ (pc \in {"exit", "moved", "created"} \/ (pc = "seqs" /\ ~locked))

MayCrash == \A w \in AllWindows \ Windows : ~InWindow(w)

\* The first k records of buf reached the disk; the last may be END.
Ended(k) == k > 0 /\ buf[k].op = "END"

Crash ==
    /\ MayCrash /\ crashes < MaxCrashes /\ pc # "fatal"
    /\ \E k \in 0 .. Len(buf) :
         /\ files' = IF k = 0 THEN files ELSE Flushed(SubSeq(buf, 1, k))
         /\ db' = IF Ended(k) THEN next ELSE db
         /\ oids' = IF Ended(k) THEN lg.seq ELSE oids
    /\ buf' = <<>> /\ id' = 1 /\ lg' = NewLogger
    /\ view' = NoColumns /\ next' = NoColumns /\ direct' = FALSE /\ cleared' = {}
    /\ pc' = "boot" /\ up' = FALSE
    /\ locked' = FALSE /\ clean' = "no" /\ logging' = FALSE
    /\ crashes' = crashes + 1
    /\ UNCHANGED <<base, log, logbak, bak, trans>>

Transaction ==
    \/ \E change \in [Names -> Kinds], alone \in BOOLEAN : LogTrans(change, alone)
    \/ log_sequence \/ log_tend \/ FlushEnd \/ Apply

logger_exit == MoveLog \/ CreateLog \/ logger_commit \/ WriteId \/ SwitchLog

logger_open == OpenLog \/ WriteSeqs

logger_cleanup == CleanFiles \/ CleanBak \/ Unlock \/ CheckLogging \/ ManagerFiles \/ ManagerBak \/ ManagerDone

logger_create == UnlinkLog \/ RestoreLog \/ LoadFirst \/ FirstCommit \/ Load \/ Started

Next == Transaction \/ FlushLog \/ logger_exit \/ logger_open \/ logger_cleanup \/ logger_create \/ Crash

Spec == Init /\ [][Next]_vars

(***************************************************************************)
(* Properties.                                                             *)
(***************************************************************************)
Contents == Seq(1 .. trans) \cup {NoColumn}

\* The values of the variables: the catalog in memory and the one of the
\* checkpoint name only BATs that are there, freed BATs are out of it.
TypeOK ==
    /\ {log, logbak} \subseteq Nat \cup {NoFile}
    /\ \A i \in DOMAIN bak : bak[i] \in Nat
    /\ {view[n] : n \in Names} \cup {next[n] : n \in Names} \cup {db[n] : n \in Names} \subseteq Contents
    /\ \A n \in Names : lg.cat[n] \in DOMAIN lg.bats \cup {0}
    /\ \A n \in Names : base.cat[n] \in DOMAIN base.bats \cup {0}
    /\ lg.freed \cap {lg.cat[n] : n \in Names} = {}
    /\ {id, lg.tid} \subseteq Nat /\ oids \in Nat

\* The columns a restart finds when the first k records of buf survive.
RestartAfter(k) == Loaded(IF logbak = NoFile THEN log ELSE logbak, SubSeq(buf, 1, k))

\* A restart at any moment, whatever part of the buffered records reached the
\* disk, finds exactly the committed transactions, each once, and all or
\* nothing of the one that is being written (logger_readlogs, logger_exit).
Recoverable ==
    MayCrash /\ base.made =>
       \A k \in 0 .. Len(buf) : Columns(RestartAfter(k)) = IF Ended(k) THEN next ELSE db

\* Object ids are not given out twice: the last one that a committed
\* transaction used is covered by the sequence number a restart finds
\* (log_sequence, log_sequence_nrs).
SequenceKept == MayCrash /\ base.made => RestartAfter(0).seq >= oids

\* What users see between transactions is what was committed, also after
\* any number of restarts, switches of the log and snapshots.
ViewExact == pc = "ready" /\ up => view = db

\* The checks of logger_load on catalog and log file never fail, nor does
\* logger_cleanup look for a list of old files that another thread removed or
\* that is not yet there: both end the server.
NeverFatal == pc # "fatal"
=============================================================================
