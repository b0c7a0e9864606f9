# A verification project for MonetDBLite

MonetDBLite is MonetDB's column store as a library inside another process (R).
This directory holds TLA+ modules that model the parts of it whose correctness
depends on interleavings and on crashes, TLC configurations that check them on
small instances, and proofs that TLAPS checks for every instance. Two modules model
pure algorithms, the column arithmetic and the aggregates, and compare them with
reference definitions.

Paths below are relative to the repository; its C code lives under `src/`.

## 1. The system

| component | state | operations | hard because of |
|---|---|---|---|
| MAL dataflow scheduler, `src/mal/mal/mal_dataflow.c` | worker slots, the shared queue `todo`, per block a status array, a graph and a `done` queue | start a block, take, execute and report instructions, wake successors, shut down | worker threads, semaphores, two places that start an instruction, error paths |
| BBP checkpoints, `src/gdk/gdk_bbp.c`, `gdk_tm.c` | files in `bat/`, `bat/BACKUP/`, `bat/BACKUP/SUBCOMMIT/`, `bat/DELETE_ME/`; `backup_files`, `backup_dir`, `backup_subdir`, `BBP_dirty`, the status of each BAT | `TMcommit`, `TMsubcommit_list`, swap-out, restart | a crash between any two file operations, a failing write, swap-outs that interleave with a subcommit |
| BBP reference counts, `gdk_bbp.c` | `BBP_refs`, `BBP_lrefs`, flags LOADING, UNLOADING, SAVING, DELETING | fix, unfix, load, unload, trim, destroy | several threads and flags that stand for locks |
| write-ahead logger, `src/gdk/gdk_logger.c` | `log`, `log.bak`, `log.bak-<id>`, the files `log.<id>`, the catalog and its snapshots, sequence numbers | begin, log changes, end, replay, switch to a new file, clean up | crashes, torn records, rotation against the BBP commit |
| SQL store, `src/sql/storage/` | tables as a base and delta BATs, catalog objects with timestamps, sequences, the active transactions | begin, validate, commit, roll back, flush the log | optimistic concurrency, checkpoint against running transactions |
| BAT deltas, heaps, descriptors, `gdk_delta.c`, `gdk_heap.c`, `gdk_bat.c` | inserted, deleted and first; storage modes | append, commit, undo, extend, save | which part of a heap a checkpoint covers |
| embedded API and clients, `src/embedded/`, `mal_client.c`, `mal_session.c` | one database, the client slots | startup, connect, query, disconnect, shutdown | lifetime of clients against the server |
| kernel algebra, `gdk_calc.c`, `gdk_aggr.c` and others | columns and what is claimed of them | arithmetic, comparisons, conversions, aggregates by group | nil, overflow, candidate lists, claims that later operators trust |
| interpreter, optimizers, SQL compiler, streams | programs and data | | sequential code over data |

How they interact: a query becomes a MAL program; its blocks marked dataflow go
to the scheduler, whose workers call the interpreter for one instruction at a
time; instructions fix and unfix BATs in the buffer pool, which swaps them out
under memory pressure; a transaction that commits writes to the log; from time
to time the logger makes its BATs persistent by a subcommit of the buffer pool
and starts a new log; a restart first brings back the last checkpoint of the
buffer pool and then replays the log on it.

What would make each part correct:

* scheduler: an instruction runs once, after what it depends on; the caller's
  answer is right; nothing of a block is touched after it was released; the
  pool keeps its size; every block and the shutdown come to an end;
* checkpoints: a commit is atomic and durable at every moment a crash can come,
  also in a restart; a failed commit has no effect and can be repeated;
* logger: a restart yields exactly the committed transactions;
* reference counts: no BAT is unloaded or destroyed while somebody uses it;
* store: committed transactions are serial, snapshots are consistent, a flush
  leaves nothing behind when the log is removed;
* algebra: a result is exact, nil or an error, and what a column claims is true.

The hazards, each at its line and with the properties that watch it, are listed
in `PROJECT.json`.

## 2. Modules

| module | models | how |
|---|---|---|
| `DataflowGraph` | `DFLOWinitBlk` | one action for each of the two edges the code looks at per argument, and for the assignments of an instruction |
| `DataflowGraphProofs` | | theorems on `DataflowGraph` |
| `DataflowSpec` | what `runMALdataflow` promises | abstract: instructions run one at a time, in an order that respects the graph |
| `Dataflow` | `mal_dataflow.c` | one action for each critical section of `DFLOWworker`, `q_enqueue`, `q_dequeue`, `runMALdataflow`, `DFLOWscheduler`, `stopMALdataflow` |
| `DataflowProofs` | | theorems on `Dataflow` |
| `Checkpoint` | what `TMcommit` and `TMsubcommit_list` promise | abstract: a commit is one step, a restart finds the last one |
| `BBPsync` | `gdk_bbp.c`, `gdk_tm.c` | one action for each rename, removal and write of a file, and for each loop step of a commit, a swap-out and a restart |
| `BBPsyncProofs`, `BBPsyncRecovery`, `BBPsyncRetry` | | theorems on `BBPsync`; the last two extend the first |
| `Logger` | `gdk_logger.c` as `store.c` and `bat_storage.c` use it | one action for each step of a commit, of the switch to a new log file, of the cleanup and of `logger_create` |
| `LoggerProofs` | | theorems on `Logger` |
| `BBPrefs` | the buffer pool of `gdk_bbp.c` as threads share it | one action for each critical section of a swap lock and each unlocked piece of `incref`, `decref`, `getBBPdescriptor`, `BBPsave`, `BBPfree`, `BBPdestroy`, `BBPtrim`, and of the end of a subcommit |
| `BBPrefsProofs` | | theorems on `BBPrefs` |
| `Store` | transactions: `store.c`, `bat_storage.c`, `sql_mvc.c` | one action for each statement, begin, commit, rollback and flush |
| `StoreProofs` | | theorems on `Store` |
| `Calc` | `gdk_calc.c`, `gdk_calc_private.h`, `gdk_calc_compare.h` | one operator for each `BATcalc` function, one action for each call |
| `Aggr` | `gdk_aggr.c`, extends `Calc` | the same for the aggregates |
| `MCDataflowGraph`, `MCDataflow`, `MCBBPsync`, `MCLogger`, `MCBBPrefs`, `MCStore`, `MCAggr` | | instances for TLC |

**Dataflow.** A worker is a slot `i` with `flag`, `cntxt` and a semaphore; `wpc`
says where its thread is. A call of `runMALdataflow` is a flow `f` whose `fpc`
says where the caller is; `state`, `blocks`, `error` are the fields of its
`status` array, `done` and `dsema` its done queue. `q_enqueue` on `todo` is one
step, since `sema_up` never blocks and only enables others; on a done queue the
append and the post are two, because the scheduler frees that queue. An
instruction is a result that may be an error (`Faulty` says of which), and a
recursive call is a flow whose `Host` is the instruction that makes it. `Claims` are
the instructions with a memory claim. `MALadmission` admits any of them when no claim
is out (`ClaimsOut`: a worker executes one that has one); beside others it may admit
(`Admit`) or refuse one (`Requeue`), because the size of the memory pool is left open,
and a refused instruction goes back to the front of `todo` (`q_requeue`).

**BBPsync.** A BAT has one heap, an entry in BBP.dir, and a version number that
both carry; a torn file fits nothing. `batF`, `bakF`, `subF` are the heaps in
the three directories and `batD`, `bakD`, `subD` the places of BBP.dir.
A BAT is in memory or not (`loaded`), has rows that are not committed or none
(`delta`), and may have been swapped out with such rows (`swapped`, the flag
BBPSWAPPED). This matters because a commit finds a BAT that is not in memory only by
that flag (`Returned`, which is `dirty_bat`): without it phase 1 leaves the backup of
the BAT where it is (`FromBak`). The prelude ends the delta of each BAT it finds
(`EndsDelta`); a subcommit takes the trim locks only after that (`Lock`), and until
then BBPtrim may unload what it lists, if `Trims` is TRUE. A change that leaves no
delta (`BUNinplace`) is possible if `InPlace` is TRUE, and `Kinds` says which of
TMcommit and subcommits there are.
`Recovered` is what a restart would make of the disk in the current state: the
invariants speak of it at every step, and crash and recovery are actions as
well, so that a crash in the recovery is covered. The mapping to `Checkpoint`
takes `Recovered` for the checkpoint.

**Logger.** A column is a name; `lg.cat` maps names to BATs, and the content of
a BAT is the sequence of transactions that wrote its rows, so that a lost, a
repeated and a misplaced row are all visible. A change has one of the kinds of
`Kinds`: `create` and `insert` are logged row by row, `bulk` as a snapshot
(LOG_USE). `base` is the last checkpoint of the buffer pool; each subcommit is
one step, which `BBPsync` justifies. `buf` holds the records between two
flushes, and a crash keeps any prefix of it.

**BBPrefs.** A thread has a list `todo` of steps; each is a critical section or
something done outside the locks, and may put others in front of the rest, the
way the functions call each other. `BBP_status_off` without the lock is two
steps, a read and a write. `refs`, `lrefs`, `share`, `desc`, `cache` are the
fields of the pool; `mem`, `disk` and `val` are the contents in memory, in the
file and as last written; `base` says whether the heap pointer of a view is an
offset, a pointer, or worthless. `fixes` and `keeps` are what threads and the
variables of MAL programs hold, against which the counters are compared.

**Store.** An object is a column or a table, which also stands for its deletes.
`global` has the time marks of gtrans, `chain` the versions of an object,
`central` the BAT the logger knows; `trans[s]` is the session's transaction with
its marks and its data: nothing, a shared version, or a private copy, which keeps
the transaction's own rows apart from what it copied (their insertion point). Contents
are sequences of the transactions that wrote, so lost, repeated and foreign
writes are visible; `committed` and `snapshot` are history.

**Calc and Aggr.** A column has a type, values and claims; a constant is a column
whose increment is 0, as in the loops of the code, so that the functions `...cst`
and `VARcalc...` are the same operators. The types are a narrow one and the widest
one of twice its bits, which are the two cases of every check in the code (there
is a wider type to compute in, or there is none). A result row says whether the
loop counted a nil and whether it would have ended with an error. `Exact` and
`GroupsExact` compare results with definitions over unbounded integers and sets,
and `PropsTrue` compares claims with values. An average is a fraction.

The disk of the logger is in four short windows not what a restart needs. The
constant `Windows` says in which of them a crash may come; `Windows = {}` in the
passing run, so that everything else is checked under crashes:

| window | between | a crash there |
|---|---|---|
| `first` | LOGFILE written, first catalog committed | every later start is fatal |
| `commit` | `logger_commit`, rename of `log.bak` | the old log is replayed on BATs that have its changes (run `replaytwice`) |
| `sequences` | rename of `log.bak`, `log_sequence_nrs` | the sequence numbers are lost |
| `truncated` | `logger_open` in `logger_create`, `logger_commit` after it | the replayed transactions are lost |

## 3. Runs

| run | states | shows |
|---|---|---|
| `graph` | 466,000 | all blocks of 3 instructions over 2 variables, with 1 or 2 results and up to 2 arguments each: `DFLOWinitBlk` wakes exactly the instructions that must follow, frees included, and counts each edge |
| `flow` | 417,000 | three calls, one recursive, one empty, one with duplicate edges; any allocation, thread or instruction may fail, any instruction may be refused for its memory claim; shutdown. Permits exact, each instruction at most once and not early, nothing of a released flow in use, and the answers of `DataflowSpec` |
| `live` | 259,000 | under `FairSpec`: calls and the shutdown return although the instructions of the other session, which have no memory claim, never do, and those of the call refuse each other; the pool is restored |
| `commit` | 858,000 | two BATs, no failing write: commits and subcommits are atomic and durable under crashes everywhere, with loads and swap-outs of BATs that have a delta; `Checkpoint` is implemented |
| `retry` | 48,000 | subcommits of one BAT, two failures of a write or a removal, commits that reuse BBP.dir: a failed commit leaves what a restart finds unchanged, and BBP.dir is never lost |
| `wal` | 567,000 | two columns, three transactions, two switches by `store_manager` or a session, a crash outside the windows: a restart finds the committed transactions, each once, and the object ids |
| `refs` | 155,000 | two threads and the trimmer on a BAT and a view of it: no BAT is freed in use, nothing is lost, counters exact, no circular wait |
| `store` | 1,281,000 | two sessions, two tables, any statements: snapshots exact, writers serial, no write lost, no freed version read, no needless refusal, a complete flush |
| `calc` | 856,000 | every function on every pair of scalars, on columns of up to three rows with and without claims, every candidate list, nine groupings |
| `replaytwice`, `flags`, `lostwrite` | | disagreements with a comment of the code, section 6 |

Bounds, and why they are enough:

* `Threads = 3`, `Limit = 1`: a generic worker, the specific workers of two
  calls, and a third that finds no slot (a recursive call then runs serially).
* Three instructions are the least with two producers of one, a duplicate edge
  and a variable that is freed after two readers. Two variables (`graph`) are the
  least with an argument given twice next to another, and one assigned twice.
* In `flow` every instruction has a memory claim and may fail. In `live` the two
  instructions of one call have a claim each, the least for one to be refused, and
  one of them may fail; those of the other call may run for ever and have none.
* Two BATs are the least with a subcommit that leaves one out. `MaxVersion = 3`
  gives each a version before, in and after a commit. `MaxFiles = 5` only stops
  counters that grow without limit: `BBPprepare` looks at whether they are 0.
* Three transactions are the least for create, change and change of what a
  snapshot or a switch left; one crash at every step, because `Recoverable` asks
  at every step what a restart would find, also after the crash. `MaxId = 4`
  allows two switches. Of the two columns one has changes of every kind and the
  other only creations and inserts: the two meet in the catalog and in `END`.
* One stored BAT, persistent or transient, and one view are the least with a nested
  fix; two threads and the trimmer are the least with a thread that frees, one that
  fixes and one that trims. `MaxVal = 2` tells a stale content from the latest.
* Two sessions with a table each way are enough for every conflict between a
  transaction and what was committed since it began; a session goes through
  several transactions, so versions bound earlier are reused. `MaxStamp = 7`
  allows five transactions and flushes, `MaxWork = 4` four statements in all.
* Types of 3 and 6 bits have every relation the checks distinguish (halves, limits,
  nil next to the smallest number); all pairs of scalars are covered, and columns
  take their values at the limits. Three rows are the least with a list that has
  a gap, and with a group that is interrupted.
* Where the cfg says `CHECK_DEADLOCK FALSE` the system may stop: a finished graph
  (`graph`), a worker that waits for ever after a block that never started
  (`flow`), bounds used up (the logger, the pool, the store).

## 4. Fairness

`FairSpec` of `Dataflow` assumes weak fairness for each worker, except while it
executes an instruction of a `Big` block, for each scheduler, for recursive calls
and for the loop of `stopMALdataflow`: they are threads that are not suspended
for ever. Strong fairness is assumed of one action, `WorkerDown`, the wait on
`todo->s`: permits come and go, and a specific worker that hands one back sleeps
(line 361) before it tries again, so that no worker is passed over for ever. A worker
that puts a refused instruction back sleeps as well when `todo` is empty (line 394);
if it is not, there are more permits than one. Nothing is assumed of what
`MALadmission` decides: a worker that is refused is admitted only because the claim
that was in its way is given back. No
fairness is assumed of sessions that make a call, nor of the shutdown's start.

## 5. Proofs

Every theorem below holds for every value of the constants that satisfies the
named assumptions of its module, and under no other hypothesis than the ones
given here. Each invariant was first checked by TLC on an instance of the runs.

### The scheduler

The assumptions are that there are slots for the generic workers, that each call
has a session and its block wakeup lists that lead forward (which `CountSafety`
proves of `DFLOWinitBlk`), and that the null values are distinct from the others.
The graph has one assumption of its own: no instruction reads a variable after the
end of its life, which `setLifespan` computes over the whole function and the code
asserts (`mal_dataflow.c:609`).

| module | theorem | states |
|---|---|---|
| `DataflowGraphProofs` | `WakeupSafety` | `[]WakeupsExact`: the finished lists wake those that must follow, and no others |
| | `CountSafety` | `[]BlocksMatchWakeups`: after every edge the counters agree with the lists |
| `DataflowProofs` | `TypeCorrect` | `[]TypeOK` |
| | `SlotSafety` | `[]SlotsFree`: no two threads share a slot |
| | `DoneQueueSafety` | `[]DonePermits` |
| | `PermitSafety` | `[]PermitAccounting`: the assertion in `q_dequeue` |
| | `CopySafety` | `[]SingleCopy`: an instruction is in at most one place |
| | `ReleaseSafety` | `[]ReleasedClean`: nothing of a released flow is in use |
| | `SpecificSafety` | `[]WorkerStaysSpecific`, if `SessionCalls` |
| | `PoolSafety` | `[]PoolRestored`, if `SessionCalls` and `Initialised` |
| | `BlocksSafety` | `[]BlocksExact`: the counters are the open dependencies |
| | `Refinement` | `Spec => ImplementsSpec`: `Dataflow` implements `DataflowSpec` |

The two hypotheses are the borders of section 6. `SessionCalls` says that every call
is made by its session at calldepth 1. Otherwise `WorkerStaysSpecific` is false: a
call that is nested in the work of a generic worker, or made at a greater depth,
creates a generic worker. That worker may exit for another call and its slot be
taken for the worker of a third one, which the first call then makes generic when it
returns. TLC finds this in 41 steps with `Deep = {f1}`, three slots and the three
calls of `UnboundClients`. `Initialised` says that no allocation fails and no block is empty:
after `InitFails` a generic worker is told to exit while the new one stays specific.

The graph needs an invariant because the lists are exact only at the end.
`WakesSeen` says of each step what the lists hold so far: `Used` and `Freed` tell
for which arguments the first and the second edge have been looked at.
`AssignExact` says that `assign` has the latest assignment before the current
instruction; an edge from there is then the edge from what the argument reads
(`LatestReads`), also when a variable is assigned more than once. `Counted` grows by
one entry with each edge (`AddEdgeCounted`). At the end everything has been looked
at, and what has been looked at is what `MustFollow` says.

The invariant of the scheduler grows in three stages; the theorems on the pool have
a branch of their own.

* `IInv == Shape /\ Threading /\ DonePermits`. `Shape` adds to the types that a
  scheduler inside a loop has something left to do and that a worker handling an
  instruction has one: without these `Head` and the update of a status array have
  no type. `Threading` adds to `SlotsFree` that the slot a call joins belongs to
  it alone, that the shutdown begins when no call is active, and that a recursive
  call is made inside a running instruction. The last is what makes the shutdown
  safe: if no session has a call, none is active, so nobody else joins with a
  thread. `DonePermits` is needed for the types: the semaphore is positive only if
  the queue is not empty. `PermitSafety` needs only `IInv` and the frame of each
  action.
* `CInv` adds where the instructions are. The number of copies of an item is a sum
  over the queues and the workers, and every step lets one instruction in, takes
  one out, or moves one (`NextTraffic`). `Held` says that a worker never drops what
  it has at hand; `Seeding` and `Fresh` that whoever starts an instruction finds it
  pending; `Counted` that `tasks` is the number of instructions that came back. So
  when `tasks` reaches the size of the block all came back and none is anywhere
  (`AllGone`, `AllBackClean`), which keeps `Live`: only the instructions of a block
  that is being scheduled are anywhere. `ReleasedClean` follows.
* `RInv` adds the results. `BlocksExact` is inductive once it is known that an
  instruction comes back once. Then a counter of 0 means that all producers came
  back, and `Settled` and `Ready` that they came back without an error, so that
  `Outcomes` and `Answers` give the answers of the abstract specification. Every
  step of `Dataflow` is a step of `DataflowSpec` or leaves its variables alone.

* `Binding` adds to `IInv` that the slot of a call that has not released its worker
  is its alone, has a thread, and is specific to its session, and that a worker
  exits before the shutdown only if it found itself generic. The last is stable
  because only a release changes what a worker is specific to, and makes it generic.
  `PoolCount` then counts: the generic workers are those of `runMALdataflow` plus
  `exitcount` plus the calls between the release of a worker and the token that tells
  one to exit.

### The checkpoints

| module | theorem | hypothesis | states |
|---|---|---|---|
| `BBPsyncProofs` | `TypeCorrect` | none | `[]TypeOK` |
| | `DirSafety` | none | `[]DirKept`: a BBP.dir is always there |
| `BBPsyncRecovery` | `RecoverySafety` | `Faultless`, `Marking` | `[]Recoverable` |
| | `Durability` | `Faultless`, `Marking` | `[]Durable` |
| | `CounterSafety` | `Faultless` | `[]CountersSound` |
| | `BackupDirSafety` | `Faultless` | `[]BackupDirExact` |
| | `Refinement` | `Faultless`, `Marking` | `Spec => ImplementsCheckpoint` |
| `BBPsyncRetry` | `RetrySafety` | `Steady`, `OneKind`, `[]CommitsAll` | `[](Recoverable /\ Undone /\ Durable /\ CountersSound /\ BackupDirExact)` |
| | `FullCommitSafety` | `Steady`, no subcommits | `[](Recoverable /\ Undone /\ Durable)` |
| | `OneBatSafety` | `Steady`, `OneKind`, one BAT | `[](Recoverable /\ Undone)` |

The hypotheses are the borders of section 6, beyond which the properties are
false. `Faultless` is the setting of run `commit` for any number of BATs, of
versions and of subcommits: writes succeed, a crash comes anywhere. `Steady` only
excludes a deleted BAT in use and a server that goes on after a commit reported as
failed; writes and removals fail any number of times. There `CommitsAll` is
needed: a subcommit that fails leaves its backups in SUBCOMMIT, and one of other
BATs removes them. With one BAT every commit is for all, as in run `retry`, and so is
every TMcommit.

`Marking` and `OneKind` are about BATs that are swapped out without a delta, which a
subcommit does not find: their backup stays in `BACKUP` when it succeeds, and the next
restart puts the old heap back. `Marking` says that, if there are subcommits, no change
is made in place and BBPtrim keeps off what a subcommit lists; `OneKind` says the same
and that the commits are either all TMcommits or all subcommits, since a TMcommit that
fails has ended the deltas and leaves backups in `BACKUP`. Both are empty for a
database without subcommits: there a backup in `BACKUP` is where the commit wants it,
so `FullCommitSafety` holds with changes in place and with failing writes. What the
counters and `backup_dir` promise does not depend on it, so `CounterSafety` and
`BackupDirSafety` have neither hypothesis: they are proved from the part of the
invariant that speaks of directories only (`DirInv`), which a backup that is left
behind does not disturb.

`DirKept` alone is not inductive: `BBPprepare` decides by `backup_dir` what to
move, so the invariant says where `backup_dir` is exact (`Located`), and where it
may be stale that `BBP_dirty` is set, so that nobody uses it (`Kept`).

The invariants of the other two modules have the same parts.

* `DirPlaced`: in which of the three directories BBP.dir is, at each step.
* `Rooms`, `Counted`: the directories that the counters stand for are there.
* In `BBPsyncRecovery`, `FilesPlaced`: at which steps there can be backups of heaps at
  all. It completes `DirInv`, the part about directories.
* `Marks`: if there are subcommits, a BAT with a backup in `BACKUP` is BBPSWAPPED, and
  one that is dirty, and may be swapped out next, has a delta or has the flag already.
  This is what makes phase 1 of a subcommit find every backup (`FromBak`). In
  `BBPsyncRetry` a failed subcommit leaves BATs dirty without a delta, but also BBP.dir
  in `SUBCOMMIT`, and with it there no swap-out gets further than `BBPprepare`.
* `Backups`: a backup is the heap of the checkpoint, and a heap without one is in
  `bat/`. This is the heart; it makes `Recovered` equal to the BBP.dir that a
  restart reads (`RestartFinds`), and only the rename changes that.
* `InMemory`: the status of a BAT says whether the checkpoint has it, so that
  phase 1 backs up what must be; in `BBPsyncRetry` also that a BAT that differs
  from the checkpoint makes the next commit write a BBP.dir of its own.
* `Swapping`: a swap-out writes over a heap of the checkpoint only after its
  backup, and never works on a BAT of the commit that runs.
* `Phases`: phase 2 writes what phase 1 has backed up, and at the rename BBP.dir
  has the entries of what was written; in `BBPsyncRetry` also that what a restart
  finds is what it was when the commit began, until the rename.

### The logger

The assumptions are those on the constants of `Logger`; `NoFile` is no id.

| module | theorem | hypothesis | states |
|---|---|---|---|
| `LoggerProofs` | `FatalSafety` | `Guarded` | `[]NeverFatal` |

`Guarded` is the border of section 6: `Overlap` is FALSE and no crash comes in the
window `first`; crashes may come in the other three. The invariant is about control
only. `Restartable`: the catalog exists if and only if LOGFILE or LOGFILE.bak holds
an id, of which LOGFILE.bak comes first, in the middle of a switch and of a restart
too. `Placed` says where the ids are at each step of a switch. `OneSwitch` and
`Listed`: the list of old files that a cleanup looks for was written by the switch it
follows, and is still there, because whoever switches, a session with the lock,
`store_manager`, or `logger_create`, has cleaned up when the next switch begins.

### The transactions

The assumptions are that the sessions are finitely many, that every table has a
column, and that the bound on the timestamps leaves room for a first transaction.

| module | theorem | states |
|---|---|---|
| `StoreProofs` | `TypeCorrect` | `[]TypeOK` |
| | `WriteSafety` | `[]NoWriteLost`: the latest versions are what was committed |
| | `SnapshotSafety` | `[]SnapshotExact` |
| | `BindingSafety` | `[]NoDangling`: what a transaction has bound is not freed |
| | `ConflictSafety` | `[]NoSpuriousConflict` |
| | `Serializability` | `Spec => CommitsSerial` |
| | `FlushSafety` | `Spec => FlushComplete` |

All seven have the hypothesis `Ordered`: transactions that write commit in the order
in which they began (`InOrder`), and the clock has left 0 (`InitialTime > 0`). These
are the two rows of `Store` in section 6. Without the first `NoWriteLost` is false, as
run `lostwrite` shows; without the second a read leaves no mark.

The invariant `IInv` is one for all seven, since each property needs the others: a
commit puts a private copy in front of the versions, so what was committed is kept
only if the copy was made of the latest one, which is a fact about snapshots.

* `Times`, `Marked`: a transaction begins at the time of the last commit or flush;
  its marks are its own times, and what it has marked it has marked on the levels
  above, where `validate_tables` and `reset_trans` look first.
* `Heights`: the same for the marks of the global transaction. With it, an object
  that was written later than a transaction began is never skipped.
* `Chains`: the ids of the versions of an object differ; rows of a column that are
  not merged are found by the next flush, which looks at `allocated` level by level.
* `Bindings`: a shared version that a session has, from an earlier transaction too,
  is the latest one, or the session resets it when it begins again. This is why no
  version is freed under a session.
* `Snapshots`: what a transaction has bound, or would bind, is the snapshot of its
  beginning, and an object that was not written since is unchanged.
* `Progress`: a commit that moves the clock has added a row somewhere, so that a
  snapshot that equals what is committed means that the clock has not moved.

Each statement is composed of binds,
copies, marks and changes, with one lemma for each (`BoundEffect`, `CopiedEffect`,
`ReadEffect`, `WrittenEffect`, `PutEffect`). The commit is the hard step. Validation
gives that what was touched is as it was at the beginning (`Validated`), so the copy
of the deletes has the rows of the latest version first, and exchanging their BATs
leaves the previous version what it was (`CommitRows`, `CommitChain`). A commit alone
merges all versions into one (`CommitAlone`); with others about, it only adds one,
which is too new for them (`CommitBusy`, `VisiblePrepend`).

### The buffer pool

The assumptions are that threads and BATs are finitely many, that a parent is a
stored BAT and not a view, and that the trimmer is none of the threads.

| module | theorem | states |
|---|---|---|
| `BBPrefsProofs` | `Invariance` | `[]Inv`, the inductive invariant |
| | `TypeCorrect` | `[]TypeOK`: no counter is ever below zero |
| | `UseIsSafe` | `[]UseSafe`: what is fixed is in memory, and a view's parent too |
| | `NothingIsLost` | `[]NothingLost`: contents are in memory or in the file |
| | `CountersAreExact` | `[]CountersExact`: the counters are what the holders have |

The hypothesis is `FlagsLocked`: the epilogue of a subcommit takes the lock of the
flags it clears, or there is no subcommit. The code does not take it (section 6), and
run `flags` shows that `UseSafe` is false then. Every other write without the lock,
that of `BBP_status_off` in a load, a save and a swap-out, is covered by the theorems.

None of the three properties is inductive: each depends on what the threads in the
middle of a call will still do. The invariant is
`Inv == TypeOK /\ Shaped /\ Counters /\ Pool`.

* `Shaped`: what a thread still has to do is one of a few lists (`Formed`), so that
  the next step says what comes after it. The first part of the module shows that every action
  replaces one such list by another, and turns lists into sets of steps; from there
  on the proofs only speak of what a thread `Has` to do, `Clears` or `Writes`.
* `Counters`: a counter is what threads hold, plus what a thread has counted and will
  give back or hand over (`OwesFix`, `OwesKeep`), plus what views have counted for
  their parent. This is `CountersExact` in the middle of calls.
* `Flagged`, `Unloading`, `Loading`: each UNLOADING and each LOADING has one owner,
  from the step that sets it to the step that clears it, and nobody fixes a BAT that
  is being unloaded. Between the read and the write of a status outside the lock
  (`Written`) the owner's flag and that of the others do not change, which is
  why the write does not lose a flag.
* `Clean`, `Spinning`, `Saving`, `Contents`: nobody changes a BAT between the end of
  its save and the moment it leaves the memory: whoever saves has the only fix or
  owns the UNLOADING.
* `Exist`, `Begun`, `Needed`, `Based`: an entry that is counted exists, a thread that
  begins to fix a BAT finds it kept by somebody, and the pointer of a view is
  valid as long as the view is fixed, since the view holds a fix of its parent.

A step disturbs one entry, mostly by one flag or one counter. A lemma for each kind
of change (`EntryStay`, `LastingStay`, `Marks`, `Elsewhere`) says that an entry stays
right, a lemma for each action that it makes such a change, and `Recount` that the
counters remain exact when what one thread counts is what it owes afterwards.

### Only model-checked

Liveness and everything about fairness is out of the prover's reach (`CallsReturn`,
`StopReturns`). Of `BBPrefs`, `SomeoneRuns`, which speaks of ENABLED, is left to TLC. Of
`Logger` so is what a restart finds (`Recoverable`, `SequenceKept`, `ViewExact`): it is
the result of folding the replay over the records of a file. So are all of `Calc` and
`Aggr`.

## 6. Findings

Each is a run of its own whose counterexample is the shortest TLC finds.

* `replaytwice`: a crash after `logger_commit` and before `log.bak` is renamed
  repeats inserts (`gdk_logger.c:2061`).
* `flags`: the epilogue of a commit clears status bits without the lock and drops
  the UNLOADING bit another thread has set meanwhile (`gdk_tm.c:121`).
* `lostwrite`: validation compares with the time of the last commit before the
  start, so a write committed after the start by a transaction that began earlier
  is overwritten (`store.c:3183`).

Known deviations. The passing runs keep to where the code does what it should; a
named constant or operator marks the border, and changing it shows the deviation:

| constant or operator | in the runs | what the other value shows |
|---|---|---|
| `Deep` of `Dataflow` | no `f1` | a call at calldepth 2 makes the specific worker of another session generic (`mal_dataflow.c:754`) |
| empty blocks of `Dataflow` | none in `live` | the pool ends one worker short (`mal_dataflow.c:696`) |
| `NewOids` of `BBPsync` | TRUE in `commit` | with two BATs a subcommit succeeds without an entry for its BAT, since another one cleared `BBP_dirty` (`gdk_bbp.c:3884`) |
| `InPlace` of `BBPsync` | FALSE | a BAT changed in place has no delta, is swapped out without BBPSWAPPED and not found by a subcommit: that succeeds, its old backup stays in `BACKUP`, and a restart puts the old heap under the new entry (`gdk_bbp.c:2847`, 3472, 3805; one BAT is enough) |
| `Trims` of `BBPsync` | FALSE | the same for a BAT that BBPtrim swaps out after the prelude of its subcommit has ended the delta (`gdk_tm.c:68`) and before the trim locks (197) |
| `Kinds` of `BBPsync` | {TRUE} in `retry` | the same for a BAT that is swapped out after a failed TMcommit, which has ended its delta and left backups in `BACKUP`, when a subcommit follows |
| `Claims` of `Dataflow` | those of `f1` in `live` | with a claim of `f2` too, a call of one instruction starves: while `f2` executes its own, that of `f1` is refused and queued again for ever (`mal_dataflow.c:386`, `mal_resource.c:135`), although the comment at line 768 promises every client progress; `CallsReturn` is violated |
| `MaxFails` of `BBPsync` | 0 with two BATs | a subcommit after a failed one of other BATs removes their backups (`gdk_bbp.c:3871`) |
| `Referenced` of `BBPsync` | FALSE | a deleted BAT that is dirty is swapped out without a backup |
| `AfterLate` of `BBPsync` | FALSE | a commit that was done at the second attempt is reported as failed; a deletion after it removes a heap of the checkpoint (`gdk_bbp.c:3873`) |
| `Windows` of `Logger` | {} | the four windows above |
| `Overlap` of `Logger` | FALSE | a session that copies under the lock (`sql_result.c:792`) switches the log while `store_manager` cleans up without it: the list it looks for is not there and the server ends (`store.c:1772`); nothing committed is lost |
| `LocksFlags` of `BBPrefs` | TRUE in `refs` | run `flags` |
| `UnreferencedGone` of `BBPrefs` | not in a run | a swapped-out transient BAT is never destroyed when its last reference goes (`gdk_bbp.c:2631`) |
| `InOrder` of `Store` | TRUE in `store` | run `lostwrite` |
| `InitialTime` of `Store` | 1 | at 0, the first transactions after a restart leave no read marks, and a write is lost |
| `Deviates` of `Calc` | left out | `isnotnil` is false throughout for a column known to have no nil (`gdk_calc.c:863`); unary functions with a list that leaves rows out note false claims in their operand; overflow of `incr` and `decr` does so too; bitwise results can be nil uncounted; a remainder narrower than its left operand is cut too early (9507); shifts with the widest type are not checked for overflow or a negative distance (11914) |
| `GroupDeviates` of `Aggr` | left out | with a list that does not begin at the first row groups are read at twice the offset (`gdk_aggr.c:528`); shortcuts take singleton groups to be in order and one extent to hold all rows (508, 190); a nil that comes first in its group is forgotten when nils are not skipped (232, 696); the product of nils only is 1 in the widest type (726); the average of no values is 0/0 (1627) |

With `Deviations = TRUE` the calls of the last two rows are explored as well.

## 7. Not modelled

`PROJECT.json` lists every component with the reason. In `Dataflow` the size of
the memory pool and of the claims, and the first initialisation are left out; in `BBPsync` views,
memory-mapped heaps with their `.new` and `.kill` files, and `TMabort`; in
`Logger` the shared logger, `keep_persisted_log_files > 0`, upgrades of old
versions, failing writes (the server ends), the deleted rows of a table and a
column that one transaction clears and fills again; in `BBPrefs` loads and saves
that fail, `BBPcold` and `BBPhot` (nothing calls them), views that share only a
variable-size heap; in `Store` changes of the schema, indexes, `clear_table`,
temporary tables, chained transactions, savepoints and failing log writes; in `Calc`
and `Aggr` floating point, strings, oids, dense columns, quantiles, standard
deviations, and the imprints of `BATminmax`. Renames are taken to reach
the disk in order, and file contents to be on disk once they were synchronised.

The SQL front end, the optimizers and the code generator rewrite terms: their
correctness is a matter of the semantics of SQL and MAL programs, of which there
is no definition in the repository to check them against, and their state is the
program being rewritten. Selection, join, grouping and hashing could be modelled
like `Calc`; streams, options and the R binding move data.

## 8. Plan

1. Proofs: the overflow checks of `Calc` as lemmas on `ADD_WITH_CHECK`,
   `SUB_WITH_CHECK` and `AVERAGE_ITER`, for every number of bits.
2. `Logger` against an abstract durable store by refinement; old
   log files that are kept.
3. Schema changes and savepoints in `Store`; the composition of `Store` and `Logger`.
4. `BBPdir_subcommit` as a pure algorithm against a map merge; `gdk_delta.c`.
5. `gdk_select.c`, `gdk_group.c` and `gdk_join.c` as algorithms on columns.
6. Embedded API and clients.
