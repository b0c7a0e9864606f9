------------------------------- MODULE Store --------------------------------
(***************************************************************************)
(* The transactions of the SQL store (store.c, bat_storage.c, sql_mvc.c):  *)
(* every session has a copy of the catalog in which it marks what it read  *)
(* and wrote, the versions of a column form a chain in the global          *)
(* transaction gtrans, a commit validates these marks and then adds its    *)
(* versions to the chains, or merges them into the central BATs if no      *)
(* other transaction is active, and a flush merges what is left.           *)
(*                                                                         *)
(* The contents of a column or of the list of deleted rows of a table is   *)
(* the sequence of the transactions that wrote it, each named by its       *)
(* timestamp.  There is one schema.  A statement is one step: sessions     *)
(* share nothing while they run it but the chains, which only a commit     *)
(* changes, under the store lock.                                          *)
(***************************************************************************)
EXTENDS Naturals, Sequences, FiniteSets, FiniteSetsExt

CONSTANTS
    Sessions,    \* sessions, each with a transaction it uses again and again
    Tables,      \* tables; the object that names one also is its deletes
    Columns,     \* columns of all tables
    TableOf,     \* the table of a column
    Schema,      \* the schema all tables are in
    InitialTime, \* gtrans->wtime when the sessions start: 0 after a restart
    InOrder,     \* whether commits that write are in the order of the starts
    MaxStamp,    \* bound on the timestamps
    MaxWork      \* bound on the statements of all transactions

Objects == Tables \cup Columns
Bases   == Objects \cup {Schema}

ASSUME StoreAssumption ==
    /\ Tables \cap Columns = {} /\ Schema \notin Objects
    /\ TableOf \in [Columns -> Tables]
    /\ \A t \in Tables : \E c \in Columns : TableOf[c] = t
    /\ IsFiniteSet(Sessions)
    /\ InitialTime \in Nat /\ InOrder \in BOOLEAN /\ {MaxStamp, MaxWork} \subseteq Nat
    /\ InitialTime + 2 <= MaxStamp

VARIABLES
    stamp,     \* the counter behind timestamp()
    gtrans,    \* wtime and wstime of the global transaction
    global,    \* rtime, wtime and allocated of the objects of gtrans
    chain,     \* the versions of an object, the latest first
    central,   \* the contents of the BAT of an object that the logger knows
    trans,     \* the transaction of each session
    committed, \* what was committed to each object, in order
    snapshot,  \* committed when the transaction of a session began
    work       \* the number of statements so far

store == <<stamp, gtrans, global, chain, central>>
vars  == <<store, trans, committed, snapshot, work>>

ColumnsOf(t) == {c \in Columns : TableOf[c] = t}
FirstColumn(t) == CHOOSE c \in ColumnsOf(t) : TRUE
Active == {s \in Sessions : trans[s].active}

\* The data of an object in a transaction: nothing yet, a version in the
\* chain of gtrans, or a private copy (allocated) and the transaction's own
\* rows in it.
NoData      == [kind |-> "none"]
Shared(v)   == [kind |-> "shared", id |-> v.id]
Private(v)  == [kind |-> "private", delta |-> v.delta, own |-> <<>>, wtime |-> v.wtime]
Untouched   == [rtime |-> 0, wtime |-> 0, data |-> NoData]

\* The versions of a column share the central BAT, those of the deletes do
\* not.
Content(o, delta) == IF o \in Columns THEN central[o] \o delta ELSE delta

Init ==
    /\ stamp = InitialTime + 2
    /\ gtrans = [wtime |-> InitialTime, wstime |-> InitialTime + 1]
    /\ global = [b \in Bases |-> [rtime |-> 0, wtime |-> 0, allocated |-> 1]]
    /\ chain = [o \in Objects |-> <<[id |-> 0, wtime |-> 0, delta |-> <<>>]>>]
    /\ central = [o \in Objects |-> <<>>]
    /\ trans = [s \in Sessions |-> [active |-> FALSE, stime |-> InitialTime, wstime |-> 0, wtime |-> 0,
                                    base |-> [b \in Bases |-> Untouched]]]
    /\ committed = [o \in Objects |-> <<>>]
    /\ snapshot = [s \in Sessions |-> committed]
    /\ work = 0

(***************************************************************************)
(* sql_trans_begin.  What the last transaction of the session touched, or  *)
(* others changed since it began, is taken anew from gtrans.               *)
(***************************************************************************)
Resets(tr, b) == \/ tr.base[b].rtime # 0
                 \/ tr.base[b].wtime # 0
                 \/ tr.stime < global[b].wtime

\* reset_changeset: each level is visited if the level above is reset.
Visited(tr, b) == /\ b # Schema => Resets(tr, Schema)
                  /\ b \in Columns => Resets(tr, TableOf[b])

\* Mutant: the marks of the last transaction stay.
KeepMarks(tr, b) == IF Visited(tr, b) /\ Resets(tr, b) THEN [tr.base[b] EXCEPT !.data = NoData] ELSE tr.base[b]

ResetBase(tr, b) ==
    IF ~Visited(tr, b) THEN tr.base[b]
    ELSE IF Resets(tr, b) THEN Untouched ELSE [Untouched EXCEPT !.data = tr.base[b].data]

reset_trans(tr) == [b \in Bases |-> ResetBase(tr, b)]

Begin(s) ==
    LET tr == trans[s] IN
    /\ ~tr.active
    /\ stamp < MaxStamp
    /\ trans' = [trans EXCEPT ![s] =
                   [active |-> TRUE, stime |-> gtrans.wtime, wstime |-> stamp, wtime |-> 0,
                    base |-> IF tr.stime < gtrans.wstime \/ tr.wtime # 0 THEN reset_trans(tr) ELSE tr.base]]
    /\ stamp' = stamp + 1
    /\ snapshot' = [snapshot EXCEPT ![s] = committed]
    /\ UNCHANGED <<gtrans, global, chain, central, committed, work>>

(***************************************************************************)
(* Statements, as functions on the transaction.                            *)
(***************************************************************************)
\* timestamp_delta, timestamp_dbat.
Visible(versions, time) ==
    versions[Min({i \in DOMAIN versions : i = Len(versions) \/ versions[i].wtime <= time})]

\* The first use of the objects in os.
Bound(tr, os) == [tr EXCEPT !.base = [b \in Bases |->
    IF b \in os /\ tr.base[b].data.kind = "none"
      THEN [tr.base[b] EXCEPT !.data = Shared(Visible(chain[b], tr.stime))]
      ELSE tr.base[b]]]

\* A private copy; what is there already is kept if it is private.
Copied(tr, os) == [tr EXCEPT !.base = [b \in Bases |->
    IF b \in os /\ tr.base[b].data.kind # "private"
      THEN [tr.base[b] EXCEPT !.data = Private(Visible(chain[b], tr.stime))]
      ELSE tr.base[b]]]

\* The timestamps of the objects in bs.
Read(tr, bs) == [tr EXCEPT !.base = [b \in Bases |->
    IF b \in bs THEN [tr.base[b] EXCEPT !.rtime = tr.stime] ELSE tr.base[b]]]
Written(tr, bs) == [tr EXCEPT !.wtime = tr.wstime, !.base = [b \in Bases |->
    IF b \in bs THEN [tr.base[b] EXCEPT !.wtime = tr.wstime] ELSE tr.base[b]]]

\* New rows and updates in the private copies of the objects in os.
OwnChange(tr, d) == [d EXCEPT !.own = <<tr.wstime>>, !.wtime = tr.wstime]
Put(tr, os) == [tr EXCEPT !.base = [b \in Bases |->
    IF b \in os THEN [tr.base[b] EXCEPT !.data = OwnChange(tr, @)] ELSE tr.base[b]]]

\* What the transaction sees of an object, its own changes included.
VersionOf(versions, id) == versions[CHOOSE i \in DOMAIN versions : versions[i].id = id]
View(tr, o) == LET d == tr.base[o].data IN
    IF d.kind = "shared" THEN Content(o, VersionOf(chain[o], d.id).delta) ELSE Content(o, d.delta \o d.own)

\* SQLtid: the number of rows and the deleted ones; only deletes that are
\* there are marked as read.
tid(tr, t) ==
    LET bound == Bound(tr, {FirstColumn(t), t}) IN
    IF View(bound, t) # <<>> THEN Read(bound, {t, Schema}) ELSE bound

\* Mutant: a read of a column leaves no mark.
QuietBind(tr, c) == Bound(tr, {c, TableOf[c]})

bind_col(tr, c) == Read(Bound(tr, {c, TableOf[c]}), {c, TableOf[c], Schema})

update_col(tr, c) ==
    LET up == {c, TableOf[c], Schema} IN Put(Read(Written(Copied(tr, {c}), up), up), {c})

\* append_col for every column of a table.  Appends are marked as reads of the
\* table, not of the column.
append_cols(tr, t) ==
    LET cs == ColumnsOf(t) IN
    Copied(Put(Read(Written(Copied(tr, cs), cs \cup {t, Schema}), {t, Schema}), cs), {t})

delete_tab(tr, t) == Put(Written(Bound(Copied(tr, {t}), ColumnsOf(t)), {t, Schema}), {t})

Statement(s, tr) ==
    /\ trans[s].active
    /\ work < MaxWork
    /\ work' = work + 1
    /\ trans' = [trans EXCEPT ![s] = tr]
    /\ UNCHANGED <<store, committed, snapshot>>

Count(s)  == \E t \in Tables : Statement(s, tid(trans[s], t))
Select(s) == \E c \in Columns : Statement(s, bind_col(tid(trans[s], TableOf[c]), c))
Update(s) == \E c \in Columns : Statement(s, update_col(tid(trans[s], TableOf[c]), c))
Insert(s) == \E t \in Tables : Statement(s, append_cols(trans[s], t))
\* DELETE FROM t WHERE a condition on c.
Delete(s) == \E c \in Columns :
    Statement(s, delete_tab(bind_col(tid(trans[s], TableOf[c]), c), TableOf[c]))

(***************************************************************************)
(* sql_trans_validate.                                                     *)
(***************************************************************************)
\* Mutant: a committed write before the read is no conflict.
NoReadConflict(tr, b) ==
    tr.base[b].wtime # 0 /\ (tr.base[b].wtime < global[b].rtime \/ tr.base[b].wtime < global[b].wtime)

Conflict(tr, b) ==
    \/ tr.base[b].wtime # 0 /\ (tr.base[b].wtime < global[b].rtime \/ tr.base[b].wtime < global[b].wtime)
    \/ tr.base[b].rtime # 0 /\ tr.base[b].rtime < global[b].wtime

Touched(tr, b) == tr.base[b].rtime # 0 \/ tr.base[b].wtime # 0

sql_trans_validate(tr) ==
    Touched(tr, Schema) =>
       \A t \in Tables : Touched(tr, t) =>
          ~Conflict(tr, t) /\ \A c \in ColumnsOf(t) : ~Conflict(tr, c)

(***************************************************************************)
(* sql_trans_commit: update_table for every table that was written.        *)
(***************************************************************************)
\* Mutant: the versions are always merged.
AlwaysAlone == TRUE

Alone == Cardinality(Active) = 1

IsPrivate(tr, o) == tr.base[o].data.kind = "private"
Pushes(tr, o)    == ~Alone /\ IsPrivate(tr, o) /\ (o \in Columns => tr.base[o].wtime # 0)

\* The changes in a private copy beyond what was copied.
OwnRows(tr, o) == IF IsPrivate(tr, o) THEN tr.base[o].data.own ELSE <<>>

\* A list of deletes that was only copied, for an insert, keeps its time.
NewVersion(tr, o) == LET d == tr.base[o].data IN [id |-> tr.wstime, wtime |-> d.wtime, delta |-> d.delta \o d.own]

\* tr_update_dbat_swap: the new version gets the central BAT with its rows,
\* the one before it the private BAT without them.
Swapped(tr, t) ==
    LET old == Head(chain[t])
        bat == NewVersion(tr, t).delta
    IN  <<[NewVersion(tr, t) EXCEPT !.delta = old.delta \o OwnRows(tr, t)],
          [old EXCEPT !.delta = IF OwnRows(tr, t) = <<>> THEN bat ELSE SubSeq(bat, 1, Len(old.delta))]>>
        \o Tail(chain[t])

\* Mutant: older versions are freed although others may use them.
FreesOlder(tr, o) ==
    CASE Pushes(tr, o) -> <<IF o \in Tables THEN Swapped(tr, o)[1] ELSE NewVersion(tr, o)>>
      [] Alone /\ o \in Tables -> <<[Head(chain[o]) EXCEPT !.delta = @ \o OwnRows(tr, o)]>>
      [] Alone /\ o \in Columns -> <<[Head(chain[o]) EXCEPT !.delta = <<>>]>>
      [] OTHER -> chain[o]

NewChain(tr, o) ==
    CASE Pushes(tr, o) -> IF o \in Tables THEN Swapped(tr, o) ELSE <<NewVersion(tr, o)>> \o chain[o]
      [] Alone /\ o \in Tables -> <<[Head(chain[o]) EXCEPT !.delta = @ \o OwnRows(tr, o)]>>
      [] Alone /\ o \in Columns -> <<[Head(chain[o]) EXCEPT !.delta = <<>>]>>
      [] OTHER -> chain[o]

\* tr_update_delta and tr_merge_delta change the central BAT in place.
NewCentral(tr, o) ==
    IF o \in Tables THEN NewChain(tr, o)[1].delta
    ELSE IF ~Alone THEN central[o]
    ELSE central[o] \o (IF IsPrivate(tr, o) THEN NewVersion(tr, o).delta ELSE Head(chain[o]).delta)

Later(a, b) == IF a < b THEN b ELSE a

\* The objects of the tables that the transaction wrote.
Forwarded(tr) == {t \in Tables : tr.base[t].wtime # 0} \cup {c \in Columns : tr.base[TableOf[c]].wtime # 0}

End(s, base) ==
    /\ trans' = [trans EXCEPT ![s].active = FALSE, ![s].base = base]
    /\ snapshot' = [snapshot EXCEPT ![s] = [o \in Objects |-> <<>>]]

sql_trans_commit(s) ==
    LET tr == trans[s]
        fw == Forwarded(tr)
    IN  /\ chain' = [o \in Objects |-> IF o \in fw THEN NewChain(tr, o) ELSE chain[o]]
        /\ central' = [o \in Objects |-> IF o \in fw THEN NewCentral(tr, o) ELSE central[o]]
        /\ global' = [b \in Bases |-> IF b \in fw \cup {Schema}
                        THEN [global[b] EXCEPT !.rtime = Later(@, tr.base[b].rtime), !.wtime = Later(@, tr.base[b].wtime)]
                        ELSE global[b]]
        /\ gtrans' = [wtime |-> Later(gtrans.wtime, tr.wtime), wstime |-> Later(gtrans.wstime, tr.wstime)]
        /\ End(s, [b \in Bases |-> IF b \in fw THEN Untouched ELSE tr.base[b]])
        /\ committed' = [o \in Objects |-> committed[o] \o OwnRows(tr, o)]
        /\ UNCHANGED <<stamp, work>>

\* mvc_commit.
Commit(s) ==
    /\ trans[s].active
    /\ trans[s].wtime # 0
    /\ sql_trans_validate(trans[s])
    /\ InOrder => gtrans.wtime < trans[s].wstime
    /\ sql_trans_commit(s)

\* A commit of nothing, a refused commit and mvc_rollback leave the
\* transaction as it is until the session begins the next one.
Rollback(s) ==
    /\ trans[s].active
    /\ End(s, trans[s].base)
    /\ UNCHANGED <<store, committed, work>>

(***************************************************************************)
(* store_manager: with no transaction active, gtr_update brings the        *)
(* central BATs up to date before the log is switched.                     *)
(***************************************************************************)
\* Mutant: a flush does not move the start of the next transactions.
OldTime(changed, time) == gtrans.wtime

FlushTime(changed, time) == IF changed # {} THEN time ELSE gtrans.wtime

\* Mutant: columns are skipped when nothing was deleted.
ChangedWithDeletes(b) == /\ global[b].wtime > global[b].allocated
                         /\ b \in Columns => Head(chain[TableOf[b]]).delta # <<>>

Changed(b) == global[b].wtime > global[b].allocated

\* The objects that gtr_update looks at, and those it changes.
Looked == {b \in Objects : Changed(b) /\ Changed(Schema) /\ (b \in Columns => Changed(TableOf[b]))}
Merged == {c \in Looked \cap Columns : Head(chain[c]).delta # <<>>}

Flush ==
    /\ Active = {}
    /\ stamp < MaxStamp
    /\ LET above == IF Merged = {} THEN {} ELSE Merged \cup {TableOf[c] : c \in Merged} \cup {Schema} IN
       /\ chain' = [o \in Objects |-> IF o \in Looked \cap Columns THEN <<[Head(chain[o]) EXCEPT !.delta = <<>>]>> ELSE chain[o]]
       /\ central' = [o \in Objects |-> IF o \in Merged THEN Content(o, Head(chain[o]).delta) ELSE central[o]]
       /\ global' = [b \in Bases |-> IF b \in above THEN [global[b] EXCEPT !.wtime = stamp, !.allocated = stamp] ELSE global[b]]
       /\ gtrans' = [wtime |-> FlushTime(above, stamp), wstime |-> stamp]
    /\ stamp' = stamp + 1
    /\ UNCHANGED <<trans, committed, snapshot, work>>

Next ==
    \/ \E s \in Sessions : Begin(s) \/ Count(s) \/ Select(s) \/ Update(s) \/ Insert(s) \/ Delete(s)
    \/ \E s \in Sessions : Commit(s) \/ Rollback(s)
    \/ Flush

Spec == Init /\ [][Next]_vars

(***************************************************************************)
(* Properties.                                                             *)
(***************************************************************************)
Stamps == 0 .. MaxStamp

\* The values of the variables: the times of a transaction are older than the
\* counter and its marks are its own times.
TypeOK ==
    /\ stamp \in Stamps
    /\ gtrans \in [wtime : Stamps, wstime : Stamps]
    /\ global \in [Bases -> [rtime : Stamps, wtime : Stamps, allocated : Stamps]]
    /\ \A o \in Objects : chain[o] # <<>> /\ central[o] \in Seq(Stamps) /\ committed[o] \in Seq(Stamps)
    /\ \A s \in Sessions, b \in Bases : trans[s].active =>
          /\ trans[s].base[b].rtime \in {0, trans[s].stime}
          /\ trans[s].base[b].wtime \in {0, trans[s].wstime}

\* Every committed write is in the latest version of its object, exactly once
\* and in the order of the commits: no commit discards another one
\* (validate_tables, update_table).
NoWriteLost == \A o \in Objects : Content(o, Head(chain[o]).delta) = committed[o]

\* A version that an active transaction reads has not been freed by a commit
\* or a flush since an earlier transaction of the session bound it
\* (tr_update_delta, tr_merge_delta, gtr_update_delta, reset_trans).
NoDangling ==
    \A s \in Active, o \in Objects : LET d == trans[s].base[o].data IN
       d.kind = "shared" => \E i \in DOMAIN chain[o] : chain[o][i].id = d.id

\* A transaction sees what was committed when it began and its own changes,
\* whichever statement binds an object first and whatever others commit,
\* merge or flush meanwhile (timestamp_delta, dup_bat).
SnapshotExact ==
    \A s \in Active, o \in Objects :
       NoDangling /\ trans[s].base[o].data.kind # "none" =>
          View(trans[s], o) = snapshot[s][o] \o OwnRows(trans[s], o)

\* A transaction that commits changes has read and written the latest
\* versions: the updating transactions are serial in the order of their
\* commits (sql_trans_validate, sql_session_reset).
CommitsSerial ==
    [][\A s \in Sessions : (trans[s].active /\ ~trans'[s].active /\ committed' # committed) =>
          \A o \in Objects : Touched(trans[s], o) /\ trans[s].base[o].data.kind # "none" =>
             View(trans[s], o) = committed[o] \o OwnRows(trans[s], o)]_vars

\* A transaction during which nobody else committed is not refused
\* (validate_tables, rollforward_trans, _gtr_update).
NoSpuriousConflict ==
    \A s \in Active : snapshot[s] = committed => sql_trans_validate(trans[s])

\* After a flush the BATs that the logger makes persistent have everything
\* that was committed: the log files before it can go (gtr_update).
FlushComplete ==
    [][(Active = {} /\ stamp' > stamp /\ trans' = trans) => central' = committed]_vars
=============================================================================
