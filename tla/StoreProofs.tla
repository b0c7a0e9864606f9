---------------------------- MODULE StoreProofs ----------------------------
(***************************************************************************)
(* The transactions of Store for any number of sessions, tables and        *)
(* columns: the operators, the inductive invariant, the steps of one       *)
(* session (begin, statements, rollback) that keep it, those that change   *)
(* the versions (commit and flush), and the theorems.  If transactions     *)
(* that write commit in the order in which they began (Ordered), no write  *)
(* is lost, snapshots are exact, writers are serial, no freed version is   *)
(* read, nobody is refused without need and a flush is complete.           *)
(***************************************************************************)
EXTENDS Store, FiniteSetTheorems, SequenceTheorems, WellFoundedInduction, TLAPS

\* The values of the records.
Version == [id : Stamps, wtime : Stamps, delta : Seq(Stamps)]
SharedData == [kind : {"shared"}, id : Stamps]
PrivateData == [kind : {"private"}, delta : Seq(Stamps), own : Seq(Stamps), wtime : Stamps]
Data == {NoData} \cup SharedData \cup PrivateData
Mark == [rtime : Stamps, wtime : Stamps, data : Data]
Transaction == [active : BOOLEAN, stime : Stamps, wstime : Stamps, wtime : Stamps,
                base : [Bases -> Mark]]

GlobalTypes ==
    /\ stamp \in Stamps
    /\ gtrans \in [wtime : Stamps, wstime : Stamps]
    /\ global \in [Bases -> [rtime : Stamps, wtime : Stamps, allocated : Stamps]]
    /\ work \in Nat

ChainTypes ==
    /\ chain \in [Objects -> Seq(Version)] /\ \A o \in Objects : chain[o] # <<>>
    /\ central \in [Objects -> Seq(Stamps)] /\ committed \in [Objects -> Seq(Stamps)]

SessionTypes ==
    /\ trans \in [Sessions -> Transaction]
    /\ snapshot \in [Sessions -> [Objects -> Seq(Stamps)]]

\* A transaction starts at the time of the last commit or flush and has a
\* stamp of its own, which is later.
Times ==
    /\ gtrans.wtime <= gtrans.wstime /\ gtrans.wstime < stamp
    /\ \A b \in Bases : global[b].rtime <= gtrans.wtime /\ global[b].wtime <= gtrans.wtime
    /\ \A s \in Sessions :
          /\ trans[s].stime <= gtrans.wtime /\ trans[s].wstime < stamp
          /\ trans[s].active => trans[s].stime < trans[s].wstime

\* The marks of a transaction are its own times, and what is marked is marked
\* on the levels above: reset_trans and validation look there first.
MarksOf(tr) ==
    /\ \A b \in Bases : /\ tr.base[b].rtime \in {0, tr.stime}
                        /\ tr.base[b].wtime \in {0, tr.wstime}
                        /\ tr.base[b].wtime # 0 => tr.wtime # 0
    /\ \A c \in Columns : /\ Touched(tr, c) => Touched(tr, TableOf[c])
                          /\ tr.base[c].wtime # 0 => tr.base[TableOf[c]].wtime # 0
    /\ \A t \in Tables : /\ Touched(tr, t) => Touched(tr, Schema)
                         /\ tr.base[t].wtime # 0 => /\ tr.base[Schema].wtime # 0
                                                    /\ tr.base[t].rtime = tr.stime
    /\ \A o \in Objects : IsPrivate(tr, o) => tr.base[o].wtime # 0
    /\ tr.wtime \in {0, tr.wstime}

Marked == \A s \in Sessions : MarksOf(trans[s])

Shape == GlobalTypes /\ ChainTypes /\ SessionTypes /\ Times /\ Marked

----------------------------------------------------------------------------
(***************************************************************************)
(* The operators                                                           *)
(***************************************************************************)

\* Tables, columns and the schema.
LEMMA Levels ==
    /\ Objects \subseteq Bases /\ Schema \in Bases /\ Tables \subseteq Objects /\ Columns \subseteq Objects
    /\ Schema \notin Objects
    /\ \A c \in Columns : TableOf[c] \in Tables /\ c \notin Tables /\ c # Schema
    /\ \A t \in Tables : t \notin Columns /\ t # Schema
    /\ \A b \in Bases : b = Schema \/ b \in Tables \/ b \in Columns
    /\ \A t \in Tables : ColumnsOf(t) \subseteq Columns /\ FirstColumn(t) \in Columns
    /\ \A t \in Tables : FirstColumn(t) \in ColumnsOf(t)
    /\ \A t \in Tables, c \in Columns : c \in ColumnsOf(t) <=> TableOf[c] = t
  BY StoreAssumption DEF Objects, Bases, ColumnsOf, FirstColumn

\* The bounds are natural numbers.
LEMMA StampsNat == Stamps \subseteq Nat /\ 0 \in Stamps
  BY StoreAssumption DEF Stamps

\* A nonempty set of natural numbers has a least element.
LEMMA MinIsLeast ==
    ASSUME NEW S \in SUBSET Nat, S # {}
    PROVE  Min(S) \in S /\ \A y \in S : Min(S) <= y
  <1>1. IsWellFoundedOn({ss \in Nat \X Nat : ss[1] < ss[2]}, Nat)
    BY NatLessThanWellFounded, Zenon DEF OpToRel
  <1>2. \E x \in S : \A y \in S : ~(<<y, x>> \in {ss \in Nat \X Nat : ss[1] < ss[2]})
    BY <1>1, WFMin, Zenon
  <1>3. \E x \in S : \A y \in S : x <= y
    <2>1. PICK x \in S : \A y \in S : ~(<<y, x>> \in {ss \in Nat \X Nat : ss[1] < ss[2]})
      BY <1>2
    <2>2. ASSUME NEW y \in S PROVE x <= y
      <3>1. x \in Nat /\ y \in Nat /\ <<y, x>> \in Nat \X Nat
        OBVIOUS
      <3>2. ~(<<y, x>>[1] < <<y, x>>[2])
        BY <2>1, <3>1
      <3> QED BY <3>1, <3>2
    <2> QED BY <2>2
  <1> QED BY <1>3 DEF Min

\* The parts of a version.
LEMMA VersionParts == \A v \in Version : v.id \in Nat /\ v.wtime \in Nat /\ v.delta \in Seq(Stamps)
  BY StampsNat DEF Version

\* timestamp_delta takes the latest version that is old enough, or the oldest.
LEMMA VisibleIndex ==
    ASSUME NEW ch \in Seq(Version), ch # <<>>, NEW time \in Nat
    PROVE  \E i \in 1..Len(ch) : /\ Visible(ch, time) = ch[i]
                                 /\ i = Len(ch) \/ ch[i].wtime <= time
                                 /\ \A j \in 1..(i - 1) : ch[j].wtime > time
  <1> DEFINE S == {i \in DOMAIN ch : i = Len(ch) \/ ch[i].wtime <= time}
  <1>1. S \in SUBSET Nat /\ S # {}
    OBVIOUS
  <1>2. Min(S) \in S /\ \A y \in S : Min(S) <= y
    BY <1>1, MinIsLeast
  <1>3. ASSUME NEW j \in 1..(Min(S) - 1) PROVE ch[j].wtime > time
    <2>0. Min(S) \in Nat /\ Min(S) <= Len(ch) /\ j \in Nat /\ 1 <= j /\ ~(Min(S) <= j)
      BY <1>1, <1>2
    <2>1. j \in DOMAIN ch /\ j \notin S /\ ch[j] \in Version
      BY <1>2, <2>0
    <2>2. ch[j].wtime \in Nat
      BY <2>1, VersionParts
    <2> QED BY <2>1, <2>2
  <1>4. Visible(ch, time) = ch[Min(S)]
    BY DEF Visible
  <1>5. Min(S) \in 1..Len(ch) /\ (Min(S) = Len(ch) \/ ch[Min(S)].wtime <= time)
    BY <1>2
  <1> HIDE DEF S
  <1> QED BY <1>3, <1>4, <1>5

\* It is a version of the chain, and the latest if that one is old enough.
LEMMA VisibleVersion ==
    ASSUME NEW ch \in Seq(Version), ch # <<>>, NEW time \in Nat
    PROVE  /\ Visible(ch, time) \in Version
           /\ \E i \in DOMAIN ch : Visible(ch, time) = ch[i]
           /\ Head(ch).wtime <= time => Visible(ch, time) = Head(ch)
           /\ Visible(ch, time) # Head(ch) => Head(ch).wtime > time
  <1>1. PICK i \in 1..Len(ch) : /\ Visible(ch, time) = ch[i]
                                /\ i = Len(ch) \/ ch[i].wtime <= time
                                /\ \A j \in 1..(i - 1) : ch[j].wtime > time
    BY VisibleIndex
  <1>2. Head(ch) = ch[1] /\ ch[1] \in Version /\ ch[i] \in Version
    OBVIOUS
  <1>3. i # 1 => Head(ch).wtime > time
    BY <1>1, <1>2
  <1>4. Head(ch).wtime \in Nat
    BY <1>2, VersionParts
  <1> QED BY <1>1, <1>2, <1>3, <1>4

\* A version that is too new and is put in front does not change what is seen.
LEMMA VisiblePrepend ==
    ASSUME NEW ch \in Seq(Version), ch # <<>>, NEW time \in Nat, NEW v \in Version, v.wtime > time
    PROVE  Visible(<<v>> \o ch, time) = Visible(ch, time)
  <1> DEFINE new == <<v>> \o ch
  <1>0. new \in Seq(Version) /\ new # <<>> /\ Len(new) = Len(ch) + 1 /\ new[1] = v
        /\ \A k \in 1..Len(ch) : new[k + 1] = ch[k]
    OBVIOUS
  <1> HIDE DEF new
  <1>1. PICK i \in 1..Len(ch) : /\ Visible(ch, time) = ch[i]
                                /\ i = Len(ch) \/ ch[i].wtime <= time
                                /\ \A j \in 1..(i - 1) : ch[j].wtime > time
    BY VisibleIndex
  <1>2. PICK k \in 1..Len(new) : /\ Visible(new, time) = new[k]
                                 /\ k = Len(new) \/ new[k].wtime <= time
                                 /\ \A j \in 1..(k - 1) : new[j].wtime > time
    BY <1>0, VisibleIndex
  <1>3. \A j \in 1..Len(ch) : ch[j].wtime \in Nat
    BY VersionParts
  <1>4. k # 1
    BY <1>0, <1>2, VersionParts
  <1>5. ~(i < k - 1)
    <2> SUFFICES ASSUME i < k - 1 PROVE FALSE
      OBVIOUS
    <2>1. i + 1 \in 1..(k - 1) /\ new[i + 1] = ch[i] /\ i # Len(ch)
      BY <1>0
    <2> QED BY <1>1, <1>2, <1>3, <2>1
  <1>6. ~(k - 1 < i)
    <2> SUFFICES ASSUME k - 1 < i PROVE FALSE
      OBVIOUS
    <2>1. Len(ch) \in Nat /\ i \in 1..Len(ch) /\ k \in 1..(Len(ch) + 1) /\ k # 1
      BY <1>0, <1>4
    <2>2. PICK j \in 1..(i - 1) : j = k - 1
      BY <2>1
    <2>3. j \in 1..Len(ch) /\ k = j + 1 /\ k # Len(ch) + 1
      BY <2>1, <2>2
    <2>4. new[k] = ch[j] /\ ch[j].wtime > time /\ ch[j].wtime \in Nat
      BY <1>0, <1>1, <1>3, <2>2, <2>3
    <2>5. new[k].wtime <= time
      BY <1>0, <1>2, <2>3
    <2> QED BY <2>4, <2>5
  <1> QED BY <1>0, <1>1, <1>2, <1>4, <1>5, <1>6 DEF new

\* The kinds of data.
LEMMA DataKinds ==
    /\ NoData \in Data /\ NoData.kind = "none"
    /\ \A v \in Version : /\ Shared(v) \in Data /\ Shared(v).kind = "shared" /\ Shared(v).id = v.id
                          /\ Private(v) \in PrivateData /\ Private(v) \in Data
                          /\ Private(v).kind = "private" /\ Private(v).delta = v.delta
                          /\ Private(v).own = <<>> /\ Private(v).wtime = v.wtime
    /\ \A d \in Data : /\ d.kind \in {"none", "shared", "private"}
                       /\ d.kind = "none" => d = NoData
                       /\ d.kind = "shared" => d.id \in Stamps
                       /\ d.kind = "private" => /\ d \in PrivateData
                                                /\ d.delta \in Seq(Stamps) /\ d.own \in Seq(Stamps)
                                                /\ d.wtime \in Stamps
  <1>1. \A v \in Version : v.id \in Stamps /\ v.wtime \in Stamps /\ v.delta \in Seq(Stamps)
    BY DEF Version
  <1>2. <<>> \in Seq(Stamps)
    OBVIOUS
  <1>3. \A v \in Version : /\ Shared(v) \in SharedData /\ Shared(v).kind = "shared" /\ Shared(v).id = v.id
                           /\ Private(v) \in PrivateData
                           /\ Private(v).kind = "private" /\ Private(v).delta = v.delta
                           /\ Private(v).own = <<>> /\ Private(v).wtime = v.wtime
    BY <1>1, <1>2 DEF Shared, Private, SharedData, PrivateData
  <1>4. NoData.kind = "none"
    BY DEF NoData
  <1>5. \A d \in SharedData : d.kind = "shared" /\ d.id \in Stamps
    BY DEF SharedData
  <1>6. \A d \in PrivateData : /\ d.kind = "private" /\ d.delta \in Seq(Stamps)
                               /\ d.own \in Seq(Stamps) /\ d.wtime \in Stamps
    BY DEF PrivateData
  <1> QED BY <1>3, <1>4, <1>5, <1>6 DEF Data

\* A statement keeps the times of its transaction.
Same(tr, x) == /\ x \in Transaction
               /\ x.active = tr.active /\ x.stime = tr.stime /\ x.wstime = tr.wstime

\* The first use of an object.
LEMMA BoundEffect ==
    ASSUME ChainTypes, NEW tr \in Transaction, NEW os \in SUBSET Objects
    PROVE  /\ Same(tr, Bound(tr, os)) /\ Bound(tr, os).wtime = tr.wtime
           /\ \A b \in Bases :
                 /\ Bound(tr, os).base[b].rtime = tr.base[b].rtime
                 /\ Bound(tr, os).base[b].wtime = tr.base[b].wtime
                 /\ Bound(tr, os).base[b].data =
                      IF b \in os /\ tr.base[b].data.kind = "none"
                        THEN Shared(Visible(chain[b], tr.stime)) ELSE tr.base[b].data
  <1>1. \A b \in os : Shared(Visible(chain[b], tr.stime)) \in Data
    BY VisibleVersion, DataKinds, StampsNat DEF ChainTypes, Transaction
  <1>2. \A b \in Bases : tr.base[b] \in Mark
    BY DEF Transaction
  <1>3. \A b \in Bases : IF b \in os /\ tr.base[b].data.kind = "none"
                           THEN [tr.base[b] EXCEPT !.data = Shared(Visible(chain[b], tr.stime))] \in Mark
                           ELSE tr.base[b] \in Mark
    BY <1>1, <1>2 DEF Mark
  <1> HIDE DEF Mark
  <1>4. Same(tr, Bound(tr, os)) /\ Bound(tr, os).wtime = tr.wtime
    BY <1>3 DEF Bound, Same, Transaction
  <1>5. \A b \in Bases : Bound(tr, os).base[b] =
           IF b \in os /\ tr.base[b].data.kind = "none"
             THEN [tr.base[b] EXCEPT !.data = Shared(Visible(chain[b], tr.stime))] ELSE tr.base[b]
    BY DEF Bound, Transaction
  <1> QED BY <1>2, <1>4, <1>5 DEF Mark

\* A private copy.
LEMMA CopiedEffect ==
    ASSUME ChainTypes, NEW tr \in Transaction, NEW os \in SUBSET Objects
    PROVE  /\ Same(tr, Copied(tr, os)) /\ Copied(tr, os).wtime = tr.wtime
           /\ \A b \in Bases :
                 /\ Copied(tr, os).base[b].rtime = tr.base[b].rtime
                 /\ Copied(tr, os).base[b].wtime = tr.base[b].wtime
                 /\ Copied(tr, os).base[b].data =
                      IF b \in os /\ tr.base[b].data.kind # "private"
                        THEN Private(Visible(chain[b], tr.stime)) ELSE tr.base[b].data
  <1>1. \A b \in os : Private(Visible(chain[b], tr.stime)) \in Data
    BY VisibleVersion, DataKinds, StampsNat DEF ChainTypes, Transaction
  <1>2. \A b \in Bases : tr.base[b] \in Mark
    BY DEF Transaction
  <1>3. \A b \in Bases : IF b \in os /\ tr.base[b].data.kind # "private"
                           THEN [tr.base[b] EXCEPT !.data = Private(Visible(chain[b], tr.stime))] \in Mark
                           ELSE tr.base[b] \in Mark
    BY <1>1, <1>2 DEF Mark
  <1>4. Same(tr, Copied(tr, os)) /\ Copied(tr, os).wtime = tr.wtime
    BY <1>3 DEF Copied, Same, Transaction
  <1>5. \A b \in Bases : Copied(tr, os).base[b] =
           IF b \in os /\ tr.base[b].data.kind # "private"
             THEN [tr.base[b] EXCEPT !.data = Private(Visible(chain[b], tr.stime))] ELSE tr.base[b]
    BY DEF Copied, Transaction
  <1> QED BY <1>2, <1>4, <1>5 DEF Mark

\* Marks of a read.
LEMMA ReadEffect ==
    ASSUME NEW tr \in Transaction, NEW bs \in SUBSET Bases
    PROVE  /\ Same(tr, Read(tr, bs)) /\ Read(tr, bs).wtime = tr.wtime
           /\ \A b \in Bases :
                 /\ Read(tr, bs).base[b].rtime = IF b \in bs THEN tr.stime ELSE tr.base[b].rtime
                 /\ Read(tr, bs).base[b].wtime = tr.base[b].wtime
                 /\ Read(tr, bs).base[b].data = tr.base[b].data
  <1>1. tr.stime \in Stamps /\ \A b \in Bases : tr.base[b] \in Mark
    BY DEF Transaction
  <1>2. \A b \in Bases : IF b \in bs THEN [tr.base[b] EXCEPT !.rtime = tr.stime] \in Mark
                                     ELSE tr.base[b] \in Mark
    BY <1>1 DEF Mark
  <1>3. Same(tr, Read(tr, bs)) /\ Read(tr, bs).wtime = tr.wtime
    BY <1>2 DEF Read, Same, Transaction
  <1>4. \A b \in Bases : Read(tr, bs).base[b] =
           IF b \in bs THEN [tr.base[b] EXCEPT !.rtime = tr.stime] ELSE tr.base[b]
    BY DEF Read, Transaction
  <1> QED BY <1>1, <1>3, <1>4 DEF Mark

\* Marks of a write.
LEMMA WrittenEffect ==
    ASSUME NEW tr \in Transaction, NEW bs \in SUBSET Bases
    PROVE  /\ Same(tr, Written(tr, bs)) /\ Written(tr, bs).wtime = tr.wstime
           /\ \A b \in Bases :
                 /\ Written(tr, bs).base[b].rtime = tr.base[b].rtime
                 /\ Written(tr, bs).base[b].wtime = IF b \in bs THEN tr.wstime ELSE tr.base[b].wtime
                 /\ Written(tr, bs).base[b].data = tr.base[b].data
  <1>1. tr.wstime \in Stamps /\ \A b \in Bases : tr.base[b] \in Mark
    BY DEF Transaction
  <1>2. \A b \in Bases : IF b \in bs THEN [tr.base[b] EXCEPT !.wtime = tr.wstime] \in Mark
                                     ELSE tr.base[b] \in Mark
    BY <1>1 DEF Mark
  <1>3. Same(tr, Written(tr, bs)) /\ Written(tr, bs).wtime = tr.wstime
    BY <1>1, <1>2 DEF Written, Same, Transaction
  <1>4. \A b \in Bases : Written(tr, bs).base[b] =
           IF b \in bs THEN [tr.base[b] EXCEPT !.wtime = tr.wstime] ELSE tr.base[b]
    BY DEF Written, Transaction
  <1> QED BY <1>1, <1>3, <1>4 DEF Mark

\* Changes in private copies.
LEMMA PutEffect ==
    ASSUME NEW tr \in Transaction, NEW os \in SUBSET Objects, \A o \in os : IsPrivate(tr, o)
    PROVE  /\ Same(tr, Put(tr, os)) /\ Put(tr, os).wtime = tr.wtime
           /\ \A b \in Bases :
                 /\ Put(tr, os).base[b].rtime = tr.base[b].rtime
                 /\ Put(tr, os).base[b].wtime = tr.base[b].wtime
                 /\ b \notin os => Put(tr, os).base[b].data = tr.base[b].data
                 /\ b \in os => /\ Put(tr, os).base[b].data.kind = "private"
                                /\ Put(tr, os).base[b].data.delta = tr.base[b].data.delta
                                /\ Put(tr, os).base[b].data.own = <<tr.wstime>>
                                /\ Put(tr, os).base[b].data.wtime = tr.wstime
  <1>1. tr.wstime \in Stamps /\ \A b \in Bases : tr.base[b] \in Mark
    BY DEF Transaction
  <1>2. \A b \in os : b \in Bases /\ tr.base[b].data \in PrivateData
    BY <1>1, DataKinds, Levels DEF IsPrivate, Mark
  <1>3. \A b \in os : /\ OwnChange(tr, tr.base[b].data) \in PrivateData
                      /\ OwnChange(tr, tr.base[b].data).kind = "private"
                      /\ OwnChange(tr, tr.base[b].data).delta = tr.base[b].data.delta
                      /\ OwnChange(tr, tr.base[b].data).own = <<tr.wstime>>
                      /\ OwnChange(tr, tr.base[b].data).wtime = tr.wstime
    <2>1. <<tr.wstime>> \in Seq(Stamps)
      BY <1>1
    <2> QED BY <1>1, <1>2, <2>1 DEF OwnChange, PrivateData
  <1>4. \A b \in os : OwnChange(tr, tr.base[b].data) \in Data
    BY <1>3 DEF Data
  <1>5. \A b \in Bases : IF b \in os THEN [tr.base[b] EXCEPT !.data = OwnChange(tr, @)] \in Mark
                                     ELSE tr.base[b] \in Mark
    BY <1>1, <1>4 DEF Mark
  <1>6. Same(tr, Put(tr, os)) /\ Put(tr, os).wtime = tr.wtime
    BY <1>5 DEF Put, Same, Transaction
  <1>7. \A b \in Bases : Put(tr, os).base[b] =
           IF b \in os THEN [tr.base[b] EXCEPT !.data = OwnChange(tr, @)] ELSE tr.base[b]
    BY DEF Put, Transaction
  <1>8. \A b \in Bases : /\ Put(tr, os).base[b].rtime = tr.base[b].rtime
                         /\ Put(tr, os).base[b].wtime = tr.base[b].wtime
                         /\ b \notin os => Put(tr, os).base[b].data = tr.base[b].data
                         /\ b \in os => Put(tr, os).base[b].data = OwnChange(tr, tr.base[b].data)
    BY <1>1, <1>7 DEF Mark
  <1> QED BY <1>3, <1>6, <1>8

----------------------------------------------------------------------------
(***************************************************************************)
(* The statements                                                          *)
(***************************************************************************)

\* What statements do to the data of an object: bind a version, copy it, or
\* change the copy.  Only the deletes of a table are copied without a change.
DataStep(tr, x, o) ==
    LET d == tr.base[o].data
        e == x.base[o].data
        v == Visible(chain[o], tr.stime)
    IN  \/ e = d
        \/ d.kind = "none" /\ e = Shared(v)
        \/ /\ e.kind = "private" /\ e.own = <<tr.wstime>> /\ e.wtime = tr.wstime
           /\ e.delta = IF d.kind = "private" THEN d.delta ELSE v.delta
        \/ o \in Tables /\ d.kind # "private" /\ e = Private(v)

Steps(tr, x) == Same(tr, x) /\ \A o \in Objects : DataStep(tr, x, o)

\* Steps can be combined.
LEMMA StepsCombine ==
    ASSUME ChainTypes, NEW tr \in Transaction, NEW x, NEW y, Steps(tr, x), Steps(x, y)
    PROVE  Steps(tr, y)
  <1>1. Same(tr, y) /\ x.stime = tr.stime /\ x.wstime = tr.wstime
    BY DEF Steps, Same
  <1>2. ASSUME NEW o \in Objects PROVE DataStep(tr, y, o)
    <2>1. Visible(chain[o], tr.stime) \in Version
      BY VisibleVersion, StampsNat DEF ChainTypes, Transaction
    <2>2. DataStep(tr, x, o) /\ DataStep(x, y, o)
      BY DEF Steps
    <2> DEFINE v == Visible(chain[o], tr.stime)
    <2>3. /\ Shared(v).kind = "shared"
          /\ Private(v).kind = "private" /\ Private(v).delta = v.delta
      BY <2>1, DataKinds
    <2> QED BY <1>1, <2>2, <2>3 DEF DataStep
  <1> QED BY <1>1, <1>2 DEF Steps

\* The operators that only set marks.
LEMMA SameDataSteps ==
    ASSUME NEW tr, NEW x, Same(tr, x), \A o \in Objects : x.base[o].data = tr.base[o].data
    PROVE  Steps(tr, x)
  BY DEF Steps, DataStep

\* Binding is such a step.
LEMMA BoundSteps ==
    ASSUME ChainTypes, NEW tr \in Transaction, NEW os \in SUBSET Objects
    PROVE  Steps(tr, Bound(tr, os))
  BY BoundEffect, Levels DEF Steps, DataStep

\* Nothing is copied.
NoCopy(tr, x) == \A o \in Objects : IsPrivate(x, o) <=> IsPrivate(tr, o)

\* Neither by binding.
LEMMA BoundNoCopy ==
    ASSUME ChainTypes, NEW tr \in Transaction, NEW os \in SUBSET Objects
    PROVE  NoCopy(tr, Bound(tr, os))
  <1>1. \A b \in os : Shared(Visible(chain[b], tr.stime)).kind = "shared"
    BY VisibleVersion, DataKinds, StampsNat DEF ChainTypes, Transaction
  <1> QED BY <1>1, BoundEffect, Levels DEF NoCopy, IsPrivate

\* A read mark on bs.
MarksRead(tr, x, bs) ==
    \A b \in Bases : /\ x.base[b].rtime = IF b \in bs THEN tr.stime ELSE tr.base[b].rtime
                     /\ x.base[b].wtime = tr.base[b].wtime

\* SQLtid marks the table and the schema, or nothing.
LEMMA TidEffect ==
    ASSUME ChainTypes, NEW tr \in Transaction, NEW t \in Tables
    PROVE  /\ Steps(tr, tid(tr, t)) /\ tid(tr, t).wtime = tr.wtime /\ NoCopy(tr, tid(tr, t))
           /\ MarksRead(tr, tid(tr, t), {}) \/ MarksRead(tr, tid(tr, t), {t, Schema})
  <1> DEFINE x == Bound(tr, {FirstColumn(t), t})
             y == Read(x, {t, Schema})
  <1>1. {FirstColumn(t), t} \in SUBSET Objects /\ {t, Schema} \in SUBSET Bases
    BY Levels
  <1>2. Steps(tr, x) /\ x \in Transaction /\ x.wtime = tr.wtime /\ MarksRead(tr, x, {})
        /\ x.stime = tr.stime /\ NoCopy(tr, x)
    BY <1>1, BoundSteps, BoundEffect, BoundNoCopy DEF MarksRead, Same
  <1>3. Steps(x, y) /\ y.wtime = tr.wtime /\ MarksRead(tr, y, {t, Schema}) /\ NoCopy(tr, y)
    <2>1. /\ Same(x, y) /\ y.wtime = x.wtime
          /\ \A b \in Bases :
                 /\ y.base[b].rtime = IF b \in {t, Schema} THEN x.stime ELSE x.base[b].rtime
                 /\ y.base[b].wtime = x.base[b].wtime
                 /\ y.base[b].data = x.base[b].data
      <3> HIDE DEF x
      <3> QED BY <1>1, <1>2, ReadEffect
    <2>2. Steps(x, y)
      <3>1. \A o \in Objects : y.base[o].data = x.base[o].data
        BY <2>1, Levels
      <3> HIDE DEF x, y
      <3> QED BY <2>1, <3>1, SameDataSteps
    <2> QED BY <1>2, <2>1, <2>2, Levels DEF MarksRead, NoCopy, IsPrivate
  <1>4. Steps(tr, y)
    BY <1>2, <1>3, StepsCombine
  <1>5. tid(tr, t) = x \/ tid(tr, t) = y
    BY DEF tid
  <1> QED BY <1>2, <1>3, <1>4, <1>5

\* bind_col marks the column, the table and the schema.
LEMMA BindEffect ==
    ASSUME ChainTypes, NEW tr \in Transaction, NEW c \in Columns
    PROVE  /\ Steps(tr, bind_col(tr, c)) /\ bind_col(tr, c).wtime = tr.wtime /\ NoCopy(tr, bind_col(tr, c))
           /\ MarksRead(tr, bind_col(tr, c), {c, TableOf[c], Schema})
  <1> DEFINE x == Bound(tr, {c, TableOf[c]})
             y == Read(x, {c, TableOf[c], Schema})
  <1>1. {c, TableOf[c]} \in SUBSET Objects /\ {c, TableOf[c], Schema} \in SUBSET Bases
    BY Levels
  <1>2. Steps(tr, x) /\ x \in Transaction /\ x.wtime = tr.wtime /\ MarksRead(tr, x, {})
        /\ x.stime = tr.stime /\ NoCopy(tr, x)
    BY <1>1, BoundSteps, BoundEffect, BoundNoCopy DEF MarksRead, Same
  <1>3. /\ Same(x, y) /\ y.wtime = x.wtime
        /\ \A b \in Bases :
               /\ y.base[b].rtime = IF b \in {c, TableOf[c], Schema} THEN x.stime ELSE x.base[b].rtime
               /\ y.base[b].wtime = x.base[b].wtime
               /\ y.base[b].data = x.base[b].data
    <2> HIDE DEF x
    <2> QED BY <1>1, <1>2, ReadEffect
  <1>4. Steps(x, y)
    <2>1. \A o \in Objects : y.base[o].data = x.base[o].data
      BY <1>3, Levels
    <2> HIDE DEF x, y
    <2> QED BY <1>3, <2>1, SameDataSteps
  <1>5. Steps(tr, y)
    BY <1>2, <1>4, StepsCombine
  <1> QED BY <1>2, <1>3, <1>5, Levels DEF MarksRead, NoCopy, IsPrivate, bind_col

\* The result of a statement: all that the proofs need of it.
Advances(tr, x) ==
    /\ Steps(tr, x) /\ MarksOf(x)
    /\ \/ x.wtime = tr.wtime
       \/ x.wtime = tr.wstime /\ \E o \in Objects : OwnRows(x, o) # <<>>

\* Marks of a read on whole paths to the schema keep the hierarchy.
LEMMA ReadMarks ==
    ASSUME NEW tr \in Transaction, NEW x, Steps(tr, x), MarksOf(tr), x.wtime = tr.wtime,
           NEW bs \in SUBSET Bases, MarksRead(tr, x, bs),
           \A c \in Columns : c \in bs => TableOf[c] \in bs,
           \A t \in Tables : t \in bs => Schema \in bs,
           NoCopy(tr, x)
    PROVE  MarksOf(x)
  <1>1. x.stime = tr.stime /\ x.wstime = tr.wstime
    BY DEF Steps, Same
  <1>2. tr.stime \in Nat /\ \A b \in Bases : tr.base[b].rtime \in Nat
    BY StampsNat DEF Transaction, Mark
  <1>3. \A b \in Bases : /\ x.base[b].rtime = IF b \in bs THEN tr.stime ELSE tr.base[b].rtime
                         /\ x.base[b].wtime = tr.base[b].wtime
    BY DEF MarksRead
  <1>4. \A b \in Bases : /\ x.base[b].rtime \in {0, x.stime}
                         /\ x.base[b].wtime \in {0, x.wstime}
                         /\ x.base[b].wtime # 0 => x.wtime # 0
    BY <1>1, <1>3 DEF MarksOf
  <1>5. \A c \in Columns : /\ Touched(x, c) => Touched(x, TableOf[c])
                           /\ x.base[c].wtime # 0 => x.base[TableOf[c]].wtime # 0
    BY <1>1, <1>3, Levels DEF MarksOf, Touched
  <1>6. \A t \in Tables : /\ Touched(x, t) => Touched(x, Schema)
                          /\ x.base[t].wtime # 0 => /\ x.base[Schema].wtime # 0
                                                    /\ x.base[t].rtime = x.stime
    BY <1>1, <1>3, Levels DEF MarksOf, Touched
  <1>7. \A o \in Objects : IsPrivate(x, o) => x.base[o].wtime # 0
    BY <1>3, Levels DEF MarksOf, NoCopy
  <1>8. x.wtime \in {0, x.wstime}
    BY <1>1 DEF MarksOf
  <1> QED BY <1>4, <1>5, <1>6, <1>7, <1>8 DEF MarksOf

\* Marks of a write, on whole paths, with read marks on the tables.
MarksWritten(tr, x, ws, rs) ==
    \A b \in Bases : /\ x.base[b].rtime = IF b \in rs THEN tr.stime ELSE tr.base[b].rtime
                     /\ x.base[b].wtime = IF b \in ws THEN tr.wstime ELSE tr.base[b].wtime

\* The marks stay in order when a transaction writes its own times.
LEMMA WriteMarks ==
    ASSUME NEW tr \in Transaction, NEW x, Steps(tr, x), MarksOf(tr), tr.wstime # 0, x.wtime = tr.wstime,
           NEW ws \in SUBSET Bases, NEW rs \in SUBSET Bases, MarksWritten(tr, x, ws, rs),
           \A c \in Columns : c \in ws \cup rs => TableOf[c] \in ws,
           Schema \in ws,
           \A t \in Tables : t \in ws => t \in rs \/ tr.base[t].rtime = tr.stime,
           \A o \in Objects : IsPrivate(x, o) => IsPrivate(tr, o) \/ o \in ws
    PROVE  MarksOf(x)
  <1>1. x.stime = tr.stime /\ x.wstime = tr.wstime
    BY DEF Steps, Same
  <1>2. \A b \in Bases : /\ x.base[b].rtime = IF b \in rs THEN tr.stime ELSE tr.base[b].rtime
                         /\ x.base[b].wtime = IF b \in ws THEN tr.wstime ELSE tr.base[b].wtime
    BY DEF MarksWritten
  <1>3. \A b \in Bases : /\ x.base[b].rtime \in {0, x.stime}
                         /\ x.base[b].wtime \in {0, x.wstime}
                         /\ x.base[b].wtime # 0 => x.wtime # 0
    BY <1>1, <1>2 DEF MarksOf
  <1>4. \A c \in Columns : /\ Touched(x, c) => Touched(x, TableOf[c])
                           /\ x.base[c].wtime # 0 => x.base[TableOf[c]].wtime # 0
    BY <1>1, <1>2, Levels DEF MarksOf, Touched
  <1>5. \A t \in Tables : /\ Touched(x, t) => Touched(x, Schema)
                          /\ x.base[t].wtime # 0 => /\ x.base[Schema].wtime # 0
                                                    /\ x.base[t].rtime = x.stime
    BY <1>1, <1>2, Levels DEF MarksOf, Touched
  <1>6. \A o \in Objects : IsPrivate(x, o) => x.base[o].wtime # 0
    BY <1>2, Levels DEF MarksOf
  <1> QED BY <1>1, <1>3, <1>4, <1>5, <1>6 DEF MarksOf

\* SELECT COUNT( * ): the rows of a table.
LEMMA CountAdvances ==
    ASSUME ChainTypes, NEW tr \in Transaction, MarksOf(tr), NEW t \in Tables
    PROVE  Advances(tr, tid(tr, t)) /\ NoCopy(tr, tid(tr, t)) /\ tid(tr, t).wtime = tr.wtime
  <1>1. /\ Steps(tr, tid(tr, t)) /\ tid(tr, t).wtime = tr.wtime /\ NoCopy(tr, tid(tr, t))
        /\ MarksRead(tr, tid(tr, t), {}) \/ MarksRead(tr, tid(tr, t), {t, Schema})
    BY TidEffect
  <1>2. CASE MarksRead(tr, tid(tr, t), {})
    BY <1>1, <1>2, ReadMarks DEF Advances
  <1>3. CASE MarksRead(tr, tid(tr, t), {t, Schema})
    <2>1. {t, Schema} \in SUBSET Bases /\ \A c \in Columns : c \notin {t, Schema}
      BY Levels
    <2>2. MarksOf(tid(tr, t))
      BY <1>1, <1>3, <2>1, ReadMarks
    <2> QED BY <1>1, <2>2 DEF Advances
  <1> QED BY <1>1, <1>2, <1>3

\* A query of a column.
LEMMA SelectAdvances ==
    ASSUME ChainTypes, NEW tr \in Transaction, MarksOf(tr), NEW c \in Columns
    PROVE  LET x == bind_col(tid(tr, TableOf[c]), c) IN
           Advances(tr, x) /\ x.base[TableOf[c]].rtime = tr.stime /\ x.wtime = tr.wtime
  <1> DEFINE y == tid(tr, TableOf[c])
             x == bind_col(y, c)
  <1>1. Steps(tr, y) /\ MarksOf(y) /\ y \in Transaction /\ y.wtime = tr.wtime /\ y.stime = tr.stime
    BY CountAdvances, Levels DEF Advances, Steps, Same
  <1>2. Steps(y, x) /\ x.wtime = y.wtime /\ NoCopy(y, x) /\ MarksRead(y, x, {c, TableOf[c], Schema})
    BY <1>1, BindEffect
  <1>3. /\ {c, TableOf[c], Schema} \in SUBSET Bases
        /\ \A k \in Columns : k \in {c, TableOf[c], Schema} => TableOf[k] \in {c, TableOf[c], Schema}
    BY Levels
  <1>4. MarksOf(x)
    BY <1>1, <1>2, <1>3, ReadMarks
  <1>5. Steps(tr, x)
    BY <1>1, <1>2, StepsCombine
  <1>6. x.base[TableOf[c]].rtime = tr.stime
    BY <1>1, <1>2, <1>3 DEF MarksRead
  <1> QED BY <1>1, <1>2, <1>4, <1>5, <1>6 DEF Advances

\* An update of a column.
LEMMA UpdateAdvances ==
    ASSUME ChainTypes, NEW tr \in Transaction, MarksOf(tr), tr.wstime # 0, NEW c \in Columns
    PROVE  Advances(tr, update_col(tid(tr, TableOf[c]), c))
  <1> DEFINE y == tid(tr, TableOf[c])
             up == {c, TableOf[c], Schema}
             y1 == Copied(y, {c})
             y2 == Written(y1, up)
             y3 == Read(y2, up)
             x == Put(y3, {c})
  <1>1. Steps(tr, y) /\ MarksOf(y) /\ y \in Transaction /\ y.wstime = tr.wstime
    BY CountAdvances, Levels DEF Advances, Steps, Same
  <1>2. c \in Bases /\ {c} \in SUBSET Objects /\ up \in SUBSET Bases
        /\ \A k \in Columns : k \in up => TableOf[k] \in up
    BY Levels
  <1> HIDE DEF y, up
  <1>3. /\ Same(y, y1) /\ y1.wtime = y.wtime
        /\ \A b \in Bases : /\ y1.base[b].rtime = y.base[b].rtime
                            /\ y1.base[b].wtime = y.base[b].wtime
                            /\ y1.base[b].data = IF b \in {c} /\ y.base[b].data.kind # "private"
                                 THEN Private(Visible(chain[b], y.stime)) ELSE y.base[b].data
    BY <1>1, <1>2, CopiedEffect
  <1> HIDE DEF y1
  <1>4. /\ Same(y1, y2) /\ y2.wtime = y1.wstime
        /\ \A b \in Bases : /\ y2.base[b].rtime = y1.base[b].rtime
                            /\ y2.base[b].wtime = IF b \in up THEN y1.wstime ELSE y1.base[b].wtime
                            /\ y2.base[b].data = y1.base[b].data
    BY <1>2, <1>3, WrittenEffect DEF Same
  <1> HIDE DEF y2
  <1>5. /\ Same(y2, y3) /\ y3.wtime = y2.wtime
        /\ \A b \in Bases : /\ y3.base[b].rtime = IF b \in up THEN y2.stime ELSE y2.base[b].rtime
                            /\ y3.base[b].wtime = y2.base[b].wtime
                            /\ y3.base[b].data = y2.base[b].data
    BY <1>2, <1>4, ReadEffect DEF Same
  <1> HIDE DEF y3
  <1>6. Visible(chain[c], y.stime) \in Version
    BY <1>1, VisibleVersion, StampsNat, Levels DEF ChainTypes, Transaction
  <1>7. IsPrivate(y3, c)
    BY <1>2, <1>3, <1>4, <1>5, <1>6, DataKinds DEF IsPrivate
  <1>8. /\ Same(y3, x) /\ x.wtime = y3.wtime
        /\ \A b \in Bases :
              /\ x.base[b].rtime = y3.base[b].rtime
              /\ x.base[b].wtime = y3.base[b].wtime
              /\ b \notin {c} => x.base[b].data = y3.base[b].data
              /\ b \in {c} => /\ x.base[b].data.kind = "private"
                              /\ x.base[b].data.delta = y3.base[b].data.delta
                              /\ x.base[b].data.own = <<y3.wstime>>
                              /\ x.base[b].data.wtime = y3.wstime
    BY <1>2, <1>5, <1>7, PutEffect DEF Same
  <1> HIDE DEF x
  <1>9. Same(y, x) /\ x.wtime = y.wstime /\ MarksWritten(y, x, up, up)
        /\ y3.wstime = y.wstime
    BY <1>3, <1>4, <1>5, <1>8 DEF Same, MarksWritten
  <1>10. Steps(y, x)
    <2>1. ASSUME NEW o \in Objects, o # c PROVE DataStep(y, x, o)
      BY <1>3, <1>4, <1>5, <1>8, <2>1, Levels DEF DataStep
    <2>2. DataStep(y, x, c)
      BY <1>2, <1>3, <1>4, <1>5, <1>6, <1>8, <1>9, DataKinds DEF DataStep
    <2> QED BY <1>9, <2>1, <2>2 DEF Steps
  <1>11. \A o \in Objects : IsPrivate(x, o) => IsPrivate(y, o) \/ o \in up
    BY <1>3, <1>4, <1>5, <1>8, Levels DEF IsPrivate, up
  <1>12. MarksOf(x)
    <2>1. Schema \in up
      BY DEF up
    <2> QED BY <1>1, <1>2, <1>9, <1>10, <1>11, <2>1, WriteMarks
  <1>13. Steps(tr, x)
    BY <1>1, <1>10, StepsCombine
  <1>14. OwnRows(x, c) # <<>>
    BY <1>2, <1>8 DEF OwnRows, IsPrivate
  <1> QED BY <1>1, <1>9, <1>12, <1>13, <1>14, Levels DEF Advances, update_col, x, y3, y2, y1, y, up

\* An insert into all columns of a table.
LEMMA InsertAdvances ==
    ASSUME ChainTypes, NEW tr \in Transaction, MarksOf(tr), tr.wstime # 0, NEW t \in Tables
    PROVE  Advances(tr, append_cols(tr, t))
  <1> DEFINE cs == ColumnsOf(t)
             ws == cs \cup {t, Schema}
             y1 == Copied(tr, cs)
             y2 == Written(y1, ws)
             y3 == Read(y2, {t, Schema})
             y4 == Put(y3, cs)
             x == Copied(y4, {t})
  <1>1. /\ cs \in SUBSET Objects /\ ws \in SUBSET Bases /\ {t, Schema} \in SUBSET Bases /\ {t} \in SUBSET Objects
        /\ t \notin cs /\ FirstColumn(t) \in cs /\ FirstColumn(t) \in Objects
        /\ \A c \in Columns : c \in ws \cup {t, Schema} => TableOf[c] \in ws
        /\ \A k \in Tables : k \in ws => k \in {t, Schema}
        /\ Schema \in ws /\ t \in ws
        /\ \A c \in cs : c \in ws /\ c \in Bases /\ c \in Objects /\ c \in Columns /\ c # t
    BY Levels
  <1> HIDE DEF cs, ws
  <1>2. /\ Same(tr, y1) /\ y1.wtime = tr.wtime
        /\ \A b \in Bases : /\ y1.base[b].rtime = tr.base[b].rtime
                            /\ y1.base[b].wtime = tr.base[b].wtime
                            /\ y1.base[b].data = IF b \in cs /\ tr.base[b].data.kind # "private"
                                 THEN Private(Visible(chain[b], tr.stime)) ELSE tr.base[b].data
    BY <1>1, CopiedEffect
  <1> HIDE DEF y1
  <1>3. /\ Same(y1, y2) /\ y2.wtime = y1.wstime
        /\ \A b \in Bases : /\ y2.base[b].rtime = y1.base[b].rtime
                            /\ y2.base[b].wtime = IF b \in ws THEN y1.wstime ELSE y1.base[b].wtime
                            /\ y2.base[b].data = y1.base[b].data
    BY <1>1, <1>2, WrittenEffect DEF Same
  <1> HIDE DEF y2
  <1>4. /\ Same(y2, y3) /\ y3.wtime = y2.wtime
        /\ \A b \in Bases : /\ y3.base[b].rtime = IF b \in {t, Schema} THEN y2.stime ELSE y2.base[b].rtime
                            /\ y3.base[b].wtime = y2.base[b].wtime
                            /\ y3.base[b].data = y2.base[b].data
    BY <1>1, <1>3, ReadEffect DEF Same
  <1> HIDE DEF y3
  <1>5. \A o \in Objects : Visible(chain[o], tr.stime) \in Version
    BY VisibleVersion, StampsNat DEF ChainTypes, Transaction
  <1>6. \A o \in cs : IsPrivate(y3, o)
    BY <1>1, <1>2, <1>3, <1>4, <1>5, DataKinds DEF IsPrivate
  <1>7. /\ Same(y3, y4) /\ y4.wtime = y3.wtime
        /\ \A b \in Bases :
              /\ y4.base[b].rtime = y3.base[b].rtime
              /\ y4.base[b].wtime = y3.base[b].wtime
              /\ b \notin cs => y4.base[b].data = y3.base[b].data
              /\ b \in cs => /\ y4.base[b].data.kind = "private"
                             /\ y4.base[b].data.delta = y3.base[b].data.delta
                             /\ y4.base[b].data.own = <<y3.wstime>>
                             /\ y4.base[b].data.wtime = y3.wstime
    BY <1>1, <1>4, <1>6, PutEffect DEF Same
  <1> HIDE DEF y4
  <1>8. /\ Same(y4, x) /\ x.wtime = y4.wtime
        /\ \A b \in Bases : /\ x.base[b].rtime = y4.base[b].rtime
                            /\ x.base[b].wtime = y4.base[b].wtime
                            /\ x.base[b].data = IF b \in {t} /\ y4.base[b].data.kind # "private"
                                 THEN Private(Visible(chain[b], y4.stime)) ELSE y4.base[b].data
    BY <1>1, <1>7, CopiedEffect DEF Same
  <1> HIDE DEF x
  <1>9. Same(tr, x) /\ x.wtime = tr.wstime /\ MarksWritten(tr, x, ws, {t, Schema})
        /\ y3.wstime = tr.wstime /\ y4.stime = tr.stime
    BY <1>2, <1>3, <1>4, <1>7, <1>8 DEF Same, MarksWritten
  <1>10. Steps(tr, x)
    <2>1. ASSUME NEW o \in Objects, o \notin cs, o # t PROVE DataStep(tr, x, o)
      BY <1>2, <1>3, <1>4, <1>7, <1>8, <2>1, Levels DEF DataStep
    <2>2. ASSUME NEW o \in cs PROVE DataStep(tr, x, o)
      <3>1. o \in Bases /\ o # t /\ o \in Objects
        BY <1>1
      <3>2. Private(Visible(chain[o], tr.stime)).delta = Visible(chain[o], tr.stime).delta
        BY <1>5, <3>1, DataKinds
      <3>3. /\ x.base[o].data = y4.base[o].data
            /\ y3.base[o].data = IF tr.base[o].data.kind # "private"
                 THEN Private(Visible(chain[o], tr.stime)) ELSE tr.base[o].data
        BY <1>2, <1>3, <1>4, <1>8, <2>2, <3>1
      <3>4. /\ y4.base[o].data.kind = "private" /\ y4.base[o].data.delta = y3.base[o].data.delta
            /\ y4.base[o].data.own = <<tr.wstime>> /\ y4.base[o].data.wtime = tr.wstime
        BY <1>7, <1>9, <2>2, <3>1
      <3> QED BY <3>2, <3>3, <3>4 DEF DataStep
    <2>3. DataStep(tr, x, t)
      <3>1. x.base[t].data = IF tr.base[t].data.kind # "private"
               THEN Private(Visible(chain[t], tr.stime)) ELSE tr.base[t].data
        BY <1>1, <1>2, <1>3, <1>4, <1>7, <1>8, <1>9
      <3> QED BY <3>1 DEF DataStep
    <2> QED BY <1>9, <2>1, <2>2, <2>3 DEF Steps
  <1>11. \A o \in Objects : IsPrivate(x, o) => IsPrivate(tr, o) \/ o \in ws
    BY <1>1, <1>2, <1>3, <1>4, <1>7, <1>8, Levels DEF IsPrivate
  <1>12. MarksOf(x)
    BY <1>1, <1>9, <1>10, <1>11, WriteMarks
  <1>13. OwnRows(x, FirstColumn(t)) # <<>>
    <2>1. FirstColumn(t) \in Bases /\ FirstColumn(t) # t
      BY <1>1
    <2>2. /\ x.base[FirstColumn(t)].data = y4.base[FirstColumn(t)].data
          /\ y4.base[FirstColumn(t)].data.kind = "private"
          /\ y4.base[FirstColumn(t)].data.own = <<y3.wstime>>
      BY <1>1, <1>7, <1>8, <2>1
    <2> QED BY <2>2 DEF OwnRows, IsPrivate
  <1> QED BY <1>1, <1>9, <1>10, <1>12, <1>13 DEF Advances, append_cols, x, y4, y3, y2, y1, ws, cs

\* The deletion of rows, after the columns of the condition were read.
LEMMA DeleteAdvances ==
    ASSUME ChainTypes, NEW tr \in Transaction, MarksOf(tr), tr.wstime # 0, NEW c \in Columns
    PROVE  Advances(tr, delete_tab(bind_col(tid(tr, TableOf[c]), c), TableOf[c]))
  <1> DEFINE y == bind_col(tid(tr, TableOf[c]), c)
             t == TableOf[c]
             y1 == Copied(y, {t})
             y2 == Bound(y1, ColumnsOf(t))
             y3 == Written(y2, {t, Schema})
             x == Put(y3, {t})
  <1>1. /\ Steps(tr, y) /\ MarksOf(y) /\ y \in Transaction /\ y.wstime = tr.wstime
        /\ y.base[t].rtime = y.stime
    BY SelectAdvances DEF Advances, Steps, Same
  <1>2. t \in Tables /\ t \in Bases /\ {t} \in SUBSET Objects /\ ColumnsOf(t) \in SUBSET Objects
        /\ {t, Schema} \in SUBSET Bases /\ t \notin ColumnsOf(t) /\ t \in Objects
        /\ (\A k \in Columns : k \notin {t, Schema}) /\ (\A k \in Tables : k \in {t, Schema} => k = t)
    BY Levels
  <1> HIDE DEF y, t
  <1>3. /\ Same(y, y1) /\ y1.wtime = y.wtime
        /\ \A b \in Bases : /\ y1.base[b].rtime = y.base[b].rtime
                            /\ y1.base[b].wtime = y.base[b].wtime
                            /\ y1.base[b].data = IF b \in {t} /\ y.base[b].data.kind # "private"
                                 THEN Private(Visible(chain[b], y.stime)) ELSE y.base[b].data
    BY <1>1, <1>2, CopiedEffect
  <1> HIDE DEF y1
  <1>4. /\ Same(y1, y2) /\ y2.wtime = y1.wtime /\ NoCopy(y1, y2)
        /\ \A b \in Bases : /\ y2.base[b].rtime = y1.base[b].rtime
                            /\ y2.base[b].wtime = y1.base[b].wtime
                            /\ y2.base[b].data = IF b \in ColumnsOf(t) /\ y1.base[b].data.kind = "none"
                                 THEN Shared(Visible(chain[b], y1.stime)) ELSE y1.base[b].data
    BY <1>2, <1>3, BoundEffect, BoundNoCopy DEF Same
  <1> HIDE DEF y2
  <1>5. /\ Same(y2, y3) /\ y3.wtime = y2.wstime
        /\ \A b \in Bases : /\ y3.base[b].rtime = y2.base[b].rtime
                            /\ y3.base[b].wtime = IF b \in {t, Schema} THEN y2.wstime ELSE y2.base[b].wtime
                            /\ y3.base[b].data = y2.base[b].data
    BY <1>2, <1>4, WrittenEffect DEF Same
  <1> HIDE DEF y3
  <1>6. Visible(chain[t], y.stime) \in Version
    BY <1>1, <1>2, VisibleVersion, StampsNat DEF ChainTypes, Transaction
  <1>7. IsPrivate(y3, t)
    BY <1>2, <1>3, <1>4, <1>5, <1>6, DataKinds DEF IsPrivate
  <1>8. /\ Same(y3, x) /\ x.wtime = y3.wtime
        /\ \A b \in Bases :
              /\ x.base[b].rtime = y3.base[b].rtime
              /\ x.base[b].wtime = y3.base[b].wtime
              /\ b \notin {t} => x.base[b].data = y3.base[b].data
              /\ b \in {t} => /\ x.base[b].data.kind = "private"
                              /\ x.base[b].data.delta = y3.base[b].data.delta
                              /\ x.base[b].data.own = <<y3.wstime>>
                              /\ x.base[b].data.wtime = y3.wstime
    BY <1>2, <1>5, <1>7, PutEffect DEF Same
  <1> HIDE DEF x
  <1>9. Same(y, x) /\ x.wtime = y.wstime /\ MarksWritten(y, x, {t, Schema}, {})
        /\ y3.wstime = y.wstime /\ y1.stime = y.stime
    BY <1>3, <1>4, <1>5, <1>8 DEF Same, MarksWritten
  <1>10. Steps(y, x)
    <2>1. ASSUME NEW o \in Objects, o # t PROVE DataStep(y, x, o)
      BY <1>3, <1>4, <1>5, <1>8, <1>9, <2>1, Levels DEF DataStep
    <2>2. DataStep(y, x, t)
      BY <1>2, <1>3, <1>4, <1>5, <1>6, <1>8, <1>9, DataKinds DEF DataStep
    <2> QED BY <1>9, <2>1, <2>2 DEF Steps
  <1>11. \A o \in Objects : IsPrivate(x, o) => IsPrivate(y, o) \/ o \in {t, Schema}
    <2> SUFFICES ASSUME NEW o \in Objects, IsPrivate(x, o), o # t PROVE IsPrivate(y, o)
      OBVIOUS
    <2>1. IsPrivate(y2, o)
      BY <1>5, <1>8, Levels DEF IsPrivate
    <2>2. IsPrivate(y1, o)
      BY <1>4, <2>1 DEF NoCopy
    <2> QED BY <1>3, <2>2, Levels DEF IsPrivate
  <1>12. MarksOf(x)
    BY <1>1, <1>2, <1>9, <1>10, <1>11, WriteMarks
  <1>13. Steps(tr, x)
    BY <1>1, <1>10, StepsCombine
  <1>14. OwnRows(x, t) # <<>>
    BY <1>2, <1>8 DEF OwnRows, IsPrivate
  <1> QED BY <1>1, <1>2, <1>9, <1>12, <1>13, <1>14 DEF Advances, delete_tab, x, y3, y2, y1, y, t

\* Every statement advances the transaction of its session and changes nothing
\* else.
LEMMA StatementAdvances ==
    ASSUME Shape, NEW s \in Sessions, Count(s) \/ Select(s) \/ Update(s) \/ Insert(s) \/ Delete(s)
    PROVE  /\ trans[s].active /\ Advances(trans[s], trans'[s])
           /\ trans' = [trans EXCEPT ![s] = trans'[s]]
           /\ work' \in Nat /\ UNCHANGED <<store, committed, snapshot>>
  <1>1. trans[s] \in Transaction /\ trans \in [Sessions -> Transaction] /\ MarksOf(trans[s]) /\ ChainTypes
        /\ work \in Nat
    BY DEF Shape, SessionTypes, Marked, GlobalTypes
  <1>2. ASSUME NEW x, Statement(s, x), trans[s].active => Advances(trans[s], x)
        PROVE  /\ trans[s].active /\ Advances(trans[s], trans'[s])
               /\ trans' = [trans EXCEPT ![s] = trans'[s]]
               /\ work' \in Nat /\ UNCHANGED <<store, committed, snapshot>>
    BY <1>1, <1>2 DEF Statement
  <1>3. trans[s].active => trans[s].wstime # 0
    <2>1. trans[s].active => trans[s].stime < trans[s].wstime
      BY DEF Shape, Times
    <2>2. trans[s].stime \in Nat /\ trans[s].wstime \in Nat
      BY <1>1, StampsNat DEF Transaction
    <2> QED BY <2>1, <2>2
  <1>4. CASE Count(s)
    BY <1>1, <1>2, <1>4, CountAdvances DEF Count
  <1>5. CASE Select(s)
    BY <1>1, <1>2, <1>5, SelectAdvances DEF Select
  <1>6. CASE Update(s)
    BY <1>1, <1>2, <1>3, <1>6, UpdateAdvances DEF Update
  <1>7. CASE Insert(s)
    BY <1>1, <1>2, <1>3, <1>7, InsertAdvances DEF Insert
  <1>8. CASE Delete(s)
    BY <1>1, <1>2, <1>3, <1>8, DeleteAdvances DEF Delete
  <1> QED BY <1>4, <1>5, <1>6, <1>7, <1>8

----------------------------------------------------------------------------
(***************************************************************************)
(* The invariant                                                           *)
(***************************************************************************)

\* Transactions that write commit in the order in which they began, and the
\* clock of gtrans has left 0, so that a read leaves a mark.
Ordered == InOrder /\ InitialTime > 0

\* A level above was written when a level below was.
Heights ==
    /\ \A c \in Columns : global[c].wtime <= global[TableOf[c]].wtime
    /\ \A t \in Tables : global[t].wtime <= global[Schema].wtime
    /\ \A b \in Bases : global[b].allocated <= gtrans.wtime
    /\ \A s \in Sessions : trans[s].stime > 0
    /\ gtrans.wtime > 0

\* The versions of an object: each has its own id and is older than the last
\* commit; the BAT of the deletes is that of the latest version; rows of a
\* column that are not merged are found by the next flush.
ChainOf(o) ==
    /\ \A i \in DOMAIN chain[o] : chain[o][i].id <= gtrans.wtime /\ chain[o][i].wtime <= gtrans.wtime
    /\ \A i, j \in DOMAIN chain[o] : chain[o][i].id = chain[o][j].id => i = j
    /\ Head(chain[o]).wtime <= global[o].wtime
    /\ o \in Tables => central[o] = Head(chain[o]).delta
    /\ o \in Columns /\ Head(chain[o]).delta # <<>> => Changed(o) /\ Changed(TableOf[o]) /\ Changed(Schema)

Chains == \A o \in Objects : ChainOf(o)

\* The data of a session, of an earlier transaction too: a shared version is
\* the latest, or the session resets it when it begins the next transaction.
DataOf(s, o) == LET d == trans[s].base[o].data IN
    /\ d.kind = "shared" => d.id = Head(chain[o]).id \/ trans[s].stime < global[o].wtime
    /\ d.kind = "private" =>
          /\ d.own # <<>> => d.own = <<trans[s].wstime>> /\ d.wtime = trans[s].wstime
          /\ d.own = <<>> => o \in Tables /\ d.wtime <= gtrans.wtime

Bindings == \A s \in Sessions, o \in Objects : DataOf(s, o)

\* An active transaction: what it has or would bind is what was committed when
\* it began; an object without a later write is still the same.
SnapshotOf(s, o) == LET d == trans[s].base[o].data IN
    /\ Content(o, Visible(chain[o], trans[s].stime).delta) = snapshot[s][o]
    /\ d.kind = "shared" => Content(o, VersionOf(chain[o], d.id).delta) = snapshot[s][o]
    /\ d.kind = "private" => Content(o, d.delta) = snapshot[s][o]
    /\ global[o].wtime <= trans[s].stime =>
         /\ committed[o] = snapshot[s][o]
         /\ d.kind = "private" /\ d.own = <<>> => d.wtime = Head(chain[o]).wtime
    /\ Len(snapshot[s][o]) <= Len(committed[o])

Snapshots == \A s \in Active : \A o \in Objects : SnapshotOf(s, o)

\* A commit changes something, and a transaction that wrote has something to
\* commit.
Progress == \A s \in Active :
    /\ gtrans.wtime # trans[s].stime => \E o \in Objects : Len(snapshot[s][o]) < Len(committed[o])
    /\ trans[s].wtime # 0 => \E o \in Objects : OwnRows(trans[s], o) # <<>>

IInv == /\ Shape /\ Heights /\ Chains /\ NoWriteLost
        /\ Bindings /\ NoDangling /\ Snapshots /\ Progress

\* The sessions with a transaction.
LEMMA ActiveSessions == \A s : s \in Active <=> s \in Sessions /\ trans[s].active
  BY DEF Active

\* An id names one version.
LEMMA VersionIs ==
    ASSUME NEW o \in Objects, ChainOf(o), NEW i \in DOMAIN chain[o]
    PROVE  VersionOf(chain[o], chain[o][i].id) = chain[o][i]
  BY DEF ChainOf, VersionOf

\* The parts of a chain.
LEMMA ChainParts ==
    ASSUME Shape, NEW o \in Objects
    PROVE  /\ chain[o] \in Seq(Version) /\ chain[o] # <<>> /\ Head(chain[o]) = chain[o][1]
           /\ 1 \in DOMAIN chain[o] /\ Head(chain[o]) \in Version
           /\ \A i \in DOMAIN chain[o] : /\ chain[o][i] \in Version /\ chain[o][i].id \in Nat
                                         /\ chain[o][i].wtime \in Nat /\ chain[o][i].delta \in Seq(Stamps)
  <1>1. chain[o] \in Seq(Version) /\ chain[o] # <<>>
    BY DEF Shape, ChainTypes
  <1>2. /\ Head(chain[o]) = chain[o][1] /\ 1 \in DOMAIN chain[o] /\ Head(chain[o]) \in Version
        /\ \A i \in DOMAIN chain[o] : chain[o][i] \in Version
    BY <1>1
  <1>3. \A v \in Version : v.id \in Nat /\ v.wtime \in Nat /\ v.delta \in Seq(Stamps)
    BY StampsNat DEF Version
  <1> QED BY <1>1, <1>2, <1>3

\* The parts of a transaction.
LEMMA TransParts ==
    ASSUME Shape, NEW s \in Sessions
    PROVE  /\ trans[s] \in Transaction /\ trans[s].active \in BOOLEAN
           /\ trans[s].stime \in Nat /\ trans[s].wstime \in Nat /\ trans[s].wtime \in Nat
           /\ \A b \in Bases : /\ trans[s].base[b].rtime \in Nat /\ trans[s].base[b].wtime \in Nat
                               /\ trans[s].base[b].data \in Data /\ trans[s].base[b] \in Mark
  <1>1. trans[s] \in Transaction
    BY DEF Shape, SessionTypes
  <1>2. \A b \in Bases : trans[s].base[b] \in Mark
    BY <1>1 DEF Transaction
  <1> QED BY <1>1, <1>2, StampsNat DEF Transaction, Mark

\* The times of the store.
LEMMA GlobalParts ==
    ASSUME Shape
    PROVE  /\ stamp \in Nat /\ gtrans.wtime \in Nat /\ gtrans.wstime \in Nat
           /\ \A b \in Bases : global[b].rtime \in Nat /\ global[b].wtime \in Nat /\ global[b].allocated \in Nat
  BY StampsNat DEF Shape, GlobalTypes

----------------------------------------------------------------------------
(***************************************************************************)
(* Statements keep the invariant.                                          *)
(***************************************************************************)
\* The shape: a statement sets marks of its transaction.
LEMMA StatementShape ==
    ASSUME IInv, NEW s \in Sessions, Count(s) \/ Select(s) \/ Update(s) \/ Insert(s) \/ Delete(s)
    PROVE  Shape'
  <1>1. /\ trans[s].active /\ Advances(trans[s], trans'[s])
        /\ trans' = [trans EXCEPT ![s] = trans'[s]]
        /\ work' \in Nat /\ UNCHANGED <<store, committed, snapshot>>
    BY StatementAdvances DEF IInv
  <1>2. /\ trans'[s] \in Transaction /\ trans'[s].active = trans[s].active
        /\ trans'[s].stime = trans[s].stime /\ trans'[s].wstime = trans[s].wstime /\ MarksOf(trans'[s])
    BY <1>1 DEF Advances, Steps, Same
  <1>3. \A r \in Sessions : r # s => trans'[r] = trans[r]
    BY <1>1 DEF IInv, Shape, SessionTypes
  <1>4. GlobalTypes' /\ ChainTypes'
    BY <1>1 DEF IInv, Shape, GlobalTypes, ChainTypes, store
  <1>5. SessionTypes'
    BY <1>1, <1>2 DEF IInv, Shape, SessionTypes
  <1>6. Times'
    BY <1>1, <1>2, <1>3 DEF IInv, Shape, Times, store
  <1>7. Marked'
    <2>1. \A r \in Sessions : MarksOf(trans'[r])
      BY <1>2, <1>3 DEF IInv, Shape, Marked
    <2> QED BY <2>1 DEF Marked, MarksOf, Touched, IsPrivate
  <1> QED BY <1>4, <1>5, <1>6, <1>7 DEF Shape

\* What a statement binds, copies or changes is the snapshot.
LEMMA StatementData ==
    ASSUME IInv, NEW s \in Sessions, NEW x, trans[s].active, Advances(trans[s], x), NEW o \in Objects
    PROVE  LET d == x.base[o].data IN
           /\ d.kind = "shared" =>
                /\ d.id = Head(chain[o]).id \/ trans[s].stime < global[o].wtime
                /\ \E i \in DOMAIN chain[o] : chain[o][i].id = d.id
                /\ Content(o, VersionOf(chain[o], d.id).delta) = snapshot[s][o]
           /\ d.kind = "private" =>
                /\ d.own # <<>> => d.own = <<trans[s].wstime>> /\ d.wtime = trans[s].wstime
                /\ d.own = <<>> => o \in Tables /\ d.wtime <= gtrans.wtime
                /\ Content(o, d.delta) = snapshot[s][o]
                /\ global[o].wtime <= trans[s].stime /\ d.own = <<>> => d.wtime = Head(chain[o]).wtime
           /\ OwnRows(trans[s], o) # <<>> => OwnRows(x, o) # <<>>
  <1> DEFINE d == trans[s].base[o].data
             e == x.base[o].data
             v == Visible(chain[o], trans[s].stime)
  <1>1. DataStep(trans[s], x, o) /\ DataOf(s, o) /\ SnapshotOf(s, o) /\ ChainOf(o)
    BY ActiveSessions DEF IInv, Advances, Steps, Bindings, Snapshots, Chains
  <1>2. PICK i \in DOMAIN chain[o] : v = chain[o][i]
    BY ChainParts, TransParts, VisibleVersion DEF IInv
  <1>3. /\ v \in Version /\ v.wtime \in Nat /\ Head(chain[o]).wtime \in Nat
        /\ Head(chain[o]).wtime <= trans[s].stime => v = Head(chain[o])
        /\ v # Head(chain[o]) => Head(chain[o]).wtime > trans[s].stime
    BY <1>2, ChainParts, TransParts, VisibleVersion DEF IInv
  <1>4. /\ Shared(v).kind = "shared" /\ Shared(v).id = v.id
        /\ Private(v).kind = "private" /\ Private(v).delta = v.delta
        /\ Private(v).own = <<>> /\ Private(v).wtime = v.wtime
    BY <1>3, DataKinds
  <1>5. d.kind = "shared" => \E j \in DOMAIN chain[o] : chain[o][j].id = d.id
    BY ActiveSessions DEF IInv, NoDangling
  <1>6. VersionOf(chain[o], v.id) = v
    BY <1>1, <1>2, VersionIs
  <1>7. o \in Bases /\ trans[s].stime \in Nat /\ global[o].wtime \in Nat /\ gtrans.wtime \in Nat
    BY TransParts, GlobalParts, Levels DEF IInv
  <1>8. v.wtime <= gtrans.wtime /\ Head(chain[o]).wtime <= global[o].wtime
        /\ Content(o, v.delta) = snapshot[s][o]
    BY <1>1, <1>2 DEF ChainOf, SnapshotOf
  <1>9. CASE e = d
    BY <1>1, <1>5, <1>9 DEF DataOf, SnapshotOf, OwnRows, IsPrivate
  <1>10. CASE d.kind = "none" /\ e = Shared(v)
    BY <1>2, <1>3, <1>4, <1>6, <1>7, <1>8, <1>10 DEF OwnRows, IsPrivate
  <1>11. CASE /\ e.kind = "private" /\ e.own = <<trans[s].wstime>> /\ e.wtime = trans[s].wstime
              /\ e.delta = IF d.kind = "private" THEN d.delta ELSE v.delta
    BY <1>1, <1>8, <1>11 DEF SnapshotOf, OwnRows, IsPrivate
  <1>12. CASE o \in Tables /\ d.kind # "private" /\ e = Private(v)
    BY <1>3, <1>4, <1>7, <1>8, <1>12 DEF OwnRows, IsPrivate
  <1> QED BY <1>1, <1>9, <1>10, <1>11, <1>12 DEF DataStep

\* A statement keeps the invariant.
LEMMA StatementKeeps ==
    ASSUME IInv, NEW s \in Sessions, Count(s) \/ Select(s) \/ Update(s) \/ Insert(s) \/ Delete(s)
    PROVE  IInv'
  <1>1. /\ trans[s].active /\ Advances(trans[s], trans'[s])
        /\ trans' = [trans EXCEPT ![s] = trans'[s]]
        /\ UNCHANGED <<stamp, gtrans, global, chain, central, committed, snapshot>>
    BY StatementAdvances DEF IInv, store
  <1>2. /\ trans'[s].active = trans[s].active
        /\ trans'[s].stime = trans[s].stime /\ trans'[s].wstime = trans[s].wstime
        /\ trans[s].wstime # 0
        /\ \/ trans'[s].wtime = trans[s].wtime
           \/ trans'[s].wtime = trans[s].wstime /\ \E o \in Objects : OwnRows(trans'[s], o) # <<>>
    BY <1>1, TransParts DEF IInv, Shape, Times, Advances, Steps, Same
  <1>3. \A r \in Sessions : r # s => trans'[r] = trans[r]
    BY <1>1 DEF IInv, Shape, SessionTypes
  <1>4. Active' = Active /\ s \in Active
    BY <1>1, <1>2, <1>3 DEF Active
  <1>5. Shape'
    BY StatementShape
  <1>6. Heights' /\ Chains' /\ NoWriteLost'
    BY <1>1, <1>2, <1>3 DEF IInv, Heights, Chains, ChainOf, Changed, NoWriteLost, Content
  <1>7. Bindings'
    <2>1. ASSUME NEW r \in Sessions, NEW o \in Objects PROVE DataOf(r, o)'
      <3>1. CASE r = s
        BY <1>1, <1>2, <3>1, StatementData DEF DataOf
      <3>2. CASE r # s
        BY <1>1, <1>3, <3>2 DEF IInv, Bindings, DataOf
      <3> QED BY <3>1, <3>2
    <2> QED BY <2>1 DEF Bindings
  <1>8. NoDangling'
    <2>1. ASSUME NEW r \in Active, NEW o \in Objects, trans'[r].base[o].data.kind = "shared"
          PROVE  \E i \in DOMAIN chain[o] : chain[o][i].id = trans'[r].base[o].data.id
      <3>1. CASE r = s
        BY <1>1, <2>1, <3>1, StatementData
      <3>2. CASE r # s
        BY <1>3, <2>1, <3>2, ActiveSessions DEF IInv, NoDangling
      <3> QED BY <3>1, <3>2
    <2> QED BY <1>1, <1>4, <2>1 DEF NoDangling
  <1>9. Snapshots'
    <2>1. ASSUME NEW r \in Active, NEW o \in Objects PROVE SnapshotOf(r, o)'
      <3>0. SnapshotOf(r, o) /\ r \in Sessions
        BY ActiveSessions DEF IInv, Snapshots
      <3>1. CASE r = s
        BY <1>1, <1>2, <3>0, <3>1, StatementData DEF SnapshotOf, Content
      <3>2. CASE r # s
        BY <1>1, <1>3, <3>0, <3>2 DEF SnapshotOf, Content
      <3> QED BY <3>1, <3>2
    <2> QED BY <1>4, <2>1 DEF Snapshots
  <1>10. Progress'
    <2>1. ASSUME NEW r \in Active
          PROVE  /\ gtrans.wtime # trans'[r].stime => \E o \in Objects : Len(snapshot[r][o]) < Len(committed[o])
                 /\ trans'[r].wtime # 0 => \E o \in Objects : OwnRows(trans'[r], o) # <<>>
      <3>0. /\ gtrans.wtime # trans[r].stime => \E o \in Objects : Len(snapshot[r][o]) < Len(committed[o])
            /\ trans[r].wtime # 0 => \E o \in Objects : OwnRows(trans[r], o) # <<>>
            /\ r \in Sessions
        BY ActiveSessions DEF IInv, Progress
      <3>1. CASE r = s
        <4>1. \A o \in Objects : OwnRows(trans[s], o) # <<>> => OwnRows(trans'[s], o) # <<>>
          <5> SUFFICES ASSUME NEW o \in Objects
                       PROVE  OwnRows(trans[s], o) # <<>> => OwnRows(trans'[s], o) # <<>>
            OBVIOUS
          <5> DEFINE x == trans'[s]
          <5>1. Advances(trans[s], x) /\ trans[s].active
            BY <1>1
          <5> HIDE DEF x
          <5>2. OwnRows(trans[s], o) # <<>> => OwnRows(x, o) # <<>>
            BY <5>1, StatementData
          <5> QED BY <5>2 DEF x
        <4> QED BY <1>2, <3>0, <3>1, <4>1
      <3>2. CASE r # s
        BY <1>3, <3>0, <3>2
      <3> QED BY <3>1, <3>2
    <2> QED BY <1>1, <1>4, <2>1 DEF Progress, OwnRows, IsPrivate
  <1> QED BY <1>5, <1>6, <1>7, <1>8, <1>9, <1>10 DEF IInv

----------------------------------------------------------------------------
(***************************************************************************)
(* The begin and the end of a transaction without a commit                 *)
(***************************************************************************)
\* At first there is one version of everything and nobody has a transaction.
LEMMA InitIInv == Init /\ Ordered => IInv
  <1> SUFFICES ASSUME Init, Ordered PROVE IInv
    OBVIOUS
  <1>0. InitialTime \in Stamps /\ InitialTime + 1 \in Stamps /\ InitialTime + 2 \in Stamps /\ 1 \in Stamps
        /\ InitialTime \in Nat /\ 0 \in Stamps
    BY StoreAssumption DEF Ordered, Stamps
  <1> DEFINE v == [id |-> 0, wtime |-> 0, delta |-> <<>>]
  <1>1. v \in Version /\ <<>> \in Seq(Stamps) /\ Untouched \in Mark
        /\ Untouched.rtime = 0 /\ Untouched.wtime = 0 /\ Untouched.data.kind = "none"
    BY <1>0, DataKinds DEF Version, Untouched, Mark
  <1>2. \A o \in Objects : chain[o] = <<v>>
    BY DEF Init
  <1>3. \A s \in Sessions : /\ trans[s] \in Transaction
                            /\ ~trans[s].active /\ trans[s].stime = InitialTime /\ trans[s].wstime = 0
                            /\ trans[s].wtime = 0
                            /\ \A b \in Bases : trans[s].base[b] = Untouched
    BY <1>0, <1>1 DEF Init, Transaction
  <1>4. Active = {}
    BY <1>3 DEF Active
  <1>5. GlobalTypes
    BY <1>0 DEF Init, GlobalTypes
  <1>6. ChainTypes
    <2>1. <<v>> \in Seq(Version) /\ <<v>> # <<>>
      BY <1>1
    <2> QED BY <1>1, <2>1 DEF Init, ChainTypes
  <1>7. SessionTypes
    <2>1. trans \in [Sessions -> Transaction]
      BY <1>3 DEF Init
    <2> QED BY <1>1, <2>1 DEF Init, SessionTypes
  <1>8. Times
    BY <1>0, <1>3 DEF Init, Times
  <1>9. Marked
    BY <1>1, <1>3, Levels DEF Marked, MarksOf, Touched, IsPrivate
  <1>10. Heights
    BY <1>0, <1>3, Levels DEF Init, Heights, Ordered
  <1>11. Chains
    <2>1. ASSUME NEW o \in Objects PROVE ChainOf(o)
      <3>1. Head(chain[o]) = v /\ DOMAIN chain[o] = {1} /\ chain[o][1] = v
        BY <1>2
      <3>2. global[o].wtime = 0 /\ central[o] = <<>> /\ gtrans.wtime \in Nat
        BY <1>0, Levels DEF Init
      <3> QED BY <3>1, <3>2 DEF ChainOf
    <2> QED BY <2>1 DEF Chains
  <1>12. NoWriteLost
    <2>1. ASSUME NEW o \in Objects PROVE Content(o, Head(chain[o]).delta) = committed[o]
      <3>1. Head(chain[o]).delta = <<>>
        BY <1>2
      <3>2. central[o] = <<>> /\ committed[o] = <<>>
        BY DEF Init
      <3>3. <<>> \o <<>> = <<>>
        OBVIOUS
      <3> QED BY <3>1, <3>2, <3>3 DEF Content
    <2> QED BY <2>1 DEF NoWriteLost
  <1>13. Bindings
    BY <1>1, <1>3, Levels DEF Bindings, DataOf
  <1>14. NoDangling /\ Snapshots /\ Progress
    BY <1>4 DEF NoDangling, Snapshots, Progress
  <1> QED BY <1>5, <1>6, <1>7, <1>8, <1>9, <1>10, <1>11, <1>12, <1>13, <1>14 DEF IInv, Shape

\* A rollback leaves the transaction of the session as it is, and inactive.
LEMMA RollbackKeeps ==
    ASSUME IInv, NEW s \in Sessions, Rollback(s)
    PROVE  IInv'
  <1>1. /\ trans' = [trans EXCEPT ![s].active = FALSE, ![s].base = trans[s].base]
        /\ snapshot' = [snapshot EXCEPT ![s] = [o \in Objects |-> <<>>]]
        /\ UNCHANGED <<stamp, gtrans, global, chain, central, committed, work>>
    BY DEF Rollback, End, store
  <1>2. /\ trans'[s] \in Transaction /\ ~trans'[s].active /\ trans'[s].stime = trans[s].stime
        /\ trans'[s].wstime = trans[s].wstime /\ trans'[s].wtime = trans[s].wtime
        /\ trans'[s].base = trans[s].base
        /\ \A r \in Sessions : r # s => trans'[r] = trans[r] /\ snapshot'[r] = snapshot[r]
        /\ trans' \in [Sessions -> Transaction]
    BY <1>1 DEF IInv, Shape, SessionTypes, Transaction
  <1>3. Active' = Active \ {s}
    BY <1>2 DEF Active
  <1>4. GlobalTypes' /\ ChainTypes'
    BY <1>1 DEF IInv, Shape, GlobalTypes, ChainTypes
  <1>5. SessionTypes'
    <2>1. <<>> \in Seq(Stamps)
      OBVIOUS
    <2> QED BY <1>1, <1>2, <2>1 DEF IInv, Shape, SessionTypes
  <1>6. Times'
    BY <1>1, <1>2 DEF IInv, Shape, Times
  <1>7. Marked'
    <2>1. \A r \in Sessions : MarksOf(trans'[r])
      <3>1. MarksOf(trans'[s])
        BY <1>2 DEF IInv, Shape, Marked, MarksOf, Touched, IsPrivate
      <3> QED BY <1>2, <3>1 DEF IInv, Shape, Marked
    <2> QED BY <2>1 DEF Marked, MarksOf, Touched, IsPrivate
  <1>8. Heights' /\ Chains' /\ NoWriteLost'
    BY <1>1, <1>2 DEF IInv, Heights, Chains, ChainOf, Changed, NoWriteLost, Content
  <1>9. Bindings'
    BY <1>1, <1>2 DEF IInv, Bindings, DataOf
  <1>10. NoDangling'
    BY <1>1, <1>2, <1>3, ActiveSessions DEF IInv, NoDangling
  <1>11. Snapshots'
    <2>1. ASSUME NEW r \in Active \ {s}, NEW o \in Objects PROVE SnapshotOf(r, o)'
      <3>1. r \in Active /\ r \in Sessions /\ r # s
        BY ActiveSessions
      <3>2. trans'[r] = trans[r] /\ snapshot'[r] = snapshot[r]
        BY <1>2, <3>1
      <3>3. SnapshotOf(r, o)
        BY <3>1 DEF IInv, Snapshots
      <3> QED BY <1>1, <3>2, <3>3 DEF SnapshotOf, Content
    <2> QED BY <1>3, <2>1 DEF Snapshots
  <1>12. Progress'
    BY <1>1, <1>2, <1>3, ActiveSessions DEF IInv, Progress, OwnRows, IsPrivate
  <1> QED BY <1>4, <1>5, <1>6, <1>7, <1>8, <1>9, <1>10, <1>11, <1>12 DEF IInv, Shape

\* sql_trans_begin leaves no marks but of reads at the same time, no private
\* copy, and only the latest versions.
LEMMA BeginBase ==
    ASSUME IInv, NEW s \in Sessions, ~trans[s].active,
           NEW base, base = IF trans[s].stime < gtrans.wstime \/ trans[s].wtime # 0
                              THEN reset_trans(trans[s]) ELSE trans[s].base
    PROVE  /\ base \in [Bases -> Mark]
           /\ \A b \in Bases : base[b].wtime = 0 /\ base[b].rtime \in {0, gtrans.wtime}
           /\ \A c \in Columns : base[c].rtime # 0 => base[TableOf[c]].rtime # 0
           /\ \A t \in Tables : base[t].rtime # 0 => base[Schema].rtime # 0
           /\ \A o \in Objects : /\ base[o].data.kind # "private"
                                 /\ base[o].data.kind = "shared" => base[o].data.id = Head(chain[o]).id
  <1> DEFINE tr == trans[s]
  <1>1. tr \in Transaction /\ MarksOf(tr) /\ (\A o \in Objects : DataOf(s, o)) /\ tr.base \in [Bases -> Mark]
    BY TransParts DEF IInv, Shape, Marked, Bindings, Transaction
  <1>2. /\ tr.stime \in Nat /\ tr.wtime \in Nat /\ gtrans.wtime \in Nat /\ gtrans.wstime \in Nat
        /\ \A b \in Bases : /\ tr.base[b].rtime \in Nat /\ tr.base[b].wtime \in Nat /\ tr.base[b].data \in Data
                            /\ global[b].wtime \in Nat /\ tr.base[b] \in Mark
    BY TransParts, GlobalParts DEF IInv
  <1>3. /\ tr.stime <= gtrans.wtime /\ gtrans.wtime <= gtrans.wstime
        /\ \A b \in Bases : global[b].wtime <= gtrans.wtime
    BY DEF IInv, Shape, Times
  <1>4. /\ Untouched \in Mark /\ Untouched.rtime = 0 /\ Untouched.wtime = 0 /\ Untouched.data = NoData
        /\ NoData.kind = "none"
        /\ \A d \in Data : LET m == [Untouched EXCEPT !.data = d] IN
              m \in Mark /\ m.rtime = 0 /\ m.wtime = 0 /\ m.data = d
    BY DataKinds, StampsNat DEF Untouched, Mark
  <1>5. CASE tr.stime < gtrans.wstime \/ tr.wtime # 0
    <2>1. ASSUME NEW b \in Bases
          PROVE  /\ base[b] = ResetBase(tr, b)
                 /\ base[b] \in Mark /\ base[b].rtime = 0 /\ base[b].wtime = 0
                 /\ base[b].data = NoData
                    \/ (base[b].data = tr.base[b].data /\ ~(tr.stime < global[b].wtime) /\ tr.base[b].wtime = 0)
      <3>1. base[b] = ResetBase(tr, b)
        BY <1>5 DEF reset_trans
      <3>2. CASE Visited(tr, b) /\ Resets(tr, b)
        BY <1>4, <3>1, <3>2 DEF ResetBase
      <3>3. CASE Visited(tr, b) /\ ~Resets(tr, b)
        BY <1>2, <1>4, <3>1, <3>3 DEF ResetBase, Resets
      <3>4. CASE ~Visited(tr, b)
        <4>1. base[b] = tr.base[b]
          BY <3>1, <3>4 DEF ResetBase
        <4>2. b # Schema
          BY <3>4, Levels DEF Visited
        <4>3. CASE b \in Tables
          <5>1. ~Resets(tr, Schema)
            BY <3>4, <4>2, <4>3, Levels DEF Visited
          <5>2. ~Touched(tr, Schema) /\ ~(tr.stime < global[Schema].wtime)
            BY <5>1 DEF Resets, Touched
          <5>3. ~Touched(tr, b)
            BY <1>1, <4>3, <5>2 DEF MarksOf
          <5>4. global[b].wtime <= global[Schema].wtime
            BY <4>3 DEF IInv, Heights
          <5> QED BY <1>2, <3>1, <4>1, <5>2, <5>3, <5>4, Levels DEF Touched
        <4>4. CASE b \in Columns
          <5>1. TableOf[b] \in Tables /\ TableOf[b] \in Bases /\ b \notin Tables /\ Schema \in Bases
            BY <4>4, Levels
          <5>2. ~Resets(tr, Schema) \/ ~Resets(tr, TableOf[b])
            BY <3>4, <4>2, <4>4, <5>1 DEF Visited
          <5>3. /\ ~Touched(tr, Schema) \/ ~Touched(tr, TableOf[b])
                /\ ~(tr.stime < global[Schema].wtime) \/ ~(tr.stime < global[TableOf[b]].wtime)
            BY <5>2 DEF Resets, Touched
          <5>4. ~Touched(tr, b)
            BY <1>1, <4>4, <5>1, <5>3 DEF MarksOf
          <5>5. global[b].wtime <= global[TableOf[b]].wtime /\ global[TableOf[b]].wtime <= global[Schema].wtime
            BY <4>4, <5>1 DEF IInv, Heights
          <5> QED BY <1>2, <3>1, <4>1, <5>1, <5>3, <5>4, <5>5 DEF Touched
        <4> QED BY <4>2, <4>3, <4>4, Levels
      <3> QED BY <3>2, <3>3, <3>4
    <2>2. base \in [Bases -> Mark]
      BY <1>5, <2>1 DEF reset_trans
    <2>3. ASSUME NEW o \in Objects
          PROVE  /\ base[o].data.kind # "private"
                 /\ base[o].data.kind = "shared" => base[o].data.id = Head(chain[o]).id
      <3>1. o \in Bases /\ DataOf(s, o) /\ (IsPrivate(tr, o) => tr.base[o].wtime # 0)
        BY <1>1, Levels DEF MarksOf
      <3> QED BY <1>4, <2>1, <3>1 DEF DataOf, IsPrivate
    <2> QED BY <2>1, <2>2, <2>3, Levels
  <1>6. CASE ~(tr.stime < gtrans.wstime \/ tr.wtime # 0)
    <2>1. base = tr.base /\ tr.stime = gtrans.wtime /\ tr.wtime = 0
      BY <1>2, <1>3, <1>6
    <2>2. \A b \in Bases : tr.base[b].wtime = 0 /\ tr.base[b].rtime \in {0, tr.stime}
      BY <1>1, <2>1 DEF MarksOf
    <2>3. /\ \A c \in Columns : tr.base[c].rtime # 0 => tr.base[TableOf[c]].rtime # 0
          /\ \A t \in Tables : tr.base[t].rtime # 0 => tr.base[Schema].rtime # 0
      BY <1>1, <2>2, Levels DEF MarksOf, Touched
    <2>4. ASSUME NEW o \in Objects
          PROVE  /\ tr.base[o].data.kind # "private"
                 /\ tr.base[o].data.kind = "shared" => tr.base[o].data.id = Head(chain[o]).id
      <3>1. o \in Bases /\ DataOf(s, o) /\ (IsPrivate(tr, o) => tr.base[o].wtime # 0)
        BY <1>1, Levels DEF MarksOf
      <3> QED BY <1>2, <1>3, <2>1, <2>2, <3>1 DEF DataOf, IsPrivate
    <2> QED BY <1>1, <2>1, <2>2, <2>3, <2>4
  <1> QED BY <1>5, <1>6

\* A transaction begins with what is committed.
LEMMA BeginKeeps ==
    ASSUME IInv, NEW s \in Sessions, Begin(s)
    PROVE  IInv'
  <1> DEFINE base == IF trans[s].stime < gtrans.wstime \/ trans[s].wtime # 0
                       THEN reset_trans(trans[s]) ELSE trans[s].base
             x == [active |-> TRUE, stime |-> gtrans.wtime, wstime |-> stamp, wtime |-> 0, base |-> base]
  <1>1. /\ ~trans[s].active /\ stamp < MaxStamp /\ stamp' = stamp + 1
        /\ trans' = [trans EXCEPT ![s] = x]
        /\ snapshot' = [snapshot EXCEPT ![s] = committed]
        /\ UNCHANGED <<gtrans, global, chain, central, committed, work>>
    BY DEF Begin
  <1>2. /\ base \in [Bases -> Mark]
        /\ \A b \in Bases : base[b].wtime = 0 /\ base[b].rtime \in {0, gtrans.wtime}
        /\ \A c \in Columns : base[c].rtime # 0 => base[TableOf[c]].rtime # 0
        /\ \A t \in Tables : base[t].rtime # 0 => base[Schema].rtime # 0
        /\ \A o \in Objects : /\ base[o].data.kind # "private"
                              /\ base[o].data.kind = "shared" => base[o].data.id = Head(chain[o]).id
    BY <1>1, BeginBase
  <1> HIDE DEF base
  <1>3. /\ stamp \in Nat /\ stamp \in Stamps /\ stamp + 1 \in Stamps /\ gtrans.wtime \in Nat /\ gtrans.wstime \in Nat
        /\ gtrans.wtime \in Stamps
        /\ \A b \in Bases : global[b].wtime \in Nat
    BY <1>1, GlobalParts, StoreAssumption DEF IInv, Shape, GlobalTypes, Stamps
  <1>4. x \in Transaction /\ x.active /\ x.stime = gtrans.wtime /\ x.wstime = stamp /\ x.wtime = 0 /\ x.base = base
    BY <1>2, <1>3, StampsNat DEF Transaction
  <1> HIDE DEF x
  <1>5. /\ trans'[s] = x /\ snapshot'[s] = committed
        /\ trans' \in [Sessions -> Transaction]
        /\ snapshot' \in [Sessions -> [Objects -> Seq(Stamps)]]
        /\ \A r \in Sessions : r # s => trans'[r] = trans[r] /\ snapshot'[r] = snapshot[r]
    BY <1>1, <1>4 DEF IInv, Shape, SessionTypes, ChainTypes
  <1>6. Active' = Active \cup {s}
    BY <1>4, <1>5 DEF Active
  <1>7. GlobalTypes' /\ ChainTypes' /\ SessionTypes'
    BY <1>1, <1>3, <1>5 DEF IInv, Shape, GlobalTypes, ChainTypes, SessionTypes
  <1>8. Times'
    <2>1. gtrans.wtime <= gtrans.wstime /\ gtrans.wstime < stamp
      BY DEF IInv, Shape, Times
    <2>2. gtrans.wtime <= gtrans.wstime /\ gtrans.wstime < stamp' /\ stamp < stamp' /\ gtrans.wtime < stamp
      BY <1>1, <1>3, <2>1
    <2>3. ASSUME NEW r \in Sessions
          PROVE  /\ trans'[r].stime <= gtrans.wtime /\ trans'[r].wstime < stamp'
                 /\ trans'[r].active => trans'[r].stime < trans'[r].wstime
      <3>1. CASE r = s
        BY <1>3, <1>4, <1>5, <2>2, <3>1
      <3>2. CASE r # s
        BY <1>1, <1>3, <1>5, <3>2, TransParts DEF IInv, Shape, Times
      <3> QED BY <3>1, <3>2
    <2> QED BY <1>1, <2>2, <2>3 DEF IInv, Shape, Times
  <1>9. Marked'
    <2>1. MarksOf(x)
      BY <1>2, <1>4, Levels DEF MarksOf, Touched, IsPrivate
    <2>2. \A r \in Sessions : MarksOf(trans'[r])
      BY <1>5, <2>1 DEF IInv, Shape, Marked
    <2> QED BY <2>2 DEF Marked, MarksOf, Touched, IsPrivate
  <1>10. Heights' /\ Chains' /\ NoWriteLost'
    BY <1>1, <1>4, <1>5, ZenonT(30) DEF IInv, Heights, Chains, ChainOf, Changed, NoWriteLost, Content
  <1>11. Bindings'
    <2>1. ASSUME NEW r \in Sessions, NEW o \in Objects PROVE DataOf(r, o)'
      <3>1. CASE r = s
        BY <1>1, <1>2, <1>4, <1>5, <3>1 DEF DataOf
      <3>2. CASE r # s
        BY <1>1, <1>5, <3>2 DEF IInv, Bindings, DataOf
      <3> QED BY <3>1, <3>2
    <2> QED BY <2>1 DEF Bindings
  <1>12. NoDangling'
    <2>1. ASSUME NEW r \in Active', NEW o \in Objects, trans'[r].base[o].data.kind = "shared"
          PROVE  \E i \in DOMAIN chain[o] : chain[o][i].id = trans'[r].base[o].data.id
      <3>1. CASE r = s
        <4>1. trans'[r].base[o].data.id = Head(chain[o]).id
          BY <1>2, <1>4, <1>5, <2>1, <3>1
        <4>2. Head(chain[o]) = chain[o][1] /\ 1 \in DOMAIN chain[o]
          BY ChainParts DEF IInv
        <4> QED BY <4>1, <4>2
      <3>2. CASE r # s
        <4>1. r \in Active /\ trans'[r] = trans[r]
          BY <1>5, <1>6, <3>2, ActiveSessions
        <4> QED BY <2>1, <4>1 DEF IInv, NoDangling
      <3> QED BY <3>1, <3>2
    <2> QED BY <1>1, <2>1 DEF NoDangling
  <1>13. Snapshots'
    <2>1. ASSUME NEW r \in Active', NEW o \in Objects PROVE SnapshotOf(r, o)'
      <3>1. CASE r = s
        <4>1. /\ Head(chain[o]).wtime <= gtrans.wtime /\ ChainOf(o) /\ Head(chain[o]) = chain[o][1]
              /\ 1 \in DOMAIN chain[o]
          BY ChainParts DEF IInv, Chains, ChainOf
        <4>2. Visible(chain[o], gtrans.wtime) = Head(chain[o])
          BY <1>3, <4>1, ChainParts, VisibleVersion DEF IInv
        <4>3. Content(o, Head(chain[o]).delta) = committed[o]
          BY DEF IInv, NoWriteLost
        <4>4. VersionOf(chain[o], Head(chain[o]).id) = Head(chain[o])
          BY <4>1, VersionIs
        <4>5. committed[o] \in Seq(Stamps)
          BY DEF IInv, Shape, ChainTypes
        <4>6. Len(committed[o]) <= Len(committed[o])
          BY <4>5
        <4>7. /\ base[o].data.kind # "private"
              /\ base[o].data.kind = "shared" => base[o].data.id = Head(chain[o]).id
          BY <1>2
        <4>8. /\ trans'[r].base[o] = base[o] /\ trans'[r].stime = gtrans.wtime /\ snapshot'[r] = committed
              /\ chain' = chain /\ central' = central /\ committed' = committed /\ global' = global
          BY <1>1, <1>4, <1>5, <3>1
        <4> QED BY <4>2, <4>3, <4>4, <4>6, <4>7, <4>8 DEF SnapshotOf, Content
      <3>2. CASE r # s
        <4>1. SnapshotOf(r, o) /\ r \in Sessions
          BY <1>6, <3>2, ActiveSessions DEF IInv, Snapshots
        <4> QED BY <1>1, <1>5, <3>2, <4>1 DEF SnapshotOf, Content
      <3> QED BY <3>1, <3>2
    <2> QED BY <2>1 DEF Snapshots
  <1>14. Progress'
    <2>1. ASSUME NEW r \in Active'
          PROVE  /\ gtrans.wtime # trans'[r].stime => \E o \in Objects : Len(snapshot'[r][o]) < Len(committed[o])
                 /\ trans'[r].wtime # 0 => \E o \in Objects : OwnRows(trans'[r], o) # <<>>
      <3>1. CASE r = s
        BY <1>4, <1>5, <3>1
      <3>2. CASE r # s
        BY <1>5, <1>6, <3>2, ActiveSessions DEF IInv, Progress
      <3> QED BY <3>1, <3>2
    <2> QED BY <1>1, <2>1 DEF Progress, OwnRows, IsPrivate
  <1> QED BY <1>7, <1>8, <1>9, <1>10, <1>11, <1>12, <1>13, <1>14 DEF IInv, Shape

----------------------------------------------------------------------------
(***************************************************************************)
(* The flush                                                               *)
(***************************************************************************)
\* What the flush merges: every column with rows that are not merged, and so
\* the central BATs have everything afterwards.
LEMMA FlushMerges ==
    ASSUME IInv, Flush
    PROVE  /\ \A o \in Columns : o \notin Merged => Head(chain[o]).delta = <<>>
           /\ Merged \subseteq Columns
           /\ central' = committed
  <1>1. ASSUME NEW o \in Columns, o \notin Merged PROVE Head(chain[o]).delta = <<>>
    <2> SUFFICES ASSUME Head(chain[o]).delta # <<>> PROVE FALSE
      OBVIOUS
    <2>1. Changed(o) /\ Changed(TableOf[o]) /\ Changed(Schema) /\ o \in Objects
      BY Levels DEF IInv, Chains, ChainOf
    <2> QED BY <1>1, <2>1 DEF Looked, Merged
  <1>2. Merged \subseteq Columns
    BY DEF Merged
  <1>3. ASSUME NEW o \in Objects PROVE central'[o] = committed[o]
    <2>0. Content(o, Head(chain[o]).delta) = committed[o] /\ central[o] \in Seq(Stamps)
      BY DEF IInv, NoWriteLost, Shape, ChainTypes
    <2>1. central'[o] = IF o \in Merged THEN Content(o, Head(chain[o]).delta) ELSE central[o]
      BY DEF Flush
    <2>2. CASE o \in Merged
      BY <2>0, <2>1, <2>2
    <2>3. CASE o \notin Merged /\ o \in Columns
      <3>1. central[o] \o <<>> = central[o]
        BY <2>0
      <3> QED BY <1>1, <2>0, <2>1, <2>3, <3>1 DEF Content
    <2>4. CASE o \in Tables
      BY <1>2, <2>0, <2>1, <2>4, Levels DEF IInv, Chains, ChainOf, Content
    <2> QED BY <2>2, <2>3, <2>4 DEF Objects
  <1>4. central' = [o \in Objects |-> IF o \in Merged THEN Content(o, Head(chain[o]).delta) ELSE central[o]]
    BY DEF Flush
  <1>5. central' = committed
    BY <1>3, <1>4 DEF IInv, Shape, ChainTypes
  <1> QED BY <1>1, <1>2, <1>5

\* A flush keeps the latest versions, and in the columns none else.
LEMMA FlushChain ==
    ASSUME IInv, Flush, NEW o \in Objects
    PROVE  /\ chain'[o] \in Seq(Version) /\ chain'[o] # <<>>
           /\ chain'[o] = chain[o] \/ (Len(chain'[o]) = 1 /\ DOMAIN chain'[o] = {1})
           /\ Head(chain'[o]).id = Head(chain[o]).id /\ Head(chain'[o]).wtime = Head(chain[o]).wtime
           /\ o \in Columns => Head(chain'[o]).delta = <<>>
           /\ o \in Tables => chain'[o] = chain[o]
           /\ Head(chain'[o]) = chain'[o][1]
  <1> DEFINE h == Head(chain[o])
             v == [h EXCEPT !.delta = <<>>]
  <1>1. h \in Version /\ chain[o] \in Seq(Version) /\ chain[o] # <<>> /\ h = chain[o][1]
    BY ChainParts DEF IInv
  <1>2. chain'[o] = IF o \in Looked \cap Columns THEN <<v>> ELSE chain[o]
    BY DEF Flush
  <1>3. <<>> \in Seq(Stamps)
    OBVIOUS
  <1>4. v \in Version /\ v.id = h.id /\ v.wtime = h.wtime /\ v.delta = <<>>
    BY <1>1, <1>3 DEF Version
  <1> HIDE DEF v, h
  <1>5. <<v>> \in Seq(Version) /\ <<v>> # <<>> /\ Len(<<v>>) = 1 /\ DOMAIN <<v>> = {1} /\ Head(<<v>>) = v /\ <<v>>[1] = v
    BY <1>4
  <1>6. CASE o \in Looked \cap Columns
    BY <1>2, <1>4, <1>5, <1>6, Levels DEF h
  <1>7. CASE o \notin Looked \cap Columns
    <2>1. o \in Columns => h.delta = <<>>
      BY <1>7, FlushMerges DEF Merged, h
    <2> QED BY <1>1, <1>2, <1>7, <2>1 DEF h
  <1> QED BY <1>6, <1>7

\* The times after a flush: those of the objects it changed are new.
LEMMA FlushTimes ==
    ASSUME IInv, Flush
    PROVE  /\ stamp \in Nat /\ stamp' = stamp + 1 /\ stamp' \in Stamps
           /\ gtrans' \in [wtime : Stamps, wstime : Stamps]
           /\ global' \in [Bases -> [rtime : Stamps, wtime : Stamps, allocated : Stamps]]
           /\ gtrans'.wstime = stamp /\ gtrans'.wtime \in Nat /\ gtrans'.wtime <= stamp
           /\ gtrans.wtime <= gtrans'.wtime
           /\ \A b \in Bases : /\ global'[b].wtime \in Nat /\ global'[b].rtime = global[b].rtime
                               /\ global[b].wtime <= global'[b].wtime /\ global'[b].wtime <= gtrans'.wtime
                               /\ global'[b].allocated <= gtrans'.wtime
           /\ \A c \in Columns : global'[c].wtime <= global'[TableOf[c]].wtime
           /\ \A t \in Tables : global'[t].wtime <= global'[Schema].wtime
  <1> DEFINE above == IF Merged = {} THEN {} ELSE Merged \cup {TableOf[c] : c \in Merged} \cup {Schema}
  <1>1. /\ stamp < MaxStamp /\ stamp' = stamp + 1
        /\ global' = [b \in Bases |-> IF b \in above THEN [global[b] EXCEPT !.wtime = stamp, !.allocated = stamp]
                                                     ELSE global[b]]
        /\ gtrans' = [wtime |-> FlushTime(above, stamp), wstime |-> stamp]
    BY DEF Flush
  <1>2. /\ \A c \in Columns : c \in above => TableOf[c] \in above
        /\ \A t \in Tables : t \in above => Schema \in above
    BY Levels DEF Merged
  <1> HIDE DEF above
  <1>3. /\ stamp \in Nat /\ stamp \in Stamps /\ stamp + 1 \in Stamps
        /\ gtrans.wtime \in Nat /\ gtrans.wstime \in Nat /\ gtrans.wtime \in Stamps
    <2>1. stamp \in Stamps /\ gtrans.wtime \in Stamps
      BY DEF IInv, Shape, GlobalTypes
    <2>2. stamp + 1 \in Stamps
      <3>1. stamp < MaxStamp /\ stamp \in Nat
        BY <1>1, GlobalParts DEF IInv
      <3> QED BY <3>1, StoreAssumption DEF Stamps
    <2> QED BY <2>1, <2>2, GlobalParts DEF IInv
  <1>4. gtrans.wtime <= gtrans.wstime /\ gtrans.wstime < stamp
    BY DEF IInv, Shape, Times
  <1>5. /\ gtrans'.wstime = stamp /\ gtrans'.wtime = IF above # {} THEN stamp ELSE gtrans.wtime
        /\ gtrans' \in [wtime : Stamps, wstime : Stamps]
    BY <1>1, <1>3 DEF FlushTime
  <1>6. gtrans.wtime < stamp /\ gtrans'.wtime \in Nat /\ gtrans'.wtime <= stamp /\ gtrans.wtime <= gtrans'.wtime
    BY <1>3, <1>4, <1>5
  <1>7. ASSUME NEW b \in Bases
        PROVE  /\ global'[b] \in [rtime : Stamps, wtime : Stamps, allocated : Stamps]
               /\ global'[b].rtime = global[b].rtime
               /\ global'[b].wtime = IF b \in above THEN stamp ELSE global[b].wtime
               /\ global'[b].allocated = IF b \in above THEN stamp ELSE global[b].allocated
    BY <1>1, <1>3 DEF IInv, Shape, GlobalTypes
  <1>8. \A b \in Bases : /\ global[b].wtime \in Nat /\ global[b].allocated \in Nat
                         /\ global[b].wtime <= gtrans.wtime /\ global[b].allocated <= gtrans.wtime
    BY GlobalParts DEF IInv, Shape, Times, Heights
  <1>9. global' \in [Bases -> [rtime : Stamps, wtime : Stamps, allocated : Stamps]]
    BY <1>1, <1>7
  <1>10. ASSUME NEW b \in Bases
         PROVE  /\ global'[b].wtime \in Nat /\ global'[b].rtime = global[b].rtime
                /\ global[b].wtime <= global'[b].wtime /\ global'[b].wtime <= gtrans'.wtime
                /\ global'[b].allocated <= gtrans'.wtime
    <2>1. CASE b \in above
      <3>1. above # {}
        BY <2>1
      <3> QED BY <1>3, <1>5, <1>6, <1>7, <1>8, <2>1, <3>1
    <2>2. CASE b \notin above
      BY <1>3, <1>6, <1>7, <1>8, <2>2
    <2> QED BY <2>1, <2>2
  <1>11. ASSUME NEW b \in Bases, NEW u \in Bases, b \in above => u \in above, global[b].wtime <= global[u].wtime
         PROVE  global'[b].wtime <= global'[u].wtime
    BY <1>3, <1>6, <1>7, <1>8, <1>11
  <1>12. /\ \A c \in Columns : global'[c].wtime <= global'[TableOf[c]].wtime
         /\ \A t \in Tables : global'[t].wtime <= global'[Schema].wtime
    BY <1>2, <1>11, Levels DEF IInv, Heights
  <1> QED BY <1>1, <1>3, <1>5, <1>6, <1>9, <1>10, <1>12

\* A flush keeps the invariant: nobody is active, and whoever begins next
\* finds the latest versions.
LEMMA FlushKeeps ==
    ASSUME IInv, Flush
    PROVE  IInv'
  <1>1. /\ stamp \in Nat /\ stamp' = stamp + 1 /\ stamp' \in Stamps
        /\ gtrans' \in [wtime : Stamps, wstime : Stamps]
        /\ global' \in [Bases -> [rtime : Stamps, wtime : Stamps, allocated : Stamps]]
        /\ gtrans'.wstime = stamp /\ gtrans'.wtime \in Nat /\ gtrans'.wtime <= stamp
        /\ gtrans.wtime <= gtrans'.wtime
        /\ \A b \in Bases : /\ global'[b].wtime \in Nat /\ global'[b].rtime = global[b].rtime
                            /\ global[b].wtime <= global'[b].wtime /\ global'[b].wtime <= gtrans'.wtime
                            /\ global'[b].allocated <= gtrans'.wtime
        /\ \A c \in Columns : global'[c].wtime <= global'[TableOf[c]].wtime
        /\ \A t \in Tables : global'[t].wtime <= global'[Schema].wtime
    BY FlushTimes
  <1>2. /\ Active = {} /\ trans' = trans /\ committed' = committed /\ snapshot' = snapshot /\ work' = work
        /\ chain' \in [Objects -> Seq(Version)] /\ central' = committed
    <2>1. chain' = [o \in Objects |-> chain'[o]]
      BY DEF Flush
    <2>2. \A o \in Objects : chain'[o] \in Seq(Version)
      BY FlushChain
    <2> QED BY <2>1, <2>2, FlushMerges DEF Flush
  <1>3. Active' = {}
    BY <1>2 DEF Active
  <1>4. GlobalTypes' /\ SessionTypes'
    BY <1>1, <1>2 DEF IInv, Shape, GlobalTypes, SessionTypes
  <1>5. ChainTypes'
    BY <1>2, FlushChain DEF IInv, Shape, ChainTypes
  <1>6. Marked'
    BY <1>2 DEF IInv, Shape, Marked, MarksOf, Touched, IsPrivate
  <1>7. gtrans.wtime \in Nat /\ (\A b \in Bases : global[b].rtime \in Nat /\ global[b].rtime <= gtrans.wtime)
        /\ gtrans.wtime > 0
    BY GlobalParts DEF IInv, Shape, Times, Heights
  <1>8. Times'
    <2>1. \A s \in Sessions : /\ trans[s].stime \in Nat /\ trans[s].wstime \in Nat
                              /\ trans[s].stime <= gtrans.wtime /\ trans[s].wstime < stamp
                              /\ trans[s].active => trans[s].stime < trans[s].wstime
      BY TransParts DEF IInv, Shape, Times
    <2>2. \A s \in Sessions : trans[s].stime <= gtrans'.wtime /\ trans[s].wstime < stamp'
      BY <1>1, <1>7, <2>1
    <2>3. \A b \in Bases : global'[b].rtime <= gtrans'.wtime /\ global'[b].wtime <= gtrans'.wtime
      BY <1>1, <1>7
    <2>4. gtrans'.wtime <= gtrans'.wstime /\ gtrans'.wstime < stamp'
      BY <1>1
    <2> QED BY <1>2, <2>1, <2>2, <2>3, <2>4 DEF Times
  <1>9. Heights'
    <2>1. gtrans'.wtime > 0 /\ \A s \in Sessions : trans'[s].stime > 0
      BY <1>1, <1>2, <1>7 DEF IInv, Heights
    <2> QED BY <1>1, <2>1 DEF Heights
  <1>10. ASSUME NEW o \in Objects PROVE ChainOf(o)'
    <2>1. ChainOf(o) /\ o \in Bases
      BY Levels DEF IInv, Chains
    <2>2. /\ \A i \in DOMAIN chain[o] : /\ chain[o][i].id \in Nat /\ chain[o][i].wtime \in Nat
                                        /\ chain[o][i].id <= gtrans'.wtime /\ chain[o][i].wtime <= gtrans'.wtime
          /\ Head(chain[o]) = chain[o][1] /\ 1 \in DOMAIN chain[o]
      BY <1>1, <1>7, <2>1, ChainParts DEF IInv, ChainOf
    <2>3. /\ \A i \in DOMAIN chain'[o] : chain'[o][i].id <= gtrans'.wtime /\ chain'[o][i].wtime <= gtrans'.wtime
          /\ \A i, j \in DOMAIN chain'[o] : chain'[o][i].id = chain'[o][j].id => i = j
      BY <2>1, <2>2, FlushChain DEF ChainOf
    <2>4. Head(chain'[o]).wtime <= global'[o].wtime
      <3>1. Head(chain[o]).wtime <= global[o].wtime /\ global[o].wtime \in Nat
        BY <2>1, GlobalParts DEF ChainOf, IInv
      <3> QED BY <1>1, <2>1, <2>2, <3>1, FlushChain
    <2>5. o \in Tables => central'[o] = Head(chain'[o]).delta
      BY <1>2, <2>1, FlushChain, Levels DEF ChainOf, IInv, NoWriteLost, Content
    <2>6. o \in Columns => Head(chain'[o]).delta = <<>>
      BY FlushChain
    <2> QED BY <2>3, <2>4, <2>5, <2>6 DEF ChainOf
  <1>11. NoWriteLost'
    <2>1. ASSUME NEW o \in Objects PROVE Content(o, Head(chain[o]).delta)' = committed[o]
      <3>1. committed[o] \in Seq(Stamps) /\ Content(o, Head(chain[o]).delta) = committed[o]
        BY DEF IInv, Shape, ChainTypes, NoWriteLost
      <3>2. committed[o] \o <<>> = committed[o]
        BY <3>1
      <3>3. CASE o \in Columns
        BY <1>2, <3>2, <3>3, FlushChain DEF Content
      <3>4. CASE o \in Tables
        BY <3>1, <3>4, FlushChain, Levels DEF Content
      <3> QED BY <3>3, <3>4 DEF Objects
    <2> QED BY <1>2, <2>1 DEF NoWriteLost
  <1>12. Bindings'
    <2>1. ASSUME NEW s \in Sessions, NEW o \in Objects PROVE DataOf(s, o)'
      <3>1. DataOf(s, o) /\ o \in Bases /\ trans[s].stime \in Nat /\ global[o].wtime \in Nat
            /\ trans[s].base[o].data \in Data
        BY TransParts, GlobalParts, Levels DEF IInv, Bindings
      <3>2. Head(chain'[o]).id = Head(chain[o]).id
        BY FlushChain
      <3>3. trans[s].stime < global[o].wtime => trans[s].stime < global'[o].wtime
        BY <1>1, <3>1
      <3>4. trans[s].base[o].data.kind = "private" => trans[s].base[o].data.wtime \in Nat
        BY <3>1, DataKinds, StampsNat
      <3>5. \A w \in Nat : w <= gtrans.wtime => w <= gtrans'.wtime
        BY <1>1, <1>7
      <3> QED BY <1>2, <3>1, <3>2, <3>3, <3>4, <3>5 DEF DataOf
    <2> QED BY <2>1 DEF Bindings
  <1>13. NoDangling' /\ Snapshots' /\ Progress'
    BY <1>3 DEF NoDangling, Snapshots, Progress
  <1> QED BY <1>4, <1>5, <1>6, <1>8, <1>9, <1>10, <1>11, <1>12, <1>13 DEF IInv, Shape, Chains

----------------------------------------------------------------------------
(***************************************************************************)
(* The commit                                                              *)
(***************************************************************************)
\* Rows put after the same rows are the same.
LEMMA ConcatCancel ==
    ASSUME NEW p \in Seq(Stamps), NEW q \in Seq(Stamps), NEW r \in Seq(Stamps), p \o q = p \o r
    PROVE  q = r
  <1>1. Len(q) = Len(r)
    OBVIOUS
  <1>2. ASSUME NEW i \in 1..Len(q) PROVE q[i] = r[i]
    <2>1. (p \o q)[Len(p) + i] = q[i] /\ (p \o r)[Len(p) + i] = r[i]
      BY <1>1
    <2> QED BY <2>1
  <1> QED BY <1>1, <1>2

\* Rows can be put together in any order.
LEMMA ConcatAssoc ==
    ASSUME NEW p \in Seq(Stamps), NEW q \in Seq(Stamps), NEW r \in Seq(Stamps)
    PROVE  (p \o q) \o r = p \o (q \o r)
  BY ConcatAssociative

\* Rows and their parts.
LEMMA Concats ==
    /\ \A p, q \in Seq(Stamps) : p \o q \in Seq(Stamps) /\ Len(p \o q) = Len(p) + Len(q)
    /\ \A p \in Seq(Stamps) : p \o <<>> = p
    /\ \A p, q \in Seq(Stamps) : SubSeq(p \o q, 1, Len(p)) = p
    /\ <<>> \in Seq(Stamps) /\ Len(<<>>) = 0
    /\ \A w \in Stamps : <<w>> \in Seq(Stamps) /\ <<w>> # <<>> /\ Len(<<w>>) = 1
  <1>2. \A p, q \in Seq(Stamps) : p \o q \in Seq(Stamps) /\ Len(p \o q) = Len(p) + Len(q)
    OBVIOUS
  <1>3. \A p \in Seq(Stamps) : p \o <<>> = p
    OBVIOUS
  <1>4. \A p, q \in Seq(Stamps) : SubSeq(p \o q, 1, Len(p)) = p
    OBVIOUS
  <1>5. <<>> \in Seq(Stamps) /\ Len(<<>>) = 0
    OBVIOUS
  <1>6. \A w \in Stamps : <<w>> \in Seq(Stamps) /\ <<w>> # <<>> /\ Len(<<w>>) = 1
    OBVIOUS
  <1> QED BY <1>2, <1>3, <1>4, <1>5, <1>6, Zenon

\* What validation shows: all that a commit forwards was not written by
\* others since the transaction began, so a private copy is a copy of the
\* latest version.
LEMMA Validated ==
    ASSUME IInv, NEW s \in Sessions, Commit(s), NEW o \in Objects
    PROVE  /\ o \in Forwarded(trans[s]) =>
                /\ global[o].wtime <= trans[s].stime
                /\ committed[o] = snapshot[s][o]
           /\ IsPrivate(trans[s], o) => LET d == trans[s].base[o].data IN
                /\ o \in Forwarded(trans[s]) /\ trans[s].base[o].wtime # 0
                /\ d \in PrivateData /\ d.delta = Head(chain[o]).delta
                /\ d.own # <<>> => d.own = <<trans[s].wstime>> /\ d.wtime = trans[s].wstime
                /\ d.own = <<>> => o \in Tables /\ d.wtime = Head(chain[o]).wtime
  <1> DEFINE tr == trans[s]
             d == tr.base[o].data
  <1>1. tr.active /\ s \in Active /\ sql_trans_validate(tr)
    BY ActiveSessions DEF Commit
  <1>2. MarksOf(tr) /\ SnapshotOf(s, o) /\ DataOf(s, o) /\ tr.stime > 0
        /\ Content(o, Head(chain[o]).delta) = committed[o] /\ o \in Bases
    BY <1>1, Levels DEF IInv, Shape, Marked, Snapshots, Bindings, Heights, NoWriteLost
  <1>3. tr.stime \in Nat /\ (\A b \in Bases : global[b].wtime \in Nat /\ tr.base[b].wtime \in Nat) /\ d \in Data
    BY <1>2, TransParts, GlobalParts DEF IInv
  <1>4. ASSUME NEW t \in Tables, tr.base[t].wtime # 0
        PROVE  global[t].wtime <= tr.stime
    <2>1. tr.base[t].rtime = tr.stime /\ Touched(tr, t) /\ Touched(tr, Schema) /\ t \in Bases
      BY <1>2, <1>4, Levels DEF MarksOf, Touched
    <2>2. ~Conflict(tr, t)
      BY <1>1, <2>1 DEF sql_trans_validate
    <2>3. tr.base[t].rtime # 0
      BY <1>2, <1>3, <2>1
    <2>4. ~(tr.base[t].rtime < global[t].wtime)
      BY <2>2, <2>3 DEF Conflict
    <2> QED BY <1>3, <2>1, <2>4
  <1>5. ASSUME o \in Forwarded(tr) PROVE global[o].wtime <= tr.stime
    <2>1. CASE o \in Tables /\ tr.base[o].wtime # 0
      BY <1>4, <2>1
    <2>2. CASE o \in Columns /\ tr.base[TableOf[o]].wtime # 0
      <3>1. TableOf[o] \in Tables /\ TableOf[o] \in Bases
        BY <2>2, Levels
      <3>2. global[TableOf[o]].wtime <= tr.stime
        BY <1>4, <2>2, <3>1
      <3>3. global[o].wtime <= global[TableOf[o]].wtime
        BY <2>2 DEF IInv, Heights
      <3> QED BY <1>2, <1>3, <3>1, <3>2, <3>3
    <2> QED BY <1>5, <2>1, <2>2 DEF Forwarded
  <1>6. o \in Forwarded(tr) => committed[o] = snapshot[s][o]
    BY <1>2, <1>5 DEF SnapshotOf
  <1>7. ASSUME IsPrivate(tr, o)
        PROVE  /\ o \in Forwarded(tr) /\ tr.base[o].wtime # 0
               /\ d \in PrivateData /\ d.delta = Head(chain[o]).delta
               /\ d.own # <<>> => d.own = <<tr.wstime>> /\ d.wtime = tr.wstime
               /\ d.own = <<>> => o \in Tables /\ d.wtime = Head(chain[o]).wtime
    <2>1. tr.base[o].wtime # 0
      BY <1>2, <1>7 DEF MarksOf
    <2>2. o \in Forwarded(tr)
      <3>1. CASE o \in Tables
        BY <2>1, <3>1 DEF Forwarded
      <3>2. CASE o \in Columns
        BY <1>2, <2>1, <3>2 DEF Forwarded, MarksOf
      <3> QED BY <3>1, <3>2 DEF Objects
    <2>3. d.kind = "private" /\ d \in PrivateData /\ d.delta \in Seq(Stamps)
      BY <1>3, <1>7, DataKinds DEF IsPrivate
    <2>4. global[o].wtime <= tr.stime
      BY <1>5, <2>2
    <2>5. Content(o, d.delta) = Content(o, Head(chain[o]).delta)
      BY <1>2, <2>3, <2>4 DEF SnapshotOf
    <2>6. Head(chain[o]).delta \in Seq(Stamps) /\ central[o] \in Seq(Stamps)
      BY ChainParts DEF IInv, Shape, ChainTypes
    <2>7. d.delta = Head(chain[o]).delta
      <3>1. CASE o \in Columns
        <4>1. central[o] \o d.delta = central[o] \o Head(chain[o]).delta
          BY <2>5, <3>1 DEF Content
        <4> HIDE DEF d
        <4> HIDE DEF tr
        <4> QED BY <2>3, <2>6, <4>1, ConcatCancel
      <3>2. CASE o \notin Columns
        BY <2>5, <3>2 DEF Content
      <3> QED BY <3>1, <3>2
    <2>8. d.own = <<>> => d.wtime = Head(chain[o]).wtime
      BY <1>2, <2>3, <2>4 DEF SnapshotOf
    <2> QED BY <1>2, <2>1, <2>2, <2>3, <2>7, <2>8 DEF DataOf
  <1> QED BY <1>5, <1>6, <1>7

\* The times after a commit.
LEMMA CommitTimes ==
    ASSUME IInv, NEW s \in Sessions, Commit(s), InOrder
    PROVE  LET w == trans[s].wstime IN
           /\ w \in Nat /\ w \in Stamps /\ gtrans.wtime \in Nat /\ gtrans.wtime < w /\ w < stamp
           /\ stamp' = stamp /\ gtrans'.wtime = w /\ w <= gtrans'.wstime /\ gtrans'.wstime < stamp
           /\ gtrans' \in [wtime : Stamps, wstime : Stamps]
           /\ global' \in [Bases -> [rtime : Stamps, wtime : Stamps, allocated : Stamps]]
           /\ \A b \in Bases : /\ global[b].wtime \in Nat /\ global'[b].wtime \in Nat
                               /\ global'[b].allocated = global[b].allocated
                               /\ global'[b].rtime <= w /\ global'[b].wtime <= w
                               /\ global[b].wtime <= global'[b].wtime
                               /\ trans[s].base[b].wtime # 0 => global'[b].wtime = w
           /\ \A o \in Objects : o \notin Forwarded(trans[s]) => global'[o] = global[o]
           /\ \A c \in Columns : global'[c].wtime <= global'[TableOf[c]].wtime
           /\ \A t \in Tables : global'[t].wtime <= global'[Schema].wtime
  <1> DEFINE tr == trans[s]
             w == tr.wstime
             fw == Forwarded(tr)
  <1>1. /\ gtrans.wtime < w /\ stamp' = stamp /\ tr.wtime # 0 /\ tr.active
        /\ gtrans' = [wtime |-> Later(gtrans.wtime, tr.wtime), wstime |-> Later(gtrans.wstime, w)]
        /\ global' = [b \in Bases |-> IF b \in fw \cup {Schema}
                        THEN [global[b] EXCEPT !.rtime = Later(@, tr.base[b].rtime), !.wtime = Later(@, tr.base[b].wtime)]
                        ELSE global[b]]
    BY DEF Commit, sql_trans_commit
  <1>2. MarksOf(tr) /\ tr \in Transaction /\ w < stamp /\ tr.stime <= gtrans.wtime
        /\ gtrans.wtime <= gtrans.wstime /\ gtrans.wstime < stamp
    BY TransParts DEF IInv, Shape, Marked, Times
  <1>3. /\ w \in Nat /\ w \in Stamps /\ tr.stime \in Nat /\ tr.stime \in Stamps
        /\ gtrans.wtime \in Nat /\ gtrans.wstime \in Nat /\ stamp \in Nat
        /\ gtrans.wtime \in Stamps /\ gtrans.wstime \in Stamps /\ 0 \in Stamps
        /\ \A b \in Bases : global[b] \in [rtime : Stamps, wtime : Stamps, allocated : Stamps]
    BY <1>2, TransParts, GlobalParts, StampsNat DEF IInv, Shape, GlobalTypes, Transaction
  <1>4. tr.wtime = w
    BY <1>1, <1>2 DEF MarksOf
  <1>5. gtrans'.wtime = w /\ gtrans'.wstime = Later(gtrans.wstime, w)
        /\ w <= gtrans'.wstime /\ gtrans'.wstime < stamp /\ gtrans' \in [wtime : Stamps, wstime : Stamps]
    <2>1. Later(gtrans.wtime, tr.wtime) = w
      BY <1>1, <1>4 DEF Later
    <2>2. Later(gtrans.wstime, w) \in {gtrans.wstime, w} /\ w <= Later(gtrans.wstime, w)
      <3> HIDE DEF w
      <3> QED BY <1>3 DEF Later
    <2>3. gtrans'.wtime = w /\ gtrans'.wstime = Later(gtrans.wstime, w)
      BY <1>1, <2>1
    <2>4. gtrans' \in [wtime : Stamps, wstime : Stamps]
      BY <1>1, <1>3, <2>1, <2>2
    <2> QED BY <1>2, <2>2, <2>3, <2>4
  <1>6. ASSUME NEW b \in Bases
        PROVE  /\ global[b].rtime \in Stamps /\ global[b].wtime \in Stamps /\ global[b].allocated \in Stamps
               /\ global[b].rtime \in Nat /\ global[b].wtime \in Nat
               /\ global[b].rtime <= gtrans.wtime /\ global[b].wtime <= gtrans.wtime
               /\ tr.base[b].rtime \in {0, tr.stime} /\ tr.base[b].wtime \in {0, w}
    BY <1>2, <1>3, GlobalParts DEF IInv, Shape, Times, MarksOf
  <1>7. ASSUME NEW b \in Bases
        PROVE  /\ Later(global[b].rtime, tr.base[b].rtime) \in Stamps
               /\ Later(global[b].wtime, tr.base[b].wtime) \in Stamps
               /\ Later(global[b].rtime, tr.base[b].rtime) <= w
               /\ Later(global[b].wtime, tr.base[b].wtime) =
                     IF tr.base[b].wtime # 0 THEN w ELSE global[b].wtime
    <2>1. gtrans.wtime < w /\ tr.stime <= gtrans.wtime
      BY <1>1, <1>2
    <2> HIDE DEF w, tr
    <2>2. /\ global[b].rtime \in Stamps /\ global[b].wtime \in Stamps
          /\ global[b].rtime \in Nat /\ global[b].wtime \in Nat
          /\ global[b].rtime <= gtrans.wtime /\ global[b].wtime <= gtrans.wtime
          /\ tr.base[b].rtime \in {0, tr.stime} /\ tr.base[b].wtime \in {0, w}
      BY <1>6
    <2>3. w \in Nat /\ w \in Stamps /\ tr.stime \in Nat /\ tr.stime \in Stamps /\ 0 \in Stamps /\ gtrans.wtime \in Nat
      BY <1>3
    <2>4. Later(global[b].rtime, tr.base[b].rtime) \in {global[b].rtime, 0, tr.stime}
      BY <2>2 DEF Later
    <2>5. Later(global[b].wtime, tr.base[b].wtime) = IF tr.base[b].wtime # 0 THEN w ELSE global[b].wtime
      BY <2>1, <2>2, <2>3 DEF Later
    <2> QED BY <2>1, <2>2, <2>3, <2>4, <2>5
  <1>8. \A b \in Bases : tr.base[b].wtime # 0 => b \in fw \cup {Schema}
    BY <1>2, Levels DEF Forwarded, MarksOf
  <1>9. ASSUME NEW b \in Bases
        PROVE  /\ global'[b] \in [rtime : Stamps, wtime : Stamps, allocated : Stamps]
               /\ global'[b].allocated = global[b].allocated
               /\ global'[b].wtime = IF tr.base[b].wtime # 0 THEN w ELSE global[b].wtime
               /\ global'[b].rtime <= w
    <2>1. CASE b \in fw \cup {Schema}
      BY <1>1, <1>3, <1>7, <2>1
    <2>2. CASE b \notin fw \cup {Schema}
      <3>1. global'[b] = global[b] /\ tr.base[b].wtime = 0
        BY <1>1, <1>8, <2>2
      <3>2. global[b].rtime <= w
        <4>1. gtrans.wtime < w /\ w \in Nat /\ gtrans.wtime \in Nat /\ global[b].rtime \in Nat
              /\ global[b].rtime <= gtrans.wtime
          BY <1>1, <1>3, <1>6
        <4> HIDE DEF w
        <4> QED BY <4>1
      <3> QED BY <1>3, <3>1, <3>2
    <2> QED BY <2>1, <2>2
  <1>10. global' \in [Bases -> [rtime : Stamps, wtime : Stamps, allocated : Stamps]]
    BY <1>1, <1>9
  <1>11. ASSUME NEW b \in Bases
         PROVE  /\ global'[b].wtime \in Nat /\ global'[b].wtime <= w /\ global[b].wtime <= global'[b].wtime
    <2>1. gtrans.wtime < w /\ w \in Nat /\ gtrans.wtime \in Nat
      BY <1>1, <1>3
    <2>2. global[b].wtime \in Nat /\ global[b].wtime <= gtrans.wtime
      BY <1>6
    <2>3. global'[b].wtime = w \/ global'[b].wtime = global[b].wtime
      BY <1>9
    <2> HIDE DEF w
    <2> QED BY <2>1, <2>2, <2>3
  <1>12. ASSUME NEW b \in Bases, NEW u \in Bases, tr.base[b].wtime # 0 => tr.base[u].wtime # 0,
                global[b].wtime <= global[u].wtime
         PROVE  global'[b].wtime <= global'[u].wtime
    <2>1. gtrans.wtime < w /\ w \in Nat /\ gtrans.wtime \in Nat
      BY <1>1, <1>3
    <2>2. /\ global[b].wtime \in Nat /\ global[b].wtime <= gtrans.wtime
          /\ global[u].wtime \in Nat /\ global[u].wtime <= gtrans.wtime
      BY <1>6
    <2>3. /\ global'[b].wtime = IF tr.base[b].wtime # 0 THEN w ELSE global[b].wtime
          /\ global'[u].wtime = IF tr.base[u].wtime # 0 THEN w ELSE global[u].wtime
      BY <1>9
    <2> HIDE DEF w, tr
    <2> QED BY <1>12, <2>1, <2>2, <2>3
  <1>13. /\ \A c \in Columns : global'[c].wtime <= global'[TableOf[c]].wtime
         /\ \A t \in Tables : global'[t].wtime <= global'[Schema].wtime
    BY <1>2, <1>12, Levels DEF IInv, Heights, MarksOf
  <1>14. \A o \in Objects : o \notin fw => global'[o] = global[o]
    BY <1>1, Levels
  <1> QED BY <1>1, <1>2, <1>3, <1>5, <1>6, <1>9, <1>10, <1>11, <1>13, <1>14

\* A version in front that is too new, or only a copy of the latest one, does
\* not change what is seen.
LEMMA VisibleSame ==
    ASSUME NEW ch \in Seq(Version), ch # <<>>, NEW time \in Nat, NEW v \in Version,
           v.wtime > time \/ (v.wtime = Head(ch).wtime /\ v.delta = Head(ch).delta)
    PROVE  Visible(<<v>> \o ch, time).delta = Visible(ch, time).delta
  <1>1. CASE v.wtime > time
    BY <1>1, VisiblePrepend
  <1>2. CASE ~(v.wtime > time)
    <2>1. v.wtime \in Nat /\ v.wtime <= time
      BY <1>2, VersionParts
    <2>2. <<v>> \o ch \in Seq(Version) /\ <<v>> \o ch # <<>> /\ Head(<<v>> \o ch) = v
      OBVIOUS
    <2>3. Visible(<<v>> \o ch, time) = v
      BY <2>1, <2>2, VisibleVersion
    <2>4. Visible(ch, time) = Head(ch)
      BY <1>2, <2>1, VisibleVersion
    <2> QED BY <1>2, <2>3, <2>4
  <1> QED BY <1>1, <1>2

\* The session after its commit: what was forwarded is taken anew.
LEMMA CommitSession ==
    ASSUME IInv, NEW s \in Sessions, Commit(s)
    PROVE  /\ trans' \in [Sessions -> Transaction] /\ ~trans'[s].active
           /\ trans'[s].stime = trans[s].stime /\ trans'[s].wstime = trans[s].wstime
           /\ \A b \in Bases : trans'[s].base[b] =
                 IF b \in Forwarded(trans[s]) THEN Untouched ELSE trans[s].base[b]
           /\ snapshot' \in [Sessions -> [Objects -> Seq(Stamps)]]
           /\ \A r \in Sessions : r # s => trans'[r] = trans[r] /\ snapshot'[r] = snapshot[r]
           /\ MarksOf(trans'[s])
           /\ Active' = Active \ {s} /\ s \in Active
  <1> DEFINE tr == trans[s]
             fw == Forwarded(tr)
             base == [b \in Bases |-> IF b \in fw THEN Untouched ELSE tr.base[b]]
             x == trans'[s]
  <1>1. /\ trans' = [trans EXCEPT ![s].active = FALSE, ![s].base = base]
        /\ snapshot' = [snapshot EXCEPT ![s] = [o \in Objects |-> <<>>]]
        /\ tr.active
    BY DEF Commit, sql_trans_commit, End
  <1>2. trans \in [Sessions -> Transaction] /\ MarksOf(tr) /\ tr \in Transaction
        /\ \A b \in Bases : tr.base[b] \in Mark
    BY TransParts DEF IInv, Shape, SessionTypes, Marked
  <1>3. Untouched \in Mark /\ Untouched.rtime = 0 /\ Untouched.wtime = 0 /\ Untouched.data.kind = "none"
    BY DataKinds, StampsNat DEF Untouched, Mark
  <1>4. base \in [Bases -> Mark]
    BY <1>2, <1>3
  <1>5. \A b \in Bases : base[b] = IF b \in fw THEN Untouched ELSE tr.base[b]
    OBVIOUS
  <1> HIDE DEF base
  <1>6. /\ x \in Transaction /\ ~x.active /\ x.stime = tr.stime /\ x.wstime = tr.wstime /\ x.wtime = tr.wtime
        /\ x.base = base
        /\ \A r \in Sessions : r # s => trans'[r] = trans[r] /\ snapshot'[r] = snapshot[r]
        /\ trans' \in [Sessions -> Transaction]
    BY <1>1, <1>2, <1>4 DEF IInv, Shape, SessionTypes, Transaction
  <1>7. snapshot' \in [Sessions -> [Objects -> Seq(Stamps)]]
    <2>1. <<>> \in Seq(Stamps)
      OBVIOUS
    <2>2. [o \in Objects |-> <<>>] \in [Objects -> Seq(Stamps)]
      BY <2>1
    <2> QED BY <1>1, <2>2 DEF IInv, Shape, SessionTypes
  <1>8. \A b \in Bases : x.base[b] = IF b \in fw THEN Untouched ELSE tr.base[b]
    BY <1>5, <1>6
  <1>9. Active' = Active \ {s} /\ s \in Active
    BY <1>1, <1>6 DEF Active
  <1>10. /\ Schema \notin fw
         /\ \A c \in Columns : c \in fw <=> TableOf[c] \in fw
         /\ \A t \in Tables : tr.base[t].wtime # 0 => t \in fw
    BY Levels DEF Forwarded
  <1> HIDE DEF x, fw, tr
  <1>11. \A b \in Bases : x.base[b].rtime \in {0, x.stime} /\ x.base[b].wtime \in {0, x.wstime}
                          /\ (x.base[b].wtime # 0 => x.wtime # 0)
    BY <1>2, <1>3, <1>6, <1>8 DEF MarksOf
  <1>12. \A c \in Columns : /\ Touched(x, c) => Touched(x, TableOf[c])
                            /\ x.base[c].wtime # 0 => x.base[TableOf[c]].wtime # 0
    BY <1>2, <1>3, <1>8, <1>10, Levels DEF MarksOf, Touched
  <1>13. \A t \in Tables : /\ Touched(x, t) => Touched(x, Schema)
                           /\ x.base[t].wtime = 0
    BY <1>2, <1>3, <1>8, <1>10, Levels DEF MarksOf, Touched
  <1>14. \A o \in Objects : IsPrivate(x, o) => x.base[o].wtime # 0
    BY <1>2, <1>3, <1>8, Levels DEF MarksOf, IsPrivate
  <1>15. MarksOf(x)
    BY <1>2, <1>6, <1>11, <1>12, <1>13, <1>14 DEF MarksOf
  <1> QED BY <1>6, <1>7, <1>8, <1>9, <1>15 DEF x, fw, tr

\* What a commit adds to what was committed.
LEMMA CommitRows ==
    ASSUME IInv, NEW s \in Sessions, Commit(s), NEW o \in Objects
    PROVE  /\ OwnRows(trans[s], o) \in {<<>>, <<trans[s].wstime>>}
           /\ OwnRows(trans[s], o) \in Seq(Stamps)
           /\ ~IsPrivate(trans[s], o) => OwnRows(trans[s], o) = <<>>
           /\ committed'[o] = committed[o] \o OwnRows(trans[s], o)
           /\ committed'[o] \in Seq(Stamps)
           /\ OwnRows(trans[s], o) = <<>> => committed'[o] = committed[o]
           /\ Len(committed[o]) \in Nat /\ Len(committed'[o]) \in Nat
           /\ Len(committed[o]) <= Len(committed'[o])
           /\ OwnRows(trans[s], o) # <<>> => Len(committed[o]) < Len(committed'[o])
  <1> DEFINE own == OwnRows(trans[s], o)
             w == trans[s].wstime
  <1>1. own \in {<<>>, <<w>>} /\ (~IsPrivate(trans[s], o) => own = <<>>)
    BY Validated DEF OwnRows
  <1>2. w \in Stamps
    BY TransParts DEF IInv, Transaction
  <1>3. committed'[o] = committed[o] \o own /\ committed[o] \in Seq(Stamps)
    BY DEF Commit, sql_trans_commit, IInv, Shape, ChainTypes
  <1> HIDE DEF own, w
  <1>4. own \in Seq(Stamps) /\ (own # <<>> => Len(own) = 1) /\ (own = <<>> => Len(own) = 0)
    BY <1>1, <1>2, Concats
  <1>5. committed'[o] \in Seq(Stamps) /\ Len(committed'[o]) = Len(committed[o]) + Len(own)
        /\ (own = <<>> => committed'[o] = committed[o])
    BY <1>3, <1>4, Concats
  <1>6. Len(committed[o]) \in Nat
    BY <1>3
  <1>7. /\ Len(committed'[o]) \in Nat /\ Len(committed[o]) <= Len(committed'[o])
        /\ own # <<>> => Len(committed[o]) < Len(committed'[o])
    BY <1>4, <1>5, <1>6
  <1> QED BY <1>1, <1>3, <1>4, <1>5, <1>6, <1>7 DEF own, w

\* A sequence is its head and its tail.
LEMMA HeadAndTail ==
    ASSUME NEW ch \in Seq(Version), ch # <<>>, NEW v \in Version
    PROVE  <<v, Head(ch)>> \o Tail(ch) = <<v>> \o ch
  <1> DEFINE p == <<v, Head(ch)>> \o Tail(ch)
             q == <<v>> \o ch
  <1>1. Head(ch) \in Version /\ Tail(ch) \in Seq(Version) /\ Len(Tail(ch)) = Len(ch) - 1 /\ Len(ch) \in Nat /\ Len(ch) > 0
        /\ \A i \in 1..(Len(ch) - 1) : Tail(ch)[i] = ch[i + 1]
    OBVIOUS
  <1>2. p \in Seq(Version) /\ q \in Seq(Version) /\ Len(p) = Len(ch) + 1 /\ Len(q) = Len(ch) + 1
    BY <1>1
  <1>3. ASSUME NEW i \in 1..(Len(ch) + 1) PROVE p[i] = q[i]
    <2>1. CASE i = 1
      BY <1>1, <2>1
    <2>2. CASE i = 2
      BY <1>1, <2>2
    <2>3. CASE i > 2
      <3>1. i - 2 \in 1..(Len(ch) - 1) /\ i - 1 \in 1..Len(ch)
        BY <1>1, <2>3
      <3>2. p[i] = Tail(ch)[i - 2]
        BY <1>1, <2>3, <3>1
      <3>3. q[i] = ch[i - 1]
        BY <1>1, <2>3, <3>1
      <3> QED BY <1>1, <3>1, <3>2, <3>3
    <2> QED BY <2>1, <2>2, <2>3
  <1> HIDE DEF p, q
  <1>4. p = q
    BY <1>2, <1>3
  <1> QED BY <1>4 DEF p, q

\* While others are active a commit adds its versions to the chains: the
\* exchange of the BATs of the deletes leaves the version before it as it was.
LEMMA CommitBusy ==
    ASSUME IInv, NEW s \in Sessions, Commit(s), ~Alone, NEW o \in Objects
    PROVE  /\ ~IsPrivate(trans[s], o) => chain'[o] = chain[o] /\ central'[o] = central[o]
           /\ IsPrivate(trans[s], o) => \E v \in Version :
                /\ v.id = trans[s].wstime /\ v.wtime = trans[s].base[o].data.wtime
                /\ v.delta = Head(chain[o]).delta \o OwnRows(trans[s], o)
                /\ chain'[o] = <<v>> \o chain[o]
                /\ central'[o] = IF o \in Tables THEN v.delta ELSE central[o]
  <1> DEFINE tr == trans[s]
             d == tr.base[o].data
             h == Head(chain[o])
             own == OwnRows(tr, o)
             v == [id |-> tr.wstime, wtime |-> d.wtime, delta |-> h.delta \o own]
  <1>1. /\ chain'[o] = IF o \in Forwarded(tr) THEN NewChain(tr, o) ELSE chain[o]
        /\ central'[o] = IF o \in Forwarded(tr) THEN NewCentral(tr, o) ELSE central[o]
    BY DEF Commit, sql_trans_commit
  <1>2. /\ chain[o] \in Seq(Version) /\ chain[o] # <<>> /\ h \in Version /\ h = chain[o][1]
        /\ h.delta \in Seq(Stamps) /\ (o \in Tables => central[o] = h.delta)
    BY ChainParts, VersionParts DEF IInv, Chains, ChainOf
  <1>3. ASSUME ~IsPrivate(tr, o) PROVE chain'[o] = chain[o] /\ central'[o] = central[o]
    <2>1. NewChain(tr, o) = chain[o]
      BY <1>3 DEF NewChain, Pushes
    <2>2. NewCentral(tr, o) = central[o]
      BY <1>2, <2>1, Levels DEF NewCentral
    <2> QED BY <1>1, <2>1, <2>2
  <1>4. ASSUME IsPrivate(tr, o)
        PROVE  /\ v \in Version /\ v.id = tr.wstime /\ v.wtime = d.wtime /\ v.delta = h.delta \o own
               /\ chain'[o] = <<v>> \o chain[o]
               /\ central'[o] = IF o \in Tables THEN v.delta ELSE central[o]
    <2>1. /\ o \in Forwarded(tr) /\ tr.base[o].wtime # 0 /\ d \in PrivateData /\ d.delta = h.delta
          /\ own = d.own
      BY <1>4, Validated DEF OwnRows
    <2>2. tr.wstime \in Stamps /\ d.wtime \in Stamps /\ own \in Seq(Stamps) /\ h.delta \o own \in Seq(Stamps)
      <3>1. tr.wstime \in Stamps /\ d.wtime \in Stamps /\ d.own \in Seq(Stamps)
        BY <2>1, TransParts DEF IInv, Transaction, PrivateData
      <3> QED BY <1>2, <2>1, <3>1, Concats
    <2>3. v \in Version /\ v.id = tr.wstime /\ v.wtime = d.wtime /\ v.delta = h.delta \o own
      BY <2>2 DEF Version
    <2>4. NewVersion(tr, o) = v
      BY <2>1 DEF NewVersion
    <2>5. Pushes(tr, o)
      BY <1>4, <2>1 DEF Pushes
    <2>6. NewChain(tr, o) = IF o \in Tables THEN Swapped(tr, o) ELSE <<NewVersion(tr, o)>> \o chain[o]
      BY <2>5 DEF NewChain, Pushes
    <2>7. Swapped(tr, o) = <<v>> \o chain[o]
      <3> DEFINE left == IF own = <<>> THEN v.delta ELSE SubSeq(v.delta, 1, Len(h.delta))
      <3>1. left = h.delta
        BY <1>2, <2>2, <2>3, Concats
      <3>2. [h EXCEPT !.delta = left] = h
        BY <1>2, <3>1 DEF Version
      <3>3. [v EXCEPT !.delta = h.delta \o own] = v
        BY <2>3 DEF Version
      <3>4. Swapped(tr, o) = <<[v EXCEPT !.delta = h.delta \o own], [h EXCEPT !.delta = left]>> \o Tail(chain[o])
        BY <2>4 DEF Swapped
      <3> HIDE DEF v, h, left, own
      <3>5. Swapped(tr, o) = <<v, h>> \o Tail(chain[o])
        BY <3>2, <3>3, <3>4
      <3> QED BY <1>2, <2>3, <3>5, HeadAndTail DEF h
    <2>8. chain'[o] = <<v>> \o chain[o] /\ NewChain(tr, o) = <<v>> \o chain[o]
      BY <1>1, <2>1, <2>4, <2>6, <2>7
    <2>9. NewChain(tr, o)[1] = v
      <3> HIDE DEF v
      <3> QED BY <1>2, <2>3, <2>8
    <2>10. central'[o] = IF o \in Tables THEN v.delta ELSE central[o]
      <3> HIDE DEF v
      <3> QED BY <1>1, <2>1, <2>9 DEF NewCentral
    <2> QED BY <2>3, <2>8, <2>10
  <1> HIDE DEF v
  <1> QED BY <1>3, <1>4

\* The only active transaction merges: one version is left, and the central
\* BATs have the rows.
LEMMA CommitAlone ==
    ASSUME IInv, NEW s \in Sessions, Commit(s), Alone, NEW o \in Objects
    PROVE  /\ o \notin Forwarded(trans[s]) => chain'[o] = chain[o] /\ central'[o] = central[o]
           /\ o \in Forwarded(trans[s]) => \E v \in Version :
                /\ v.id = Head(chain[o]).id /\ v.wtime = Head(chain[o]).wtime /\ chain'[o] = <<v>>
                /\ o \in Columns => v.delta = <<>> /\ central'[o] = committed'[o]
                /\ o \in Tables => v.delta = committed'[o] /\ central'[o] = committed'[o]
  <1> DEFINE tr == trans[s]
             d == tr.base[o].data
             h == Head(chain[o])
             own == OwnRows(tr, o)
  <1>1. /\ chain'[o] = IF o \in Forwarded(tr) THEN NewChain(tr, o) ELSE chain[o]
        /\ central'[o] = IF o \in Forwarded(tr) THEN NewCentral(tr, o) ELSE central[o]
    BY DEF Commit, sql_trans_commit
  <1>2. /\ chain[o] \in Seq(Version) /\ chain[o] # <<>> /\ h \in Version
        /\ h.delta \in Seq(Stamps) /\ Content(o, h.delta) = committed[o] /\ central[o] \in Seq(Stamps)
    BY ChainParts, VersionParts DEF IInv, NoWriteLost, Shape, ChainTypes
  <1>3. own \in Seq(Stamps) /\ committed'[o] = committed[o] \o own
    BY CommitRows
  <1>4. ~Pushes(tr, o)
    BY DEF Pushes
  <1> SUFFICES ASSUME o \in Forwarded(tr)
               PROVE  \E v \in Version :
                /\ v.id = h.id /\ v.wtime = h.wtime /\ chain'[o] = <<v>>
                /\ o \in Columns => v.delta = <<>> /\ central'[o] = committed'[o]
                /\ o \in Tables => v.delta = committed'[o] /\ central'[o] = committed'[o]
    BY <1>1
  <1>5. CASE o \in Tables
    <2> DEFINE v == [h EXCEPT !.delta = h.delta \o own]
    <2>1. NewChain(tr, o) = <<v>> /\ NewCentral(tr, o) = NewChain(tr, o)[1].delta
      BY <1>4, <1>5, Levels DEF NewChain, NewCentral
    <2>2. h.delta \o own \in Seq(Stamps) /\ h.delta = committed[o]
      BY <1>2, <1>3, <1>5, Concats, Levels DEF Content
    <2>3. v \in Version /\ v.id = h.id /\ v.wtime = h.wtime /\ v.delta = committed'[o]
      BY <1>2, <1>3, <2>2 DEF Version
    <2> HIDE DEF v
    <2> QED BY <1>1, <1>5, <2>1, <2>3, Levels
  <1>6. CASE o \in Columns
    <2> DEFINE v == [h EXCEPT !.delta = <<>>]
    <2>1. NewChain(tr, o) = <<v>>
      BY <1>4, <1>6, Levels DEF NewChain
    <2>2. v \in Version /\ v.id = h.id /\ v.wtime = h.wtime /\ v.delta = <<>>
      BY <1>2, Concats DEF Version
    <2>3. central[o] \o h.delta = committed[o]
      BY <1>2, <1>6 DEF Content
    <2>4. NewCentral(tr, o) = central[o] \o (h.delta \o own)
      <3>1. CASE IsPrivate(tr, o)
        <4>1. d.delta = h.delta /\ own = d.own
          BY <3>1, Validated DEF OwnRows
        <4>2. NewVersion(tr, o).delta = h.delta \o own
          BY <4>1 DEF NewVersion
        <4> QED BY <1>6, <3>1, <4>2, Levels DEF NewCentral
      <3>2. CASE ~IsPrivate(tr, o)
        <4>1. own = <<>> /\ h.delta \o <<>> = h.delta
          BY <1>2, <3>2, Concats DEF OwnRows
        <4> QED BY <1>6, <3>2, <4>1, Levels DEF NewCentral
      <3> QED BY <3>1, <3>2
    <2>5. NewCentral(tr, o) = committed'[o]
      <3> HIDE DEF own, h
      <3>1. (central[o] \o h.delta) \o own = central[o] \o (h.delta \o own)
        <4>1. central[o] \in Seq(Stamps) /\ h.delta \in Seq(Stamps) /\ own \in Seq(Stamps)
          BY <1>2, <1>3
        <4> QED BY <4>1, ConcatAssoc
      <3> QED BY <1>3, <2>3, <2>4, <3>1
    <2> HIDE DEF v
    <2> QED BY <1>1, <1>6, <2>1, <2>2, <2>5, Levels
  <1> QED BY <1>5, <1>6 DEF Objects

\* The chain of an object after a commit.
LEMMA CommitChain ==
    ASSUME IInv, NEW s \in Sessions, Commit(s), InOrder, NEW o \in Objects
    PROVE  /\ chain'[o] \in Seq(Version) /\ chain'[o] # <<>> /\ central'[o] \in Seq(Stamps)
           /\ ChainOf(o)'
           /\ Content(o, Head(chain[o]).delta)' = committed'[o]
  <1> DEFINE tr == trans[s]
             w == tr.wstime
             h == Head(chain[o])
             own == OwnRows(tr, o)
  <1>1. /\ w \in Nat /\ gtrans.wtime \in Nat /\ gtrans.wtime < w /\ gtrans'.wtime = w
        /\ \A b \in Bases : /\ global[b].wtime \in Nat /\ global'[b].wtime \in Nat
                            /\ global'[b].allocated = global[b].allocated
                            /\ global[b].wtime <= global'[b].wtime
                            /\ tr.base[b].wtime # 0 => global'[b].wtime = w
    BY CommitTimes
  <1>2. /\ chain[o] \in Seq(Version) /\ chain[o] # <<>> /\ h \in Version /\ h = chain[o][1] /\ 1 \in DOMAIN chain[o]
        /\ \A i \in DOMAIN chain[o] : /\ chain[o][i].id \in Nat /\ chain[o][i].wtime \in Nat
                                      /\ chain[o][i].id <= gtrans.wtime /\ chain[o][i].wtime <= gtrans.wtime
        /\ ChainOf(o) /\ Content(o, h.delta) = committed[o] /\ o \in Bases
        /\ central[o] \in Seq(Stamps) /\ h.delta \in Seq(Stamps) /\ h.wtime <= global[o].wtime
        /\ committed[o] \in Seq(Stamps)
    BY ChainParts, VersionParts, Levels DEF IInv, Chains, ChainOf, NoWriteLost, Shape, ChainTypes
  <1>3. \A i \in DOMAIN chain[o] : chain[o][i].id < w /\ chain[o][i].wtime < w
    BY <1>1, <1>2
  <1>4. /\ own \in Seq(Stamps) /\ committed'[o] = committed[o] \o own /\ committed'[o] \in Seq(Stamps)
        /\ own = <<>> => committed'[o] = committed[o]
        /\ ~IsPrivate(tr, o) => own = <<>>
    BY CommitRows
  <1>5. ASSUME NEW b \in Bases PROVE /\ Changed(b) => Changed(b)'
                                     /\ tr.base[b].wtime # 0 => Changed(b)'
    <2>1. global[b].allocated \in Nat /\ global[b].allocated <= gtrans.wtime
      BY GlobalParts DEF IInv, Heights
    <2>2. global'[b].allocated < w
      BY <1>1, <2>1
    <2> HIDE DEF w
    <2> QED BY <1>1, <2>1, <2>2 DEF Changed
  <1>6. /\ o \in Columns => TableOf[o] \in Bases /\ o \notin Tables /\ TableOf[o] \in Tables
        /\ Schema \in Bases /\ (o \in Tables => o \notin Columns)
    BY Levels
  <1>7. h.wtime \in Nat /\ h.wtime <= global'[o].wtime /\ h.wtime < w /\ h.id < w /\ h.id \in Nat
    <2>1. global[o].wtime \in Nat /\ global'[o].wtime \in Nat /\ global[o].wtime <= global'[o].wtime
      BY <1>1, <1>2
    <2> QED BY <1>2, <1>3, <2>1
  <1>8. CASE chain'[o] = chain[o] /\ central'[o] = central[o] /\ committed'[o] = committed[o]
    <2>1. \A i \in DOMAIN chain'[o] : chain'[o][i].id <= gtrans'.wtime /\ chain'[o][i].wtime <= gtrans'.wtime
      BY <1>1, <1>2, <1>3, <1>8
    <2>2. o \in Columns /\ Head(chain'[o]).delta # <<>> => Changed(o)' /\ Changed(TableOf[o])' /\ Changed(Schema)'
      BY <1>2, <1>5, <1>6, <1>8 DEF ChainOf
    <2>3. ChainOf(o)'
      BY <1>2, <1>7, <1>8, <2>1, <2>2 DEF ChainOf
    <2>4. Content(o, Head(chain[o]).delta)' = committed'[o]
      BY <1>2, <1>8 DEF Content
    <2> QED BY <1>2, <1>8, <2>3, <2>4
  <1>9. CASE ~Alone /\ IsPrivate(tr, o)
    <2>1. PICK v \in Version :
                /\ v.id = w /\ v.wtime = tr.base[o].data.wtime
                /\ v.delta = h.delta \o own
                /\ chain'[o] = <<v>> \o chain[o]
                /\ central'[o] = IF o \in Tables THEN v.delta ELSE central[o]
      BY <1>9, CommitBusy
    <2>2. /\ chain'[o] \in Seq(Version) /\ chain'[o] # <<>> /\ Len(chain'[o]) = Len(chain[o]) + 1
          /\ Head(chain'[o]) = v /\ chain'[o][1] = v /\ Len(chain[o]) \in Nat
          /\ \A i \in 1..Len(chain[o]) : chain'[o][i + 1] = chain[o][i]
      BY <1>2, <2>1
    <2>3. v.wtime \in Nat /\ v.wtime <= w /\ v.delta \in Seq(Stamps) /\ tr.base[o].wtime # 0
      <3>1. tr.base[o].wtime # 0 /\ (tr.base[o].data.wtime = w \/ tr.base[o].data.wtime = h.wtime)
        BY <1>9, Validated
      <3>2. v.wtime \in Nat /\ v.delta \in Seq(Stamps)
        BY VersionParts
      <3>3. v.wtime = w \/ v.wtime = h.wtime
        BY <2>1, <3>1
      <3>4. w \in Nat /\ h.wtime \in Nat /\ h.wtime < w
        BY <1>1, <1>7
      <3> HIDE DEF w, h, tr
      <3> QED BY <3>1, <3>2, <3>3, <3>4
    <2>4. ASSUME NEW i \in DOMAIN chain'[o], i # 1
          PROVE  i - 1 \in DOMAIN chain[o] /\ chain'[o][i] = chain[o][i - 1]
      <3>1. i - 1 \in 1..Len(chain[o])
        BY <2>2, <2>4
      <3>2. chain'[o][(i - 1) + 1] = chain[o][i - 1]
        BY <2>2, <3>1
      <3>3. (i - 1) + 1 = i /\ DOMAIN chain[o] = 1..Len(chain[o])
        BY <1>2, <2>2
      <3> QED BY <3>1, <3>2, <3>3
    <2> HIDE DEF w, h, tr, own
    <2>5. ASSUME NEW i \in DOMAIN chain'[o]
          PROVE  chain'[o][i].id <= gtrans'.wtime /\ chain'[o][i].wtime <= gtrans'.wtime
      <3>1. CASE i = 1
        <4>1. chain'[o][i] = v
          BY <2>2, <3>1
        <4>2. v.id = w /\ v.wtime = tr.base[o].data.wtime
          BY <2>1
        <4> QED BY <1>1, <2>3, <4>1, <4>2
      <3>2. CASE i # 1
        BY <1>1, <1>2, <1>3, <2>4, <3>2
      <3> QED BY <3>1, <3>2
    <2>6. ASSUME NEW i \in DOMAIN chain'[o], NEW j \in DOMAIN chain'[o], chain'[o][i].id = chain'[o][j].id
          PROVE  i = j
      <3>1. ASSUME NEW k \in DOMAIN chain'[o], k # 1 PROVE chain'[o][k].id # w
        <4>1. k - 1 \in DOMAIN chain[o] /\ chain'[o][k] = chain[o][k - 1]
          BY <2>4, <3>1
        <4> QED BY <1>1, <1>2, <1>3, <4>1
      <3>2. CASE i = 1 \/ j = 1
        BY <2>1, <2>2, <2>6, <3>1, <3>2
      <3>3. CASE i # 1 /\ j # 1
        <4>1. i - 1 = j - 1
          BY <1>2, <2>4, <2>6, <3>3 DEF ChainOf
        <4> QED BY <2>2, <4>1
      <3> QED BY <3>2, <3>3
    <2>7. Head(chain'[o]).wtime <= global'[o].wtime
      BY <1>1, <1>2, <2>2, <2>3
    <2>8. o \in Tables => central'[o] = Head(chain'[o]).delta
      BY <2>1, <2>2
    <2>9. o \in Columns => Changed(o)' /\ Changed(TableOf[o])' /\ Changed(Schema)'
      <3>1. o \in Columns => tr.base[TableOf[o]].wtime # 0 /\ tr.base[Schema].wtime # 0
        BY <1>6, <2>3 DEF IInv, Shape, Marked, MarksOf, tr
      <3> QED BY <1>2, <1>5, <1>6, <2>3, <3>1
    <2>10. ChainOf(o)'
      BY <2>5, <2>6, <2>7, <2>8, <2>9 DEF ChainOf
    <2>11. Content(o, Head(chain[o]).delta)' = committed'[o]
      <3>1. CASE o \in Columns
        <4>1. central[o] \o (h.delta \o own) = (central[o] \o h.delta) \o own
          <5>1. central[o] \in Seq(Stamps) /\ h.delta \in Seq(Stamps) /\ own \in Seq(Stamps)
            BY <1>2, <1>4
          <5> QED BY <5>1, ConcatAssoc
        <4>2. central[o] \o h.delta = committed[o]
          BY <1>2, <3>1 DEF Content
        <4> QED BY <1>4, <1>6, <2>1, <2>2, <3>1, <4>1, <4>2 DEF Content
      <3>2. CASE o \notin Columns
        BY <1>2, <1>4, <2>1, <2>2, <3>2 DEF Content
      <3> QED BY <3>1, <3>2
    <2>12. central'[o] \in Seq(Stamps)
      BY <1>2, <2>1, <2>3
    <2> QED BY <2>2, <2>10, <2>11, <2>12
  <1>10. CASE Alone /\ o \in Forwarded(tr)
    <2>1. PICK v \in Version :
                /\ v.id = h.id /\ v.wtime = h.wtime /\ chain'[o] = <<v>>
                /\ o \in Columns => v.delta = <<>> /\ central'[o] = committed'[o]
                /\ o \in Tables => v.delta = committed'[o] /\ central'[o] = committed'[o]
      BY <1>10, CommitAlone
    <2>2. /\ chain'[o] \in Seq(Version) /\ chain'[o] # <<>> /\ Head(chain'[o]) = v /\ chain'[o][1] = v
          /\ DOMAIN chain'[o] = {1}
      BY <2>1
    <2>3. central'[o] = committed'[o]
      BY <2>1 DEF Objects
    <2>4. ChainOf(o)'
      BY <1>1, <1>6, <1>7, <2>1, <2>2 DEF ChainOf
    <2>5. Content(o, Head(chain[o]).delta)' = committed'[o]
      <3>1. CASE o \in Columns
        <4>1. committed'[o] \o <<>> = committed'[o]
          BY <1>4, Concats
        <4> QED BY <2>1, <2>2, <3>1, <4>1 DEF Content
      <3>2. CASE o \in Tables
        BY <1>6, <2>1, <2>2, <3>2 DEF Content
      <3> QED BY <3>1, <3>2 DEF Objects
    <2> QED BY <1>4, <2>2, <2>3, <2>4, <2>5
  <1>11. CASE ~Alone /\ ~IsPrivate(tr, o)
    BY <1>4, <1>8, <1>11, CommitBusy
  <1>12. CASE Alone /\ o \notin Forwarded(tr)
    BY <1>4, <1>8, <1>12, CommitAlone, Validated
  <1> QED BY <1>9, <1>10, <1>11, <1>12

\* The only active transaction.
LEMMA AloneIs ==
    ASSUME Alone, NEW s \in Active
    PROVE  Active = {s}
  <1>1. IsFiniteSet(Active)
    BY StoreAssumption, FS_Subset DEF Active
  <1>2. \E x : Active = {x}
    BY <1>1, FS_Singleton DEF Alone
  <1> QED BY <1>2

\* An active transaction of another session sees after a commit what it saw
\* before.
LEMMA CommitOthers ==
    ASSUME IInv, NEW s \in Sessions, Commit(s), InOrder, NEW r \in Active, r # s, NEW o \in Objects
    PROVE  /\ SnapshotOf(r, o)'
           /\ trans[r].base[o].data.kind = "shared" =>
                \E i \in DOMAIN chain'[o] : chain'[o][i].id = trans[r].base[o].data.id
  <1> DEFINE w == trans[s].wstime
             d == trans[r].base[o].data
             time == trans[r].stime
  <1>1. s \in Active /\ r \in Sessions /\ trans'[r] = trans[r] /\ snapshot'[r] = snapshot[r]
    BY CommitSession, ActiveSessions
  <1>2. ~Alone
    BY <1>1, AloneIs
  <1>3. SnapshotOf(r, o) /\ ChainOf(o) /\ o \in Bases
        /\ (d.kind = "shared" => \E i \in DOMAIN chain[o] : chain[o][i].id = d.id)
    BY Levels DEF IInv, Snapshots, Chains, NoDangling
  <1>4. /\ w \in Nat /\ gtrans.wtime \in Nat /\ gtrans.wtime < w
        /\ global[o].wtime \in Nat /\ global'[o].wtime \in Nat /\ global[o].wtime <= global'[o].wtime
        /\ trans[s].base[o].wtime # 0 => global'[o].wtime = w
    BY <1>3, CommitTimes
  <1>5. time \in Nat /\ time <= gtrans.wtime
    BY <1>1, TransParts DEF IInv, Shape, Times
  <1>6. /\ Len(committed[o]) \in Nat /\ Len(committed'[o]) \in Nat /\ Len(committed[o]) <= Len(committed'[o])
        /\ Len(snapshot[r][o]) \in Nat
    <2>1. snapshot[r][o] \in Seq(Stamps)
      BY <1>1 DEF IInv, Shape, SessionTypes
    <2>2. Len(snapshot[r][o]) \in Nat
      BY <2>1
    <2> QED BY <2>2, CommitRows
  <1>7. Len(snapshot'[r][o]) <= Len(committed'[o])
    BY <1>1, <1>3, <1>6 DEF SnapshotOf
  <1>8. chain[o] \in Seq(Version) /\ chain[o] # <<>>
    BY ChainParts DEF IInv
  <1>9. CASE ~IsPrivate(trans[s], o)
    <2>1. chain'[o] = chain[o] /\ central'[o] = central[o] /\ committed'[o] = committed[o]
      BY <1>2, <1>9, CommitBusy, CommitRows
    <2>2. global'[o].wtime <= time => global[o].wtime <= time
      <3> HIDE DEF time
      <3> QED BY <1>4, <1>5
    <2> QED BY <1>1, <1>3, <1>7, <2>1, <2>2 DEF SnapshotOf, Content
  <1>10. CASE IsPrivate(trans[s], o)
    <2>1. PICK v \in Version :
                /\ v.id = w /\ v.wtime = trans[s].base[o].data.wtime
                /\ v.delta = Head(chain[o]).delta \o OwnRows(trans[s], o)
                /\ chain'[o] = <<v>> \o chain[o]
                /\ central'[o] = IF o \in Tables THEN v.delta ELSE central[o]
      BY <1>2, <1>10, CommitBusy
    <2>2. /\ trans[s].base[o].wtime # 0
          /\ v.wtime = w \/ (v.wtime = Head(chain[o]).wtime /\ OwnRows(trans[s], o) = <<>>)
      BY <1>10, <2>1, Validated DEF OwnRows
    <2>3. time < w /\ global'[o].wtime = w
      <3> HIDE DEF time, w
      <3> QED BY <1>4, <1>5, <2>2
    <2>4. ~(global'[o].wtime <= time)
      <3> HIDE DEF time, w
      <3> QED BY <1>4, <1>5, <2>3
    <2>5. v.wtime > time \/ (v.wtime = Head(chain[o]).wtime /\ v.delta = Head(chain[o]).delta)
      <3>1. Head(chain[o]).delta \o <<>> = Head(chain[o]).delta
        BY ChainParts, VersionParts, Concats DEF IInv
      <3> HIDE DEF time, w
      <3> QED BY <1>4, <1>5, <2>1, <2>2, <2>3, <3>1
    <2>6. Visible(chain'[o], time).delta = Visible(chain[o], time).delta
      <3> HIDE DEF time
      <3> QED BY <1>5, <1>8, <2>1, <2>5, VisibleSame
    <2>7. o \in Columns => central'[o] = central[o]
      BY <2>1, Levels
    <2>8. ASSUME d.kind = "shared"
          PROVE  /\ \E i \in DOMAIN chain'[o] : chain'[o][i].id = d.id
                 /\ VersionOf(chain'[o], d.id) = VersionOf(chain[o], d.id)
      <3>1. PICK i \in DOMAIN chain[o] : chain[o][i].id = d.id
        BY <1>3, <2>8
      <3>2. i + 1 \in DOMAIN chain'[o] /\ chain'[o][i + 1] = chain[o][i]
        BY <1>8, <2>1
      <3>3. VersionOf(chain[o], d.id) = chain[o][i]
        BY <1>3, <3>1, VersionIs
      <3>4. \A j, k \in DOMAIN chain'[o] : chain'[o][j].id = chain'[o][k].id => j = k
        BY CommitChain DEF ChainOf
      <3> HIDE DEF d
      <3>5. VersionOf(chain'[o], d.id) = chain'[o][i + 1]
        BY <3>1, <3>2, <3>4 DEF VersionOf
      <3> QED BY <3>1, <3>2, <3>3, <3>5
    <2>9. Content(o, Visible(chain[o], trans[r].stime).delta)' = Content(o, Visible(chain[o], trans[r].stime).delta)
      BY <1>1, <2>6, <2>7 DEF Content
    <2>10. d.kind = "shared" =>
             Content(o, VersionOf(chain[o], trans[r].base[o].data.id).delta)' = snapshot[r][o]
      BY <1>1, <1>3, <2>7, <2>8 DEF SnapshotOf, Content
    <2>11. d.kind = "private" => Content(o, trans[r].base[o].data.delta)' = snapshot[r][o]
      BY <1>1, <1>3, <2>7 DEF SnapshotOf, Content
    <2>12. SnapshotOf(r, o)'
      BY <1>1, <1>3, <1>7, <2>4, <2>9, <2>10, <2>11 DEF SnapshotOf
    <2> QED BY <2>8, <2>12
  <1> QED BY <1>9, <1>10

\* A commit keeps the invariant.
LEMMA CommitKeeps ==
    ASSUME IInv, NEW s \in Sessions, Commit(s), InOrder
    PROVE  IInv'
  <1> DEFINE w == trans[s].wstime
  <1>1. /\ w \in Nat /\ w \in Stamps /\ gtrans.wtime \in Nat /\ gtrans.wtime < w /\ w < stamp
        /\ stamp' = stamp /\ gtrans'.wtime = w /\ w <= gtrans'.wstime /\ gtrans'.wstime < stamp
        /\ gtrans' \in [wtime : Stamps, wstime : Stamps]
        /\ global' \in [Bases -> [rtime : Stamps, wtime : Stamps, allocated : Stamps]]
        /\ \A b \in Bases : /\ global[b].wtime \in Nat /\ global'[b].wtime \in Nat
                            /\ global'[b].allocated = global[b].allocated
                            /\ global'[b].rtime <= w /\ global'[b].wtime <= w
                            /\ global[b].wtime <= global'[b].wtime
                            /\ trans[s].base[b].wtime # 0 => global'[b].wtime = w
        /\ \A o \in Objects : o \notin Forwarded(trans[s]) => global'[o] = global[o]
        /\ \A c \in Columns : global'[c].wtime <= global'[TableOf[c]].wtime
        /\ \A t \in Tables : global'[t].wtime <= global'[Schema].wtime
    BY CommitTimes
  <1>2. /\ trans' \in [Sessions -> Transaction] /\ ~trans'[s].active
        /\ trans'[s].stime = trans[s].stime /\ trans'[s].wstime = trans[s].wstime
        /\ \A b \in Bases : trans'[s].base[b] =
              IF b \in Forwarded(trans[s]) THEN Untouched ELSE trans[s].base[b]
        /\ snapshot' \in [Sessions -> [Objects -> Seq(Stamps)]]
        /\ \A r \in Sessions : r # s => trans'[r] = trans[r] /\ snapshot'[r] = snapshot[r]
        /\ MarksOf(trans'[s])
        /\ Active' = Active \ {s} /\ s \in Active
    BY CommitSession
  <1>3. GlobalTypes' /\ SessionTypes'
    BY <1>1, <1>2 DEF IInv, Shape, GlobalTypes, SessionTypes, Commit, sql_trans_commit
  <1>4. ChainTypes'
    <2>1. /\ chain' = [o \in Objects |-> chain'[o]] /\ central' = [o \in Objects |-> central'[o]]
          /\ committed' = [o \in Objects |-> committed'[o]]
      BY DEF Commit, sql_trans_commit
    <2>2. \A o \in Objects : /\ chain'[o] \in Seq(Version) /\ chain'[o] # <<>>
                             /\ central'[o] \in Seq(Stamps) /\ committed'[o] \in Seq(Stamps)
      BY CommitChain, CommitRows
    <2> QED BY <2>1, <2>2 DEF ChainTypes
  <1>5. Times'
    <2>1. \A r \in Sessions : /\ trans[r].stime \in Nat /\ trans[r].wstime \in Nat
                              /\ trans[r].stime <= gtrans.wtime /\ trans[r].wstime < stamp
                              /\ trans[r].active => trans[r].stime < trans[r].wstime
      BY TransParts DEF IInv, Shape, Times
    <2>2. \A r \in Sessions : trans[r].stime <= w
      <3> HIDE DEF w
      <3> QED BY <1>1, <2>1
    <2>3. \A r \in Sessions : /\ trans'[r].stime <= gtrans'.wtime /\ trans'[r].wstime < stamp'
                              /\ trans'[r].active => trans'[r].stime < trans'[r].wstime
      BY <1>1, <1>2, <2>1, <2>2
    <2> QED BY <1>1, <2>3 DEF Times
  <1>6. Marked'
    <2>1. \A r \in Sessions : MarksOf(trans'[r])
      BY <1>2 DEF IInv, Shape, Marked
    <2> QED BY <2>1 DEF Marked, MarksOf, Touched, IsPrivate
  <1>7. Heights'
    <2>1. \A b \in Bases : global'[b].allocated <= gtrans'.wtime
      <3>1. \A b \in Bases : global[b].allocated \in Nat /\ global[b].allocated <= gtrans.wtime
        BY GlobalParts DEF IInv, Heights
      <3> HIDE DEF w
      <3> QED BY <1>1, <3>1
    <2>2. gtrans'.wtime > 0
      BY <1>1
    <2>3. \A r \in Sessions : trans'[r].stime > 0
      BY <1>2 DEF IInv, Heights
    <2> QED BY <1>1, <2>1, <2>2, <2>3 DEF Heights
  <1>8. Chains' /\ NoWriteLost'
    BY CommitChain DEF Chains, NoWriteLost
  <1>9. ASSUME NEW r \in Sessions, NEW o \in Objects PROVE DataOf(r, o)'
    <2>1. DataOf(r, o) /\ o \in Bases /\ trans[r].stime \in Nat /\ trans[r].stime <= gtrans.wtime
          /\ trans[r].base[o].data \in Data
      BY TransParts, Levels DEF IInv, Bindings, Shape, Times
    <2>2. Head(chain'[o]).id = Head(chain[o]).id \/ global'[o].wtime = w
      <3>1. CASE Alone
        <4>1. CASE o \in Forwarded(trans[s])
          <5>1. PICK v \in Version : v.id = Head(chain[o]).id /\ chain'[o] = <<v>>
            BY <3>1, <4>1, CommitAlone
          <5>2. Head(<<v>>) = v
            OBVIOUS
          <5> QED BY <5>1, <5>2
        <4>2. CASE o \notin Forwarded(trans[s])
          BY <3>1, <4>2, CommitAlone
        <4> QED BY <4>1, <4>2
      <3>2. CASE ~Alone /\ ~IsPrivate(trans[s], o)
        BY <3>2, CommitBusy
      <3>3. CASE IsPrivate(trans[s], o)
        BY <1>1, <2>1, <3>3, Validated
      <3> QED BY <3>1, <3>2, <3>3
    <2>3. trans[r].stime < w
      <3> HIDE DEF w
      <3> QED BY <1>1, <2>1
    <2>4. trans[r].stime < global[o].wtime => trans[r].stime < global'[o].wtime
      BY <1>1, <2>1
    <2>5. trans[r].base[o].data.kind = "private" /\ trans[r].base[o].data.wtime <= gtrans.wtime =>
             trans[r].base[o].data.wtime <= gtrans'.wtime
      <3>1. trans[r].base[o].data.kind = "private" => trans[r].base[o].data.wtime \in Nat
        BY <2>1, DataKinds, StampsNat
      <3> HIDE DEF w
      <3> QED BY <1>1, <3>1
    <2>6. CASE r # s
      BY <1>2, <2>1, <2>2, <2>3, <2>4, <2>5, <2>6 DEF DataOf
    <2>7. CASE r = s /\ o \in Forwarded(trans[s])
      <3>1. Untouched.data.kind = "none"
        BY DataKinds DEF Untouched
      <3> QED BY <1>2, <2>1, <2>7, <3>1 DEF DataOf
    <2>8. CASE r = s /\ o \notin Forwarded(trans[s])
      BY <1>2, <2>1, <2>2, <2>3, <2>4, <2>5, <2>8 DEF DataOf
    <2> QED BY <2>6, <2>7, <2>8
  <1>10. NoDangling'
    <2>1. ASSUME NEW r \in Active', NEW o \in Objects, trans'[r].base[o].data.kind = "shared"
          PROVE  \E i \in DOMAIN chain'[o] : chain'[o][i].id = trans'[r].base[o].data.id
      <3>1. r \in Active /\ r # s /\ trans'[r] = trans[r]
        BY <1>2, ActiveSessions
      <3> QED BY <2>1, <3>1, CommitOthers
    <2> QED BY <2>1 DEF NoDangling
  <1>11. Snapshots'
    <2>1. ASSUME NEW r \in Active', NEW o \in Objects PROVE SnapshotOf(r, o)'
      <3>1. r \in Active /\ r # s
        BY <1>2
      <3> QED BY <3>1, CommitOthers
    <2> QED BY <2>1 DEF Snapshots
  <1>12. Progress'
    <2>1. PICK p \in Objects : OwnRows(trans[s], p) # <<>>
      BY <1>2 DEF IInv, Progress, Commit
    <2>2. Len(committed[p]) \in Nat /\ Len(committed'[p]) \in Nat /\ Len(committed[p]) < Len(committed'[p])
      BY <2>1, CommitRows
    <2>3. ASSUME NEW r \in Active'
          PROVE  /\ \E o \in Objects : Len(snapshot'[r][o]) < Len(committed'[o])
                 /\ trans'[r].wtime # 0 => \E o \in Objects : OwnRows(trans'[r], o) # <<>>
      <3>1. r \in Active /\ r # s /\ r \in Sessions /\ trans'[r] = trans[r] /\ snapshot'[r] = snapshot[r]
        BY <1>2, ActiveSessions
      <3>2. snapshot[r][p] \in Seq(Stamps) /\ Len(snapshot[r][p]) <= Len(committed[p])
        BY <3>1 DEF IInv, Shape, SessionTypes, Snapshots, SnapshotOf
      <3>3. Len(snapshot[r][p]) < Len(committed'[p])
        BY <2>2, <3>2
      <3> QED BY <3>1, <3>3 DEF IInv, Progress
    <2> QED BY <2>3 DEF Progress, OwnRows, IsPrivate
  <1> QED BY <1>3, <1>4, <1>5, <1>6, <1>7, <1>8, <1>9, <1>10, <1>11, <1>12 DEF IInv, Shape, Bindings

----------------------------------------------------------------------------
(***************************************************************************)
(* The theorems                                                            *)
(***************************************************************************)
\* Every step keeps the invariant.
LEMMA NextIInv == IInv /\ Ordered /\ [Next]_vars => IInv'
  <1> SUFFICES ASSUME IInv, Ordered, [Next]_vars PROVE IInv'
    OBVIOUS
  <1>1. ASSUME NEW s \in Sessions, Begin(s) PROVE IInv'
    BY <1>1, BeginKeeps
  <1>2. ASSUME NEW s \in Sessions, Count(s) \/ Select(s) \/ Update(s) \/ Insert(s) \/ Delete(s) PROVE IInv'
    BY <1>2, StatementKeeps
  <1>3. ASSUME NEW s \in Sessions, Commit(s) PROVE IInv'
    BY <1>3, CommitKeeps DEF Ordered
  <1>4. ASSUME NEW s \in Sessions, Rollback(s) PROVE IInv'
    BY <1>4, RollbackKeeps
  <1>5. CASE Flush
    BY <1>5, FlushKeeps
  <1>6. CASE UNCHANGED vars
    <2>1. UNCHANGED <<stamp, gtrans, global, chain, central, trans, committed, snapshot, work>>
      BY <1>6 DEF vars, store
    <2>2. Shape'
      BY <2>1 DEF IInv, Shape, GlobalTypes, ChainTypes, SessionTypes, Times, Marked, MarksOf, Touched, IsPrivate
    <2>3. Heights' /\ Chains' /\ NoWriteLost'
      BY <2>1 DEF IInv, Heights, Chains, ChainOf, Changed, NoWriteLost, Content
    <2>4. Bindings' /\ NoDangling'
      BY <2>1 DEF IInv, Bindings, DataOf, NoDangling, Active
    <2>5. Snapshots' /\ Progress'
      BY <2>1 DEF IInv, Snapshots, SnapshotOf, Content, Progress, Active, OwnRows, IsPrivate
    <2> QED BY <2>2, <2>3, <2>4, <2>5 DEF IInv
  <1> QED BY <1>1, <1>2, <1>3, <1>4, <1>5, <1>6 DEF Next

\* The invariant holds in all states.
LEMMA Invariant ==
    ASSUME Ordered
    PROVE  Spec => []IInv
  <1>1. Init => IInv
    BY InitIInv
  <1>2. IInv /\ [Next]_vars => IInv'
    BY NextIInv
  <1> QED BY <1>1, <1>2, PTL DEF Spec

\* What a transaction sees.
LEMMA ViewIs ==
    ASSUME IInv, NEW s \in Active, NEW o \in Objects, trans[s].base[o].data.kind # "none"
    PROVE  View(trans[s], o) = snapshot[s][o] \o OwnRows(trans[s], o)
  <1> DEFINE d == trans[s].base[o].data
  <1>1. SnapshotOf(s, o) /\ d \in Data /\ snapshot[s][o] \in Seq(Stamps) /\ central[o] \in Seq(Stamps)
    BY ActiveSessions, TransParts, Levels DEF IInv, Snapshots, Shape, SessionTypes, ChainTypes
  <1>2. CASE d.kind = "shared"
    <2>1. snapshot[s][o] \o <<>> = snapshot[s][o]
      BY <1>1, Concats
    <2> QED BY <1>1, <1>2, <2>1 DEF SnapshotOf, View, OwnRows, IsPrivate
  <1>3. CASE d.kind = "private"
    <2>1. d.delta \in Seq(Stamps) /\ d.own \in Seq(Stamps)
      BY <1>1, <1>3, DataKinds
    <2>2. (central[o] \o d.delta) \o d.own = central[o] \o (d.delta \o d.own)
      <3> HIDE DEF d
      <3> QED BY <1>1, <2>1, ConcatAssoc
    <2>3. Content(o, d.delta) = snapshot[s][o]
      BY <1>1, <1>3 DEF SnapshotOf
    <2>4. Content(o, d.delta \o d.own) = Content(o, d.delta) \o d.own
      BY <2>2 DEF Content
    <2> QED BY <1>3, <2>3, <2>4 DEF View, OwnRows, IsPrivate
  <1> QED BY <1>1, <1>2, <1>3, DataKinds

\* The counters and time marks stay in their ranges, and the marks of an active
\* transaction are its own times (sql_trans_begin, update_table).
THEOREM TypeCorrect ==
    ASSUME Ordered
    PROVE  Spec => []TypeOK
  <1>1. IInv => TypeOK
    BY DEF IInv, Shape, GlobalTypes, ChainTypes, Marked, MarksOf, TypeOK
  <1> QED BY <1>1, Invariant, PTL

\* No commit discards another one: the latest version of every object is what
\* was committed to it (validate_tables, update_table, gtr_update).
THEOREM WriteSafety ==
    ASSUME Ordered
    PROVE  Spec => []NoWriteLost
  <1>1. IInv => NoWriteLost
    BY DEF IInv
  <1> QED BY <1>1, Invariant, PTL

\* Every transaction has the snapshot of its beginning and its own changes
\* (timestamp_delta, dup_bat).
THEOREM SnapshotSafety ==
    ASSUME Ordered
    PROVE  Spec => []SnapshotExact
  <1>1. IInv => SnapshotExact
    BY ViewIs DEF SnapshotExact
  <1> QED BY <1>1, Invariant, PTL

\* The versions that a transaction has bound are still there, although its
\* session keeps what it bound in the transactions before (reset_trans).
THEOREM BindingSafety ==
    ASSUME Ordered
    PROVE  Spec => []NoDangling
  <1>1. IInv => NoDangling
    BY DEF IInv
  <1> QED BY <1>1, Invariant, PTL

\* Nobody is refused unless another transaction committed meanwhile
\* (validate_tables).
THEOREM ConflictSafety ==
    ASSUME Ordered
    PROVE  Spec => []NoSpuriousConflict
  <1>1. ASSUME IInv, NEW s \in Active, snapshot[s] = committed
        PROVE  sql_trans_validate(trans[s])
    <2>1. s \in Sessions /\ trans[s].active /\ MarksOf(trans[s])
      BY <1>1, ActiveSessions DEF IInv, Shape, Marked
    <2>2. \A o \in Objects : Len(committed[o]) \in Nat
      BY <1>1 DEF IInv, Shape, ChainTypes
    <2>3. ~\E o \in Objects : Len(snapshot[s][o]) < Len(committed[o])
      BY <1>1, <2>2
    <2>4. gtrans.wtime = trans[s].stime
      BY <1>1, <2>3 DEF IInv, Progress
    <2>5. ASSUME NEW b \in Bases PROVE ~Conflict(trans[s], b)
      <3>1. /\ trans[s].stime \in Nat /\ trans[s].wstime \in Nat /\ trans[s].stime < trans[s].wstime
            /\ global[b].rtime \in Nat /\ global[b].wtime \in Nat
            /\ global[b].rtime <= trans[s].stime /\ global[b].wtime <= trans[s].stime
            /\ trans[s].base[b].rtime \in {0, trans[s].stime} /\ trans[s].base[b].wtime \in {0, trans[s].wstime}
        BY <1>1, <2>1, <2>4, TransParts, GlobalParts DEF IInv, Shape, Times, MarksOf
      <3> QED BY <3>1 DEF Conflict
    <2> QED BY <2>5, Levels DEF sql_trans_validate
  <1>2. IInv => NoSpuriousConflict
    BY <1>1 DEF NoSpuriousConflict
  <1> QED BY <1>2, Invariant, PTL

\* What validation shows of everything the transaction touched: nobody has
\* written it since.
LEMMA TouchedLatest ==
    ASSUME IInv, NEW s \in Sessions, Commit(s), NEW o \in Objects, Touched(trans[s], o)
    PROVE  committed[o] = snapshot[s][o]
  <1> DEFINE tr == trans[s]
  <1>1. sql_trans_validate(tr) /\ MarksOf(tr) /\ SnapshotOf(s, o) /\ o \in Bases
    BY ActiveSessions, Levels DEF Commit, IInv, Shape, Marked, Snapshots
  <1>2. CASE o \in Forwarded(tr)
    BY <1>2, Validated
  <1>3. CASE o \notin Forwarded(tr)
    <2>1. tr.base[o].wtime = 0 /\ tr.base[o].rtime # 0
      BY <1>1, <1>3 DEF Touched, MarksOf, Forwarded, Objects
    <2>2. ~Conflict(tr, o)
      <3>1. CASE o \in Tables
        BY <1>1, <3>1 DEF sql_trans_validate, MarksOf
      <3>2. CASE o \in Columns
        <4>1. TableOf[o] \in Tables /\ o \in ColumnsOf(TableOf[o]) /\ Touched(tr, TableOf[o])
          BY <1>1, <3>2, Levels DEF MarksOf
        <4> QED BY <1>1, <4>1 DEF sql_trans_validate, MarksOf
      <3> QED BY <3>1, <3>2 DEF Objects
    <2>3. tr.base[o].rtime = tr.stime
      BY <1>1, <2>1 DEF MarksOf
    <2>4. tr.stime \in Nat /\ global[o].wtime \in Nat
      BY <1>1, TransParts, GlobalParts DEF IInv
    <2>5. global[o].wtime <= tr.stime
      BY <2>1, <2>2, <2>3, <2>4 DEF Conflict
    <2> QED BY <1>1, <2>5 DEF SnapshotOf
  <1> QED BY <1>2, <1>3

\* Only a commit adds to what was committed.
LEMMA OnlyCommits ==
    ASSUME [Next]_vars, committed' # committed
    PROVE  \E s \in Sessions : Commit(s)
  <1>1. ~UNCHANGED vars
    BY DEF vars
  <1>2. ASSUME NEW s \in Sessions PROVE ~Begin(s) /\ ~Rollback(s)
    BY DEF Begin, Rollback
  <1>3. ASSUME NEW s \in Sessions PROVE ~(Count(s) \/ Select(s) \/ Update(s) \/ Insert(s) \/ Delete(s))
    BY DEF Count, Select, Update, Insert, Delete, Statement
  <1>4. ~Flush
    BY DEF Flush
  <1> QED BY <1>1, <1>2, <1>3, <1>4 DEF Next

\* The transactions that write are serial in the order of their commits: what
\* each touched it saw as it was committed (sql_trans_validate).
THEOREM Serializability ==
    ASSUME Ordered
    PROVE  Spec => CommitsSerial
  <1>1. ASSUME IInv, [Next]_vars, NEW s \in Sessions, trans[s].active, ~trans'[s].active, committed' # committed,
               NEW o \in Objects, Touched(trans[s], o), trans[s].base[o].data.kind # "none"
        PROVE  View(trans[s], o) = committed[o] \o OwnRows(trans[s], o)
    <2>1. PICK r \in Sessions : Commit(r)
      BY <1>1, OnlyCommits
    <2>2. r = s
      BY <1>1, <2>1, CommitSession
    <2>3. committed[o] = snapshot[s][o]
      BY <1>1, <2>1, <2>2, TouchedLatest
    <2>4. s \in Active
      BY <1>1, ActiveSessions
    <2> QED BY <1>1, <2>3, <2>4, ViewIs
  <1>2. IInv /\ [Next]_vars =>
          [\A s \in Sessions : (trans[s].active /\ ~trans'[s].active /\ committed' # committed) =>
             \A o \in Objects : Touched(trans[s], o) /\ trans[s].base[o].data.kind # "none" =>
                View(trans[s], o) = committed[o] \o OwnRows(trans[s], o)]_vars
    BY <1>1
  <1> QED BY <1>2, Invariant, PTL DEF Spec, CommitsSerial

\* After a flush the central BATs have everything that was committed: the log
\* before it is not needed (gtr_update).
THEOREM FlushSafety ==
    ASSUME Ordered
    PROVE  Spec => FlushComplete
  <1>1. ASSUME IInv, [Next]_vars, stamp' > stamp, trans' = trans
        PROVE  central' = committed
    <2>1. stamp \in Nat
      BY <1>1, GlobalParts DEF IInv
    <2>2. stamp' # stamp
      BY <1>1, <2>1
    <2>3. ASSUME NEW s \in Sessions, Begin(s) PROVE FALSE
      <3>1. trans'[s].active = TRUE /\ ~trans[s].active
        BY <1>1, <2>3 DEF Begin, IInv, Shape, SessionTypes
      <3> QED BY <1>1, <3>1
    <2>4. ASSUME NEW s \in Sessions PROVE ~Commit(s) /\ ~Rollback(s)
      BY <2>2 DEF Commit, sql_trans_commit, Rollback, store
    <2>5. ASSUME NEW s \in Sessions PROVE ~(Count(s) \/ Select(s) \/ Update(s) \/ Insert(s) \/ Delete(s))
      BY <2>2 DEF Count, Select, Update, Insert, Delete, Statement, store
    <2>6. ~UNCHANGED vars
      BY <2>2 DEF vars, store
    <2>7. Flush
      BY <1>1, <2>3, <2>4, <2>5, <2>6 DEF Next
    <2> QED BY <1>1, <2>7, FlushMerges
  <1>2. IInv /\ [Next]_vars =>
          [(Active = {} /\ stamp' > stamp /\ trans' = trans) => central' = committed]_vars
    BY <1>1
  <1> QED BY <1>2, Invariant, PTL DEF Spec, FlushComplete
==============================================================================
